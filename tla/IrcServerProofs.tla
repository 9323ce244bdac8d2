-------------------------- MODULE IrcServerProofs --------------------------
(***************************************************************************)
(* Theorems about IrcServer for any number of descriptors, slots, channels *)
(* and lines: the client table, the select sets and the kernel's           *)
(* descriptors agree, nicknames stay unique, and so do channel names; every *)
(* round of select serves all it reported; and the counters cover the      *)
(* clients where every handshake is a registration.  IInv, the first       *)
(* inductive invariant, is the conjunction of the run's invariants; none   *)
(* of them needs more.  The last two theorems each add a strengthening     *)
(* that is inductive relative to it: Round and Registered.                 *)
(***************************************************************************)
EXTENDS IrcServer, FiniteSetTheorems, SequenceTheorems, TLAPS

IInv == TypeOK /\ TableSound /\ NickUnique /\ ChannelsSound /\ AcceptReady

Fates == {"running", "exited", "sigpipe", "nullNick", "nullJoin", "overflow"}
Tables == [Slots -> UserInfo \cup {NoClient}]

(***************************************************************************)
(* What one command may do to the table: who is connected, and on which    *)
(* descriptor, stays as it is; nicknames and channel names stay unique.    *)
(***************************************************************************)
UniqueNicks(tab) ==
  \A i, j \in Slots : /\ tab[i] # NoClient /\ tab[j] # NoClient
                      /\ tab[i].nickname = tab[j].nickname
                      => i = j \/ tab[i].nickname = NoName
SameOwners(tab, new) ==
  /\ new \in Tables
  /\ \A i \in Slots : /\ new[i] = NoClient <=> tab[i] = NoClient
                      /\ tab[i] # NoClient => new[i].fd = tab[i].fd
UniqueNames(chs) ==
  \A c, d \in 1 .. Len(chs) : chs[c].name = chs[d].name => c = d
ValidIds(tab, chs) ==
  \A i \in Slots : tab[i] # NoClient => tab[i].chanID <= Len(chs)
Over == {"fin", "gone"}            \* read returns 0
Closed == Over \cup {"abort"}      \* select reports it, lines or none
SamePeers ==
  /\ peer' \in [ClientFds -> PeerState]
  /\ \A f \in ClientFds : /\ peer'[f] = "none" <=> peer[f] = "none"
                          /\ peer[f] \in Over => peer'[f] \in Over
                          /\ peer[f] \in Closed => peer'[f] \in Closed

CommandStep ==
  /\ SameOwners(client, client') /\ UniqueNicks(client')
  /\ channels' \in Seq(Channel) /\ UniqueNames(channels')
  /\ ValidIds(client', channels')
  /\ kusers' \in Int /\ fate' \in Fates
  /\ SamePeers

LEMMA DeliverKeeps ==
  ASSUME TypeOK, NEW w, Deliver(w)
  PROVE  SamePeers /\ fate' \in Fates
BY DEF TypeOK, Deliver, SamePeers, Fates, PeerState, Over, Closed

(* A command that changes nothing in the table. *)
LEMMA Idle ==
  ASSUME IInv, UNCHANGED tableVars
  PROVE  /\ SameOwners(client, client') /\ UniqueNicks(client')
         /\ channels' \in Seq(Channel) /\ UniqueNames(channels')
         /\ ValidIds(client', channels')
         /\ kusers' \in Int
BY DEF IInv, TypeOK, NickUnique, ChannelsSound, Live, tableVars, SameOwners,
       Tables, UniqueNicks, UniqueNames, ValidIds

LEMMA ReplyStep ==
  ASSUME IInv, NEW u, NEW n, ReplyOnly(u, n)
  PROVE  CommandStep
<1>1. Deliver(To(u, n)) /\ UNCHANGED tableVars
  BY DEF ReplyOnly
<1>2. SamePeers /\ fate' \in Fates
  BY <1>1, DeliverKeeps DEF IInv
<1> QED
  BY <1>1, <1>2, Idle DEF CommandStep

LEMMA SegfaultStep ==
  ASSUME IInv, NEW where \in Fates, Segfault(where)
  PROVE  CommandStep
<1>1. UNCHANGED tableVars /\ UNCHANGED peer /\ fate' \in Fates
  BY DEF Segfault, tableVars
<1>2. SamePeers
  BY <1>1 DEF IInv, TypeOK, SamePeers
<1> QED
  BY <1>1, <1>2, Idle DEF CommandStep

(* Every other client whose nickname checkNickExist must see is in the     *)
(* slots it scans.                                                         *)
LEMMA NickStep ==
  ASSUME IInv, NEW u \in Live, InHandshake => u = cur, NEW a \in Seq(Token),
         Nick(u, a)
  PROVE  CommandStep
<1> DEFINE Same == {i \in Scanned \cap Live : client[i].nickname = a[1]}
<1>1. CASE ReplyOnly(u, 1)
  BY <1>1, ReplyStep
<1>2. CASE Segfault("nullNick")
  BY <1>2, SegfaultStep DEF Fates
<1>3. CASE /\ a # << >> /\ Same = {}
           /\ client' = [client EXCEPT ![u].nickname = a[1]]
           /\ UNCHANGED <<channels, kusers, peer, fate>>
  <2>1. a[1] \in Token
    BY <1>3
  <2>2. client[u] \in UserInfo /\ u \in Slots
    BY DEF IInv, TypeOK, Live
  <2>3. [client[u] EXCEPT !.nickname = a[1]] \in UserInfo
    BY <2>1, <2>2 DEF UserInfo
  <2>4. SameOwners(client, client')
    BY <1>3, <2>2, <2>3, NoClientAssumption
    DEF IInv, TypeOK, SameOwners, Tables, UserInfo
  <2>5. \A i \in Live : i # u => client[i].nickname # a[1]
    BY <1>3 DEF IInv, TableSound, Scanned, Live
  <2>6. UniqueNicks(client')
    <3>1. \A i \in Slots : client'[i] = IF i = u THEN [client[u] EXCEPT !.nickname = a[1]]
                                        ELSE client[i]
      BY <1>3, <2>2 DEF IInv, TypeOK
    <3>2. client'[u].nickname = a[1]
      BY <3>1, <2>2 DEF UserInfo
    <3> QED
      BY <3>1, <3>2, <2>5 DEF IInv, NickUnique, UniqueNicks, Live
  <2>7. ValidIds(client', channels') /\ UniqueNames(channels')
    BY <1>3, <2>2 DEF IInv, TypeOK, ChannelsSound, ValidIds, UniqueNames, Live, UserInfo
  <2>8. SamePeers /\ channels' \in Seq(Channel) /\ kusers' \in Int /\ fate' \in Fates
    BY <1>3 DEF IInv, TypeOK, SamePeers, Fates
  <2> QED
    BY <2>4, <2>6, <2>7, <2>8 DEF CommandStep
<1> QED
  BY <1>1, <1>2, <1>3 DEF Nick

(* A command that rewrites its sender's record but neither its descriptor  *)
(* nor its nickname, and drops no channel.                                 *)
LEMMA RecordStep ==
  ASSUME IInv, NEW u \in Live, NEW r \in UserInfo,
         client' = [client EXCEPT ![u] = r],
         r.fd = client[u].fd, r.nickname = client[u].nickname,
         channels' \in Seq(Channel), Len(channels) <= Len(channels'),
         r.chanID <= Len(channels')
  PROVE  /\ SameOwners(client, client') /\ UniqueNicks(client')
         /\ ValidIds(client', channels')
<1>1. \A i \in Slots : client'[i] = IF i = u THEN r ELSE client[i]
  BY DEF IInv, TypeOK, Live
<1>2. SameOwners(client, client')
  BY NoClientAssumption, <1>1 DEF IInv, TypeOK, SameOwners, Tables, Live
<1>3. UniqueNicks(client')
  BY <1>1 DEF IInv, NickUnique, UniqueNicks, Live
<1>4. \A i \in Live : client[i].chanID \in Nat
  BY DEF IInv, TypeOK, Live, UserInfo
<1>5. Len(channels) \in Nat /\ Len(channels') \in Nat
  BY DEF IInv, TypeOK
<1>6. ValidIds(client', channels')
  BY <1>1, <1>4, <1>5 DEF IInv, ChannelsSound, ValidIds, Live
<1> QED
  BY <1>2, <1>3, <1>6

(* Changing the counter or the topic of one channel.                       *)
LEMMA ChannelStep ==
  ASSUME IInv, NEW c \in 1 .. Len(channels), NEW d \in Channel,
         d.name = channels[c].name,
         channels' = [channels EXCEPT ![c] = d]
  PROVE  /\ channels' \in Seq(Channel) /\ Len(channels') = Len(channels)
         /\ UniqueNames(channels')
<1>1. channels' \in Seq(Channel) /\ Len(channels') = Len(channels)
  BY DEF IInv, TypeOK
<1>2. \A b \in 1 .. Len(channels) : channels'[b].name = channels[b].name
  BY DEF IInv, TypeOK
<1> QED
  BY <1>1, <1>2 DEF IInv, ChannelsSound, UniqueNames

LEMMA UserStep ==
  ASSUME IInv, NEW u \in Live, NEW a \in Seq(Token), User(u, a)
  PROVE  CommandStep
<1>1. CASE ReplyOnly(u, 1)
  BY <1>1, ReplyStep
<1>2. CASE /\ client' = [client EXCEPT ![u].isLogin = TRUE]
           /\ kusers' = IF client[u].isLogin THEN kusers ELSE kusers + 1
           /\ Deliver(To(u, 2))
           /\ UNCHANGED channels
  <2> DEFINE r == [client[u] EXCEPT !.isLogin = TRUE]
  <2>1. client[u] \in UserInfo /\ client[u].chanID <= Len(channels)
    BY DEF IInv, TypeOK, ChannelsSound, Live
  <2>2. /\ r \in UserInfo /\ r.fd = client[u].fd /\ r.nickname = client[u].nickname
        /\ r.chanID = client[u].chanID
    BY <2>1 DEF UserInfo
  <2>3. channels' \in Seq(Channel) /\ Len(channels) <= Len(channels')
    BY <1>2 DEF IInv, TypeOK
  <2>4. r.chanID <= Len(channels')
    BY <1>2, <2>1, <2>2
  <2>5. client' = [client EXCEPT ![u] = r]
    BY <1>2
  <2>6. /\ SameOwners(client, client') /\ UniqueNicks(client')
        /\ ValidIds(client', channels')
    BY <2>2, <2>3, <2>4, <2>5, RecordStep
  <2>7. UniqueNames(channels') /\ kusers' \in Int
    BY <1>2 DEF IInv, TypeOK, ChannelsSound, UniqueNames
  <2>8. SamePeers /\ fate' \in Fates
    BY <1>2, DeliverKeeps DEF IInv
  <2> QED
    BY <2>3, <2>6, <2>7, <2>8 DEF CommandStep
<1> QED
  BY <1>1, <1>2 DEF User

LEMMA EnterStep ==
  ASSUME IInv, NEW u \in Live, NEW table \in Seq(Channel), NEW c \in 1 .. Len(table),
         Len(channels) <= Len(table), UniqueNames(table), Enter(u, c, table)
  PROVE  CommandStep
<1>1. CASE Segfault("nullJoin")
  BY <1>1, SegfaultStep DEF Fates
<1>2. CASE /\ client' = [client EXCEPT ![u].chanID = c]
           /\ channels' = table
           /\ Deliver([f \in ClientFds |-> IF f = client[u].fd THEN 2
                                           ELSE ToAll(Members(c))[f]])
           /\ UNCHANGED kusers
  <2> DEFINE r == [client[u] EXCEPT !.chanID = c]
  <2>1. client[u] \in UserInfo /\ c \in Nat
    BY DEF IInv, TypeOK, Live
  <2>2. /\ r \in UserInfo /\ r.fd = client[u].fd /\ r.nickname = client[u].nickname
        /\ r.chanID = c
    BY <2>1 DEF UserInfo
  <2>3. client' = [client EXCEPT ![u] = r]
    BY <1>2
  <2>4. r.chanID <= Len(channels')
    BY <1>2, <2>2
  <2>5. /\ SameOwners(client, client') /\ UniqueNicks(client')
        /\ ValidIds(client', channels')
    BY <1>2, <2>2, <2>3, <2>4, RecordStep
  <2>6. SamePeers /\ fate' \in Fates
    BY <1>2, DeliverKeeps DEF IInv
  <2>7. kusers' \in Int
    BY <1>2 DEF IInv, TypeOK
  <2> QED
    BY <1>2, <2>5, <2>6, <2>7 DEF CommandStep
<1> QED
  BY <1>1, <1>2 DEF Enter

(* A channel is appended only if no channel has its name.                  *)
LEMMA JoinStep ==
  ASSUME IInv, NEW u \in Live, NEW a \in Seq(Token), Join(u, a)
  PROVE  CommandStep
<1>1. CASE ReplyOnly(u, 1)
  BY <1>1, ReplyStep
<1>2. CASE Segfault("overflow")
  BY <1>2, SegfaultStep DEF Fates
<1>3. ASSUME NEW c \in Named(a[1]),
             Enter(u, c, [channels EXCEPT ![c].nusers = @ + 1])
      PROVE  CommandStep
  <2> DEFINE d == [channels[c] EXCEPT !.nusers = @ + 1]
             table == [channels EXCEPT ![c] = d]
  <2>1. c \in 1 .. Len(channels) /\ channels[c] \in Channel
    BY DEF Named, IInv, TypeOK
  <2>2. d \in Channel /\ d.name = channels[c].name
    BY <2>1 DEF Channel
  <2>3. table \in Seq(Channel) /\ Len(table) = Len(channels)
    BY <2>1, <2>2 DEF IInv, TypeOK
  <2>4. UniqueNames(table)
    <3>1. \A b \in 1 .. Len(channels) : table[b].name = channels[b].name
      BY <2>1, <2>2 DEF IInv, TypeOK
    <3> QED
      BY <2>3, <3>1 DEF IInv, ChannelsSound, UniqueNames
  <2>5. Enter(u, c, table)
    BY <1>3
  <2>6. Len(channels) <= Len(table)
    BY <2>3 DEF IInv, TypeOK
  <2>7. c \in 1 .. Len(table)
    BY <2>1, <2>3
  <2> HIDE DEF table
  <2> QED
    BY <2>3, <2>4, <2>5, <2>6, <2>7, EnterStep
<1>4. CASE /\ a # << >> /\ Named(a[1]) = {}
           /\ Enter(u, Len(channels) + 1, Append(channels, NewChannel(a[1])))
  <2> DEFINE n == NewChannel(a[1])
             table == Append(channels, n)
  <2>1. a[1] \in Token
    BY <1>4
  <2>2. n \in Channel /\ n.name = a[1]
    BY <2>1, LinesAssumption DEF NewChannel, Channel
  <2>3. channels \in Seq(Channel) /\ Len(channels) \in Nat
    BY DEF IInv, TypeOK
  <2>4. table \in Seq(Channel) /\ Len(table) = Len(channels) + 1
    BY <2>2, <2>3
  <2>5. \A b \in 1 .. Len(channels) :
          table[b] = channels[b] /\ channels[b].name # a[1]
    BY <1>4, <2>2, <2>3 DEF Named
  <2>6. table[Len(channels) + 1] = n
    BY <2>2, <2>3
  <2>7. UniqueNames(table)
    <3> SUFFICES ASSUME NEW b \in 1 .. Len(table), NEW d \in 1 .. Len(table),
                        table[b].name = table[d].name
                 PROVE  b = d
      BY DEF UniqueNames
    <3>1. b \in 1 .. Len(channels) \/ b = Len(channels) + 1
      BY <2>3, <2>4
    <3>2. d \in 1 .. Len(channels) \/ d = Len(channels) + 1
      BY <2>3, <2>4
    <3> HIDE DEF table, n
    <3> QED
      BY <2>2, <2>5, <2>6, <3>1, <3>2 DEF IInv, ChannelsSound
  <2>8. Enter(u, Len(channels) + 1, table)
    BY <1>4
  <2>9. Len(channels) + 1 \in 1 .. Len(table) /\ Len(channels) <= Len(table)
    BY <2>3, <2>4
  <2> HIDE DEF table
  <2> QED
    BY <2>4, <2>7, <2>8, <2>9, EnterStep
<1> QED
  BY <1>1, <1>2, <1>3, <1>4 DEF Join

LEMMA TopicStep ==
  ASSUME IInv, NEW u \in Live, NEW a \in Seq(Token), Topic(u, a)
  PROVE  CommandStep
<1>1. SamePeers /\ fate' \in Fates
  BY DeliverKeeps DEF Topic, IInv
<1>2. CASE UNCHANGED channels
  <2>1. UNCHANGED tableVars
    BY <1>2 DEF Topic, tableVars
  <2> QED
    BY <1>1, <2>1, Idle DEF CommandStep
<1>3. CASE /\ Len(a) >= 2 /\ client[u].chanID \in Named(a[1])
           /\ channels' = [channels EXCEPT ![client[u].chanID].topic = a[2]]
  <2> DEFINE c == client[u].chanID
             d == [channels[c] EXCEPT !.topic = a[2]]
  <2>1. c \in 1 .. Len(channels)
    BY <1>3 DEF Named
  <2>2. channels[c] \in Channel
    BY <2>1 DEF IInv, TypeOK
  <2>3. a[2] \in Token
    BY <1>3
  <2>4. d \in Channel /\ d.name = channels[c].name
    BY <2>2, <2>3 DEF Channel
  <2>5. channels' = [channels EXCEPT ![c] = d]
    BY <1>3
  <2> HIDE DEF d
  <2>6. /\ channels' \in Seq(Channel) /\ Len(channels') = Len(channels)
        /\ UniqueNames(channels')
    BY <2>1, <2>4, <2>5, ChannelStep
  <2>7. SameOwners(client, client') /\ UniqueNicks(client') /\ kusers' \in Int
    BY DEF Topic, IInv, TypeOK, NickUnique, Live, SameOwners, Tables, UniqueNicks
  <2>8. ValidIds(client', channels')
    BY <2>6 DEF Topic, IInv, ChannelsSound, ValidIds, Live
  <2> QED
    BY <1>1, <2>6, <2>7, <2>8 DEF CommandStep
<1> QED
  BY <1>2, <1>3 DEF Topic

LEMMA NamesStep ==
  ASSUME IInv, NEW u, NEW a, Names(u, a)
  PROVE  CommandStep
BY ReplyStep DEF Names

(* Changing only a channel's counter, and possibly its sender's chanID.    *)
LEMMA PartStep ==
  ASSUME IInv, NEW u \in Live, NEW a \in Seq(Token), Part(u, a)
  PROVE  CommandStep
<1>1. CASE ReplyOnly(u, 1)
  BY <1>1, ReplyStep
<1>2. CASE /\ OnChannel(u, a)
           /\ Deliver(ToAll(Members(client[u].chanID)))
           /\ client' = [client EXCEPT ![u].chanID = 0]
           /\ channels' = [channels EXCEPT ![client[u].chanID].nusers = @ - 1]
           /\ UNCHANGED kusers
  <2> DEFINE r == [client[u] EXCEPT !.chanID = 0]
             c == client[u].chanID
             d == [channels[c] EXCEPT !.nusers = @ - 1]
  <2>1. client[u] \in UserInfo
    BY DEF IInv, TypeOK, Live
  <2>2. /\ r \in UserInfo /\ r.fd = client[u].fd /\ r.nickname = client[u].nickname
        /\ r.chanID = 0
    BY <2>1 DEF UserInfo
  <2>3. c \in 1 .. Len(channels) /\ channels[c] \in Channel
    BY <1>2 DEF OnChannel, Named, IInv, TypeOK
  <2>4. d \in Channel /\ d.name = channels[c].name
    BY <2>3 DEF Channel
  <2>5. channels' = [channels EXCEPT ![c] = d] /\ client' = [client EXCEPT ![u] = r]
    BY <1>2
  <2>6. Len(channels) \in Nat
    BY DEF IInv, TypeOK
  <2> HIDE DEF d, r
  <2>7. /\ channels' \in Seq(Channel) /\ Len(channels') = Len(channels)
        /\ UniqueNames(channels')
    BY <2>3, <2>4, <2>5, ChannelStep
  <2>8. Len(channels) <= Len(channels') /\ r.chanID <= Len(channels')
    BY <2>2, <2>6, <2>7
  <2>9. /\ SameOwners(client, client') /\ UniqueNicks(client')
        /\ ValidIds(client', channels')
    BY <2>2, <2>5, <2>7, <2>8, RecordStep
  <2>10. SamePeers /\ fate' \in Fates /\ kusers' \in Int
    BY <1>2, DeliverKeeps DEF IInv, TypeOK
  <2> QED
    BY <2>7, <2>9, <2>10 DEF CommandStep
<1> QED
  BY <1>1, <1>2 DEF Part

LEMMA PrivmsgStep ==
  ASSUME IInv, NEW u, NEW a, Privmsg(u, a)
  PROVE  CommandStep
<1>1. CASE ReplyOnly(u, 1)
  BY <1>1, ReplyStep
<1>2. CASE Deliver(ToAll(Members(client[u].chanID) \ {u})) /\ UNCHANGED tableVars
  BY <1>2, DeliverKeeps, Idle DEF IInv, CommandStep
<1> QED
  BY <1>1, <1>2 DEF Privmsg

LEMMA QuitStep ==
  ASSUME IInv, NEW u \in Live, Quit(u)
  PROVE  /\ channels' \in Seq(Channel) /\ UniqueNames(channels')
         /\ Len(channels') = Len(channels)
         /\ kusers' \in Int
<1>1. kusers' \in Int
  BY DEF Quit, IInv, TypeOK
<1>2. CASE UNCHANGED channels
  BY <1>1, <1>2 DEF IInv, TypeOK, ChannelsSound, UniqueNames
<1>3. CASE /\ client[u].chanID # 0
           /\ channels' = [channels EXCEPT ![client[u].chanID].nusers = @ - 1]
  <2> DEFINE c == client[u].chanID
             d == [channels[c] EXCEPT !.nusers = @ - 1]
  <2>1. client[u] \in UserInfo /\ c <= Len(channels)
    BY DEF IInv, TypeOK, ChannelsSound, Live
  <2>2. c \in 1 .. Len(channels) /\ channels[c] \in Channel
    BY <1>3, <2>1 DEF UserInfo, IInv, TypeOK
  <2>3. d \in Channel /\ d.name = channels[c].name
    BY <2>2 DEF Channel
  <2>4. channels' = [channels EXCEPT ![c] = d]
    BY <1>3
  <2> HIDE DEF d
  <2> QED
    BY <1>1, <2>2, <2>3, <2>4, ChannelStep
<1> QED
  BY <1>2, <1>3 DEF Quit

LEMMA CommandKeeps ==
  ASSUME IInv, NEW u \in Live, InHandshake => u = cur,
         NEW t \in Seq(Token), t # << >>, Command(u, t)
  PROVE  CommandStep
<1>1. Tail(t) \in Seq(Token)
  OBVIOUS
<1> QED
  BY <1>1, ReplyStep, NickStep, UserStep, JoinStep, TopicStep, NamesStep,
     PartStep, PrivmsgStep DEF Command, List, Users, Ping

-----------------------------------------------------------------------------
(* The words that reach a command.                                         *)
LEMMA LeftoverType ==
  ASSUME NEW u, NEW t \in Seq(Token), t # << >>
  PROVE  Leftover(u, t) \in Seq(Token)
<1> DEFINE a == Tail(t)
<1>1. a \in Seq(Token)
  OBVIOUS
<1>2. \A n \in Nat : SubSeq(a, n + 1, Len(a)) \in Seq(Token)
  <2> SUFFICES ASSUME NEW n \in Nat
               PROVE  SubSeq(a, n + 1, Len(a)) \in Seq(Token)
    OBVIOUS
  <2>1. Len(a) \in Nat /\ \A i \in 1 .. Len(a) : a[i] \in Token
    BY <1>1
  <2> QED
    BY <1>1, <2>1
<1>3. << >> \in Seq(Token)
  OBVIOUS
<1> HIDE DEF a
<1> QED
  BY <1>1, <1>2, <1>3 DEF Leftover, a

LEMMA GlueType ==
  ASSUME NEW l \in Seq(Token), NEW m \in Seq(Token), l # << >>, m # << >>
  PROVE  Glue(l, m) \in Seq(Token) /\ Glue(l, m) # << >>
<1> DEFINE h == SubSeq(l, 1, Len(l) - 1)
           k == h \o <<Glued>>
<1>1. h \in Seq(Token)
  <2>1. Len(l) \in Nat /\ \A i \in 1 .. Len(l) : l[i] \in Token
    OBVIOUS
  <2> QED
    BY <2>1
<1>2. <<Glued>> \in Seq(Token) /\ Len(<<Glued>>) = 1
  BY LinesAssumption
<1>3. Tail(m) \in Seq(Token) /\ Len(h) \in Nat
  BY <1>1
<1> HIDE DEF h
<1>4. k \in Seq(Token) /\ Len(k) = Len(h) + 1
  BY <1>1, <1>2
<1> HIDE DEF k
<1>5. k \o Tail(m) \in Seq(Token) /\ Len(k \o Tail(m)) > 0
  BY <1>3, <1>4
<1> QED
  BY <1>5 DEF Glue, h, k

LEMMA ReceivedType ==
  ASSUME NEW n, NEW t \in Received(n)
  PROVE  t \in Seq(Token) /\ t # << >>
BY GlueType, LinesAssumption DEF Received

-----------------------------------------------------------------------------
(* A command leaves the owners of slots and descriptors where they are.    *)
LEMMA TableKept ==
  ASSUME IInv, CommandStep
  PROVE  /\ Live' = Live
         /\ \A i \in Live : client'[i].fd = client[i].fd
         /\ (FdsOf(Live))' = FdsOf(Live)
         /\ NickUnique' /\ ChannelsSound'
<1>1. Live' = Live /\ \A i \in Live : client'[i].fd = client[i].fd
  BY DEF CommandStep, SameOwners, Live
<1>2. (FdsOf(Live))' = FdsOf(Live)
  BY <1>1 DEF FdsOf
<1>3. NickUnique'
  BY DEF CommandStep, UniqueNicks, NickUnique, Live
<1>4. ChannelsSound'
  BY DEF CommandStep, UniqueNames, ValidIds, ChannelsSound, Live
<1> QED
  BY <1>1, <1>2, <1>3, <1>4

(* The descriptor of a live client is a client descriptor, open, watched.  *)
LEMMA LiveFd ==
  ASSUME IInv, NEW i \in Live
  PROVE  /\ i \in Slots /\ client[i] \in UserInfo /\ client[i].fd \in ClientFds
         /\ client[i].fd \in allset /\ peer[client[i].fd] # "none"
         /\ unread[client[i].fd] \in Nat
BY DEF IInv, TypeOK, TableSound, Live, FdsOf, UserInfo

(* Slot i closes: its descriptor leaves allset and the kernel's table.     *)
LEMMA CloseStep ==
  ASSUME IInv, NEW i \in Live, CloseConnection(i), ~InHandshake, pc' \in {"scan", "select"},
         channels' \in Seq(Channel), UniqueNames(channels'),
         Len(channels') = Len(channels), UNCHANGED <<maxfd, maxconn>>,
         unread' = [unread EXCEPT ![client[i].fd] = 0]
  PROVE  /\ client' \in Tables /\ peer' \in [ClientFds -> PeerState]
         /\ allset' \subseteq {ListenFd} \cup ClientFds
         /\ unread' \in [ClientFds -> Nat]
         /\ TableSound' /\ NickUnique' /\ ChannelsSound'
<1> DEFINE f == client[i].fd
<1>1. i \in Slots /\ f \in ClientFds
  BY LiveFd
<1>2. Live' = Live \ {i} /\ \A j \in Live' : client'[j] = client[j]
  BY DEF CloseConnection, IInv, TypeOK, Live
<1>3. client' \in Tables /\ peer' \in [ClientFds -> PeerState]
  BY <1>1 DEF CloseConnection, IInv, TypeOK, Tables, PeerState
<1>4. allset' \subseteq {ListenFd} \cup ClientFds /\ unread' \in [ClientFds -> Nat]
  BY <1>1 DEF CloseConnection, IInv, TypeOK
<1>5. (FdsOf(Live))' = FdsOf(Live) \ {f}
  BY <1>2 DEF FdsOf, IInv, TableSound
<1>6. \A g \in ClientFds : /\ peer'[g] = "none" <=> peer[g] = "none" \/ g = f
                           /\ g \in allset' <=> g \in allset /\ g # f
                           /\ unread'[g] = IF g = f THEN 0 ELSE unread[g]
  BY <1>1 DEF CloseConnection, IInv, TypeOK, PeerState
<1>7. ListenFd \in allset'
  <2>1. f # ListenFd /\ ListenFd \in allset
    BY <1>1, SizesAssumption DEF IInv, TableSound, ClientFds, ListenFd
  <2> QED
    BY <2>1 DEF CloseConnection
<1>8. ~InHandshake'
  BY DEF InHandshake
<1>9. TableSound'
  <2>1. \A g \in ClientFds : /\ g \in allset' <=> peer'[g] # "none"
                             /\ g \in allset' <=> g \in (FdsOf(Live))'
                             /\ peer'[g] = "none" => unread'[g] = 0
    BY <1>5, <1>6 DEF IInv, TableSound
  <2>2. \A j, k \in Live' : client'[j].fd = client'[k].fd => j = k
    BY <1>2 DEF IInv, TableSound
  <2>3. \A j \in Live' : j <= maxconn' /\ client'[j].fd <= maxfd'
    BY <1>2 DEF IInv, TableSound
  <2> QED
    BY <1>7, <1>8, <2>1, <2>2, <2>3 DEF TableSound
<1>10. NickUnique'
  BY <1>2 DEF IInv, NickUnique
<1>11. ChannelsSound'
  BY <1>2 DEF IInv, ChannelsSound, UniqueNames
<1> QED
  BY <1>3, <1>4, <1>9, <1>10, <1>11

-----------------------------------------------------------------------------
LEMMA InitInv == Init => IInv
<1> SUFFICES ASSUME Init PROVE IInv
  OBVIOUS
<1>1. Live = {}
  BY DEF Init, Live
<1>2. << >> \in Seq(Token) /\ << >> \in Seq(Channel) /\ Len(<< >>) = 0
  OBVIOUS
<1>3. TypeOK
  BY <1>2, SizesAssumption DEF Init, TypeOK, Slots, PeerState
<1>4. TableSound
  BY <1>1 DEF Init, TableSound, FdsOf, InHandshake, ClientFds, ListenFd
<1> QED
  BY <1>1, <1>2, <1>3, <1>4 DEF IInv, NickUnique, ChannelsSound, AcceptReady, Init

LEMMA ReadyCount == ASSUME IInv PROVE Cardinality(Ready) \in Nat
<1>1. IsFiniteSet(3 .. FdLimit)
  BY SizesAssumption, FS_Interval
<1>2. allset \subseteq 3 .. FdLimit
  BY SizesAssumption DEF IInv, TypeOK, ListenFd, ClientFds
<1>3. Ready \subseteq 3 .. FdLimit
  BY <1>2 DEF Ready
<1> QED
  BY <1>1, <1>3, FS_Subset, FS_CardinalityType

LEMMA SelectInv == ASSUME IInv, MySelect PROVE IInv'
<1> USE DEF MySelect, tableVars, netVars
<1>1. /\ nready' \in Int /\ rset' \subseteq {ListenFd} \cup ClientFds
      /\ AcceptReady'
  BY ReadyCount DEF IInv, TypeOK, Ready, Readable, AcceptReady
<1>2. TypeOK'
  BY <1>1 DEF IInv, TypeOK
<1>3. TableSound'
  BY DEF IInv, TableSound, Live, FdsOf, InHandshake
<1> QED
  BY <1>1, <1>2, <1>3 DEF IInv, NickUnique, ChannelsSound, Live

LEMMA AcceptInv == ASSUME IInv, IncommingReq PROVE IInv'
<1>1. PICK f \in ClientFds, i \in Slots :
        /\ peer[f] = "none" /\ i \notin Live
        /\ peer' = [peer EXCEPT ![f] = "up"]
        /\ client' = [client EXCEPT ![i] = NewUser(f)]
        /\ allset' = allset \cup {f}
        /\ cur' = i
  BY DEF IncommingReq
<1>2. /\ NewUser(f) \in UserInfo /\ NewUser(f).fd = f
      /\ NewUser(f).nickname = NoName /\ NewUser(f).chanID = 0
  BY LinesAssumption DEF NewUser, UserInfo
<1>3. Live' = Live \cup {i} /\ client'[i] = NewUser(f)
      /\ \A j \in Live : client'[j] = client[j] /\ j # i
  BY <1>1, <1>2, NoClientAssumption DEF IInv, TypeOK, Live
<1>4. TypeOK'
  <2>1. client' \in Tables /\ peer' \in [ClientFds -> PeerState] /\ cur' \in Slots
        /\ allset' \subseteq {ListenFd} \cup ClientFds
    BY <1>1, <1>2 DEF IInv, TypeOK, PeerState, Tables
  <2>2. backlog' \in Nat
    BY DEF IInv, TypeOK, AcceptReady, IncommingReq
  <2> QED
    BY <2>1, <2>2 DEF IInv, TypeOK, IncommingReq, Tables
<1>5. TableSound'
  <2>1. (FdsOf(Live))' = FdsOf(Live) \cup {f}
    BY <1>2, <1>3 DEF FdsOf
  <2>2. \A g \in ClientFds : /\ g \in allset' <=> peer'[g] # "none"
                             /\ g \in allset' <=> g \in (FdsOf(Live))'
                             /\ peer'[g] = "none" => unread'[g] = 0
    BY <1>1, <2>1 DEF IInv, TypeOK, TableSound, IncommingReq
  <2>3. f \notin FdsOf(Live)
    BY <1>1 DEF IInv, TableSound
  <2>4. \A j, k \in Live' : client'[j].fd = client'[k].fd => j = k
    BY <1>2, <1>3, <2>3 DEF IInv, TableSound, FdsOf
  <2>5. \A j \in Live' : j = cur' \/ (j <= maxconn' /\ client'[j].fd <= maxfd')
    BY <1>1, <1>3 DEF IInv, TableSound, IncommingReq, InHandshake
  <2>6. ListenFd \in allset' /\ InHandshake' /\ cur' \in Live'
    BY <1>1, <1>3 DEF IInv, TableSound, IncommingReq, InHandshake
  <2> QED
    BY <2>2, <2>4, <2>5, <2>6 DEF TableSound
<1>6. NickUnique'
  BY <1>2, <1>3 DEF IInv, NickUnique
<1>7. ChannelsSound'
  BY <1>2, <1>3 DEF IInv, TypeOK, ChannelsSound, IncommingReq
<1> QED
  BY <1>4, <1>5, <1>6, <1>7 DEF IInv, AcceptReady, IncommingReq

(* The process ends, or goes from one handshake line to the next, and      *)
(* nothing else changes.                                                   *)
LEMMA StillInv ==
  ASSUME IInv, fate' \in Fates, pc' = pc \/ (pc = "line1" /\ pc' = "line2"),
         UNCHANGED <<cur, left, scan, selectVars, tableVars, netVars>>
  PROVE  IInv'
<1> USE DEF selectVars, tableVars, netVars, Fates
<1>1. TypeOK'
  BY DEF IInv, TypeOK
<1>2. TableSound'
  BY DEF IInv, TableSound, Live, FdsOf, InHandshake
<1> QED
  BY <1>1, <1>2 DEF IInv, NickUnique, ChannelsSound, AcceptReady, Live

(* A read takes at most what is there.                                     *)
LEMMA TakeType ==
  ASSUME IInv, NEW f \in ClientFds, NEW n \in Nat, n <= unread[f], TakeLine(f, n)
  PROVE  /\ unread' \in [ClientFds -> Nat]
         /\ \A g \in ClientFds : unread[g] = 0 => unread'[g] = 0
<1>1. unread \in [ClientFds -> Nat] /\ unread[f] - n \in Nat
  BY DEF IInv, TypeOK
<1> QED
  BY <1>1 DEF TakeLine

(* A command in any of the three places that run one: the table keeps its  *)
(* owners; the loop's bounds may only have grown.                          *)
LEMMA AfterCommand ==
  ASSUME IInv, CommandStep,
         unread' \in [ClientFds -> Nat],
         \A g \in ClientFds : unread[g] = 0 => unread'[g] = 0,
         UNCHANGED allset,
         \/ UNCHANGED <<maxfd, maxconn, cur>> /\ (InHandshake <=> InHandshake')
         \/ InHandshake /\ ~InHandshake' /\ Connected
  PROVE  TableSound' /\ NickUnique' /\ ChannelsSound'
<1>1. /\ Live' = Live
      /\ \A i \in Live : client'[i].fd = client[i].fd
      /\ (FdsOf(Live))' = FdsOf(Live)
      /\ NickUnique' /\ ChannelsSound'
  BY TableKept
<1>2. \A g \in ClientFds : /\ g \in allset' <=> peer'[g] # "none"
                           /\ g \in allset' <=> g \in (FdsOf(Live))'
                           /\ peer'[g] = "none" => unread'[g] = 0
  BY <1>1 DEF CommandStep, SamePeers, IInv, TableSound
<1>3. \A j, k \in Live' : client'[j].fd = client'[k].fd => j = k
  BY <1>1 DEF IInv, TableSound
<1>4. \A i \in Live' : \/ InHandshake' /\ i = cur'
                       \/ i <= maxconn' /\ client'[i].fd <= maxfd'
  <2>1. CASE UNCHANGED <<maxfd, maxconn, cur>> /\ (InHandshake <=> InHandshake')
    <3>1. \A i \in Live : \/ InHandshake /\ i = cur
                          \/ i <= maxconn /\ client[i].fd <= maxfd
      BY DEF IInv, TableSound
    <3> QED
      BY <1>1, <2>1, <3>1
  <2>2. CASE InHandshake /\ ~InHandshake' /\ Connected
    <3>1. /\ maxfd \in Int /\ maxconn \in Int /\ cur \in Int
          /\ \A i \in Live : i \in Int /\ client[i].fd \in Int
      <4>1. \A i \in Live : i \in Int /\ client[i].fd \in Int
        <5> SUFFICES ASSUME NEW i \in Live PROVE i \in Int /\ client[i].fd \in Int
          OBVIOUS
        <5>1. i \in Slots /\ client[i].fd \in ClientFds
          BY LiveFd
        <5> QED
          BY <5>1, SizesAssumption DEF Slots, ClientFds, ListenFd
      <4>2. maxfd \in Int /\ maxconn \in Int /\ cur \in Int
        BY SizesAssumption DEF IInv, TypeOK, Slots, ClientFds, ListenFd
      <4> QED
        BY <4>1, <4>2
    <3>2. /\ maxfd' = IF client[cur].fd > maxfd THEN client[cur].fd ELSE maxfd
          /\ maxconn' = IF cur > maxconn THEN cur ELSE maxconn
          /\ cur \in Live
      BY <2>2 DEF Connected, Leave, IInv, TableSound
    <3>3. maxfd <= maxfd' /\ client[cur].fd <= maxfd' /\ maxconn <= maxconn' /\ cur <= maxconn'
          /\ maxfd' \in Int /\ maxconn' \in Int
      BY <3>1, <3>2
    <3>4. \A i \in Live : i = cur \/ (i <= maxconn /\ client[i].fd <= maxfd)
      BY DEF IInv, TableSound
    <3>5. \A i \in Live : i <= maxconn' /\ client[i].fd <= maxfd'
      BY <3>1, <3>3, <3>4
    <3> QED
      BY <1>1, <3>5
  <2> QED
    BY <2>1, <2>2
<1>5. ListenFd \in allset' /\ (InHandshake' => cur' \in Live')
  BY <1>1 DEF IInv, TableSound
<1> QED
  BY <1>1, <1>2, <1>3, <1>4, <1>5 DEF TableSound

LEMMA ConnectedType ==
  ASSUME IInv, InHandshake, Connected
  PROVE  /\ maxfd' \in {ListenFd} \cup ClientFds /\ maxconn' \in {-1} \cup Slots
         /\ cur' \in Slots /\ left' \in Seq(Token) /\ pc' \in {"scan", "select"}
         /\ scan' \in Nat /\ nready' \in Int /\ UNCHANGED <<rset, allset>>
<1>1. cur \in Slots /\ client[cur].fd \in ClientFds
  BY LiveFd DEF IInv, TableSound
<1>2. 0 \in Slots /\ << >> \in Seq(Token)
  BY SizesAssumption DEF Slots
<1> QED
  BY <1>1, <1>2 DEF Connected, Leave, IInv, TypeOK

(* ParseCommand in a handshake. *)
LEMMA HandshakeStep ==
  ASSUME IInv, InHandshake, NEW t \in Seq(Token), t # << >>, HandshakeCommand(t)
  PROVE  CommandStep
<1>1. cur \in Live
  BY DEF IInv, TableSound
<1>2. CASE Command(cur, t)
  BY <1>1, <1>2, CommandKeeps
<1>3. CASE Quit(cur) /\ UNCHANGED <<client, peer, fate>>
  <2>1. /\ channels' \in Seq(Channel) /\ UniqueNames(channels')
        /\ Len(channels') = Len(channels) /\ kusers' \in Int
    BY <1>1, <1>3, QuitStep
  <2>2. SameOwners(client, client') /\ UniqueNicks(client') /\ fate' \in Fates
    BY <1>3 DEF IInv, TypeOK, NickUnique, Live, SameOwners, Tables, UniqueNicks, Fates
  <2>3. ValidIds(client', channels') /\ SamePeers
    BY <1>3, <2>1 DEF IInv, TypeOK, ChannelsSound, ValidIds, Live, SamePeers
  <2> QED
    BY <2>1, <2>2, <2>3 DEF CommandStep
<1> QED
  BY <1>2, <1>3 DEF HandshakeCommand

LEMMA FirstLineInv == ASSUME IInv, FirstLine PROVE IInv'
<1>1. PICK t \in FirstLines : HandshakeCommand(t) /\ left' = Leftover(cur, t)
  BY DEF FirstLine
<1>2. t \in Seq(Token) /\ t # << >>
  BY LinesAssumption
<1>3. InHandshake /\ InHandshake' /\ cur \in Live
  BY DEF FirstLine, InHandshake, IInv, TableSound
<1>4. CommandStep
  BY <1>1, <1>2, <1>3, HandshakeStep
<1>5. /\ unread' \in [ClientFds -> Nat]
      /\ \A g \in ClientFds : unread[g] = 0 => unread'[g] = 0
  BY <1>3, LiveFd, TakeType DEF FirstLine, HandshakeFd
<1>6. TableSound' /\ NickUnique' /\ ChannelsSound'
  BY <1>3, <1>4, <1>5, AfterCommand DEF FirstLine, selectVars
<1>7. left' \in Seq(Token)
  BY <1>1, <1>2, LeftoverType
<1>8. TypeOK'
  BY <1>4, <1>5, <1>7
  DEF IInv, TypeOK, FirstLine, selectVars, CommandStep, SameOwners, SamePeers,
      Tables, Fates
<1> QED
  BY <1>6, <1>8 DEF IInv, AcceptReady, FirstLine

LEMMA SecondLineInv == ASSUME IInv, SecondLine PROVE IInv'
<1>1. PICK t \in SecondLines : HandshakeCommand(left \o t)
  BY DEF SecondLine
<1>2. left \o t \in Seq(Token) /\ left \o t # << >>
  <2>1. left \in Seq(Token) /\ t \in Seq(Token) /\ t # << >>
    BY LinesAssumption DEF IInv, TypeOK
  <2> QED
    BY <2>1
<1>3. InHandshake /\ ~InHandshake' /\ cur \in Live
  BY DEF SecondLine, Connected, Leave, InHandshake, IInv, TableSound
<1>4. CommandStep
  BY <1>1, <1>2, <1>3, HandshakeStep
<1>5. /\ unread' \in [ClientFds -> Nat]
      /\ \A g \in ClientFds : unread[g] = 0 => unread'[g] = 0
  BY <1>3, LiveFd, TakeType DEF SecondLine, HandshakeFd
<1>6. /\ maxfd' \in {ListenFd} \cup ClientFds /\ maxconn' \in {-1} \cup Slots
      /\ cur' \in Slots /\ left' \in Seq(Token) /\ pc' \in {"scan", "select"}
      /\ scan' \in Nat /\ nready' \in Int /\ UNCHANGED <<rset, allset>>
  BY <1>3, ConnectedType DEF SecondLine
<1>7. TableSound' /\ NickUnique' /\ ChannelsSound'
  BY <1>3, <1>4, <1>5, <1>6, AfterCommand DEF SecondLine
<1>8. TypeOK'
  BY <1>4, <1>5, <1>6
  DEF IInv, TypeOK, SecondLine, CommandStep, SameOwners, SamePeers, Tables, Fates
<1> QED
  BY <1>6, <1>7, <1>8 DEF IInv, AcceptReady

LEMMA SecondLineEofInv == ASSUME IInv, SecondLineEof PROVE IInv'
<1>1. InHandshake /\ ~InHandshake'
  BY DEF SecondLineEof, Connected, Leave, InHandshake
<1>2. CommandStep
  BY Idle DEF SecondLineEof, CommandStep, SamePeers, IInv, TypeOK, Fates, netVars
<1>3. UNCHANGED unread /\ unread \in [ClientFds -> Nat]
  BY DEF SecondLineEof, netVars, IInv, TypeOK
<1>4. /\ maxfd' \in {ListenFd} \cup ClientFds /\ maxconn' \in {-1} \cup Slots
      /\ cur' \in Slots /\ left' \in Seq(Token) /\ pc' \in {"scan", "select"}
      /\ scan' \in Nat /\ nready' \in Int /\ UNCHANGED <<rset, allset>>
  BY <1>1, ConnectedType DEF SecondLineEof
<1>5. TableSound' /\ NickUnique' /\ ChannelsSound'
  BY <1>1, <1>2, <1>3, <1>4, AfterCommand DEF SecondLineEof
<1>6. TypeOK'
  BY <1>4 DEF IInv, TypeOK, SecondLineEof, tableVars, netVars
<1> QED
  BY <1>4, <1>5, <1>6 DEF IInv, AcceptReady

-----------------------------------------------------------------------------
(* What every turn of ConnectedReq does to the loop.                       *)
LEMMA ServedType ==
  ASSUME IInv, NEW i \in Slots, Served(i)
  PROVE  /\ nready' \in Int /\ pc' \in {"scan", "select"} /\ scan' \in Nat
         /\ UNCHANGED <<cur, left, rset, maxfd, maxconn>>
BY SizesAssumption DEF Served, IInv, TypeOK, Slots

LEMMA TurnLive ==
  ASSUME NEW i, Turn(i)
  PROVE  i \in Live
BY DEF Turn, Pending

LEMMA ServeInv == ASSUME IInv, NEW i \in Slots, Serve(i) PROVE IInv'
<1>1. i \in Live /\ ~InHandshake
  BY TurnLive DEF Serve, InHandshake
<1>2. PICK t \in Received(unread[client[i].fd]) : Command(i, t)
  BY DEF Serve
<1>3. t \in Seq(Token) /\ t # << >>
  BY ReceivedType
<1>4. CommandStep
  BY <1>1, <1>2, <1>3, CommandKeeps
<1>5. /\ unread' \in [ClientFds -> Nat]
      /\ \A g \in ClientFds : unread[g] = 0 => unread'[g] = 0
  BY <1>1, LiveFd, TakeType DEF Serve
<1>6. /\ nready' \in Int /\ pc' \in {"scan", "select"} /\ scan' \in Nat
      /\ UNCHANGED <<cur, left, rset, maxfd, maxconn>>
  BY ServedType DEF Serve
<1>7. ~InHandshake'
  BY <1>6 DEF InHandshake
<1>8. TableSound' /\ NickUnique' /\ ChannelsSound'
  BY <1>1, <1>4, <1>5, <1>6, <1>7, AfterCommand DEF Serve
<1>9. TypeOK'
  BY <1>4, <1>5, <1>6
  DEF IInv, TypeOK, Serve, CommandStep, SameOwners, SamePeers, Tables, Fates
<1> QED
  BY <1>6, <1>8, <1>9 DEF IInv, AcceptReady

LEMMA ServeQuitInv == ASSUME IInv, NEW i \in Slots, ServeQuit(i) PROVE IInv'
<1>1. i \in Live /\ ~InHandshake
  BY TurnLive DEF ServeQuit, InHandshake
<1>2. /\ channels' \in Seq(Channel) /\ UniqueNames(channels')
      /\ Len(channels') = Len(channels) /\ kusers' \in Int
  BY <1>1, QuitStep DEF ServeQuit
<1>3. /\ nready' \in Int /\ pc' \in {"scan", "select"} /\ scan' \in Nat
      /\ UNCHANGED <<cur, left, rset, maxfd, maxconn>>
  BY ServedType DEF ServeQuit
<1>4. unread' = [unread EXCEPT ![client[i].fd] = 0]
  <2>1. unread[client[i].fd] - unread[client[i].fd] = 0
    BY <1>1, LiveFd
  <2> QED
    BY <2>1 DEF ServeQuit, TakeLine
<1>5. /\ client' \in Tables /\ peer' \in [ClientFds -> PeerState]
      /\ allset' \subseteq {ListenFd} \cup ClientFds
      /\ unread' \in [ClientFds -> Nat]
      /\ TableSound' /\ NickUnique' /\ ChannelsSound'
  BY <1>1, <1>2, <1>3, <1>4, CloseStep DEF ServeQuit
<1>6. TypeOK'
  BY <1>2, <1>3, <1>5 DEF IInv, TypeOK, ServeQuit, CloseConnection, Tables
<1> QED
  BY <1>3, <1>5, <1>6 DEF IInv, AcceptReady

LEMMA ServeEofInv == ASSUME IInv, NEW i \in Slots, ServeEof(i) PROVE IInv'
<1>1. i \in Live /\ ~InHandshake
  BY TurnLive DEF ServeEof, InHandshake
<1>2. /\ channels' \in Seq(Channel) /\ UniqueNames(channels')
      /\ Len(channels') = Len(channels) /\ kusers' \in Int
  BY DEF ServeEof, IInv, TypeOK, ChannelsSound, UniqueNames
<1>3. /\ nready' \in Int /\ pc' \in {"scan", "select"} /\ scan' \in Nat
      /\ UNCHANGED <<cur, left, rset, maxfd, maxconn>>
  BY ServedType DEF ServeEof
<1>4. unread' = [unread EXCEPT ![client[i].fd] = 0]
  BY <1>1, LiveFd DEF ServeEof, IInv, TypeOK
<1>5. /\ client' \in Tables /\ peer' \in [ClientFds -> PeerState]
      /\ allset' \subseteq {ListenFd} \cup ClientFds
      /\ unread' \in [ClientFds -> Nat]
      /\ TableSound' /\ NickUnique' /\ ChannelsSound'
  BY <1>1, <1>2, <1>3, <1>4, CloseStep DEF ServeEof
<1>6. TypeOK'
  BY <1>2, <1>3, <1>5 DEF IInv, TypeOK, ServeEof, CloseConnection, Tables
<1> QED
  BY <1>3, <1>5, <1>6 DEF IInv, AcceptReady

LEMMA ServeErrorInv == ASSUME IInv, NEW i \in Slots, ServeError(i) PROVE IInv'
<1>1. i \in Live /\ ~InHandshake
  BY TurnLive DEF ServeError, InHandshake
<1>2. /\ nready' \in Int /\ pc' \in {"scan", "select"} /\ scan' \in Nat
      /\ UNCHANGED <<cur, left, rset, maxfd, maxconn>>
  BY ServedType DEF ServeError
<1>3. SamePeers /\ UNCHANGED tableVars /\ fate' \in Fates
  BY DEF ServeError, SamePeers, IInv, TypeOK, PeerState, tableVars, Fates, Over, Closed
<1>4. CommandStep
  BY <1>3, Idle DEF CommandStep
<1>5. UNCHANGED unread /\ unread \in [ClientFds -> Nat] /\ ~InHandshake'
  BY <1>2 DEF ServeError, IInv, TypeOK, InHandshake
<1>6. TableSound' /\ NickUnique' /\ ChannelsSound'
  BY <1>1, <1>2, <1>4, <1>5, AfterCommand DEF ServeError
<1>7. TypeOK'
  BY <1>2, <1>3 DEF IInv, TypeOK, ServeError, SamePeers, tableVars
<1> QED
  BY <1>2, <1>6, <1>7 DEF IInv, AcceptReady

(* The clients change only what is in flight.                              *)
InFlight ==
  /\ UNCHANGED <<fate, loopVars, selectVars, tableVars>> /\ SamePeers
  /\ unread' \in [ClientFds -> Nat] /\ backlog' \in Nat /\ backlog <= backlog'
  /\ conns' \in Nat /\ sent' \in Nat
  /\ \A f \in ClientFds : /\ peer[f] \in Over \cup {"none"} => unread'[f] = unread[f]
                          /\ unread[f] > 0 => unread'[f] > 0

LEMMA ClientsStep == ASSUME IInv, Clients PROVE InFlight
<1>1. CASE Connect
  BY <1>1 DEF Connect, InFlight, SamePeers, IInv, TypeOK
<1>2. ASSUME NEW f \in ClientFds, Send(f)
      PROVE  InFlight
  BY <1>2 DEF Send, InFlight, SamePeers, IInv, TypeOK, Over
<1>3. ASSUME NEW f \in ClientFds, Hangup(f)
      PROVE  InFlight
  BY <1>3 DEF Hangup, InFlight, SamePeers, IInv, TypeOK, PeerState,
      Over, Closed
<1>4. ASSUME NEW f \in ClientFds, Reset(f)
      PROVE  InFlight
  BY <1>4 DEF Reset, InFlight, SamePeers, IInv, TypeOK, PeerState,
      Over, Closed
<1> QED
  BY <1>1, <1>2, <1>3, <1>4 DEF Clients

LEMMA ClientsInv == ASSUME IInv, Clients PROVE IInv'
<1>1. InFlight
  BY ClientsStep
<1> USE DEF InFlight, SamePeers, loopVars, selectVars, tableVars
<1>2. TypeOK'
  BY <1>1 DEF IInv, TypeOK
<1>3. TableSound'
  BY <1>1 DEF IInv, TableSound, Live, FdsOf, InHandshake
<1>4. NickUnique' /\ ChannelsSound'
  BY <1>1 DEF IInv, NickUnique, ChannelsSound, Live
<1>5. AcceptReady'
  BY <1>1 DEF IInv, TypeOK, AcceptReady
<1> QED
  BY <1>2, <1>3, <1>4, <1>5 DEF IInv

-----------------------------------------------------------------------------
LEMMA StutterInv == ASSUME IInv, UNCHANGED vars PROVE IInv'
BY StillInv DEF vars, loopVars, IInv, TypeOK, Fates

LEMMA NextInv == ASSUME IInv, [Next]_vars PROVE IInv'
<1>1. CASE AcceptFails
  BY <1>1, StillInv DEF AcceptFails, loopVars, Fates
<1>2. CASE FirstLineEof
  BY <1>2, StillInv DEF FirstLineEof, IInv, TypeOK, Fates
<1>3. CASE HandshakeError
  BY <1>3, StillInv DEF HandshakeError, loopVars, Fates
<1>4. CASE MySelect \/ IncommingReq \/ FirstLine \/ SecondLine \/ SecondLineEof
  BY <1>4, SelectInv, AcceptInv, FirstLineInv, SecondLineInv, SecondLineEofInv
<1>5. ASSUME NEW i \in Slots, Serve(i) \/ ServeQuit(i) \/ ServeEof(i) \/ ServeError(i)
      PROVE  IInv'
  BY <1>5, ServeInv, ServeQuitInv, ServeEofInv, ServeErrorInv
<1>6. CASE Clients
  BY <1>6, ClientsInv
<1>7. CASE UNCHANGED vars
  BY <1>7, StutterInv
<1> QED
  BY <1>1, <1>2, <1>3, <1>4, <1>5, <1>6, <1>7 DEF Next, Server

THEOREM Inductive == Spec => []IInv
BY InitInv, NextInv, PTL DEF Spec

-----------------------------------------------------------------------------
(***************************************************************************)
(* The count of a round.  RoundComplete speaks of the scan only; Round is  *)
(* what an accept and a handshake between select and the scan keep true:   *)
(* nready counts the descriptors select reported, each is still owned by a *)
(* client that was there before the accept, and still has what was         *)
(* reported.  Both are inductive relative to IInv.                         *)
(***************************************************************************)
Reported == rset \ {ListenFd}
Owner(i) == i \in Live /\ (InHandshake => i # cur)
Answering ==
  /\ ListenFd \in rset /\ nready = Cardinality(rset)
  /\ \A f \in Reported : /\ \E i \in Slots : Owner(i) /\ client[i].fd = f
                         /\ Readable(f)
Round ==
  fate = "running" =>
    /\ pc # "scan" => scan = 0
    /\ pc = "accept" \/ InHandshake => Answering

(* The slots that own the descriptors of R are as many as R.               *)
LEMMA OwnerCount ==
  ASSUME NEW tab \in Tables, NEW R \in SUBSET ClientFds,
         \A f \in R : \E i \in Slots : tab[i] # NoClient /\ tab[i].fd = f,
         \A i, j \in Slots : /\ tab[i] # NoClient /\ tab[j] # NoClient
                             /\ tab[i].fd = tab[j].fd
                             => i = j,
         NEW P, P = {i \in Slots : tab[i] # NoClient /\ tab[i].fd \in R}
  PROVE  IsFiniteSet(P) /\ Cardinality(P) = Cardinality(R)
<1> DEFINE h == [i \in P |-> tab[i].fd]
<1>1. IsFiniteSet(P)
  <2>1. IsFiniteSet(Slots)
    BY SizesAssumption, FS_Interval DEF Slots
  <2> QED
    BY <2>1, FS_Subset
<1>2. h \in [P -> R] /\ \A i \in P : h[i] = tab[i].fd
  OBVIOUS
<1>3. h \in Injection(P, R)
  BY <1>2 DEF Injection, IsInjective
<1>4. \A f \in R : \E i \in P : h[i] = f
  BY <1>2
<1>5. h \in Surjection(P, R)
  BY <1>2, <1>4 DEF Surjection
<1> QED
  BY <1>1, <1>3, <1>5, FS_Surjection

LEMMA FdSets == \A R : R \subseteq {ListenFd} \cup ClientFds => IsFiniteSet(R)
<1>1. IsFiniteSet(ListenFd .. FdLimit)
  BY SizesAssumption, FS_Interval DEF ListenFd
<1>2. {ListenFd} \cup ClientFds \subseteq ListenFd .. FdLimit
  BY SizesAssumption DEF ListenFd, ClientFds
<1> QED
  BY <1>1, <1>2, FS_Subset

LEMMA ClientReadable ==
  ASSUME IInv, NEW f \in ClientFds
  PROVE  /\ f # ListenFd
         /\ Readable(f) <=> unread[f] > 0 \/ peer[f] \in Closed
<1>1. f # ListenFd
  BY SizesAssumption DEF ClientFds, ListenFd
<1> QED
  BY <1>1 DEF Readable, Closed, Over

(* What select reported of a descriptor nobody reads from stays.           *)
LEMMA StillReadable ==
  ASSUME IInv, NEW f \in ClientFds, Readable(f),
         unread[f] > 0 => unread'[f] > 0,
         peer[f] \in Closed => peer'[f] \in Closed
  PROVE  Readable(f)'
BY ClientReadable DEF Readable, Closed, Over

LEMMA SelectRound ==
  ASSUME IInv, IInv', Round, MySelect
  PROVE  Round' /\ RoundComplete'
<1>1. /\ fate = "running" /\ scan = 0 /\ scan' = 0 /\ fate' = "running"
      /\ rset' = Ready /\ nready' = Cardinality(Ready) /\ ~InHandshake'
      /\ UNCHANGED <<client, maxconn, peer, unread, backlog, allset>>
  BY DEF MySelect, Round, InHandshake, tableVars, netVars
<1>2. Live' = Live /\ \A f : Readable(f)' <=> Readable(f)
  BY <1>1 DEF Live, Readable
<1>3. /\ Ready \subseteq allset /\ allset \subseteq {ListenFd} \cup ClientFds
      /\ \A f \in Ready : Readable(f)
      /\ \A f \in Ready \ {ListenFd} : f \in FdsOf(Live)
  BY DEF Ready, IInv, TypeOK, TableSound
<1>4. CASE ListenFd \in Ready
  <2>1. pc' = "accept"
    BY <1>4 DEF MySelect
  <2>2. \A f \in Ready \ {ListenFd} : \E i \in Slots : Owner(i)' /\ client'[i].fd = f
    BY <1>1, <1>2, <1>3 DEF Owner, FdsOf, Live
  <2>3. Answering'
    BY <1>1, <1>2, <1>3, <1>4, <2>2 DEF Answering, Reported
  <2> QED
    BY <1>1, <2>1, <2>3 DEF Round, RoundComplete, IInv
<1>5. CASE ListenFd \notin Ready
  <2>1. pc' = "scan"
    BY <1>5 DEF MySelect
  <2>2. Ready \in SUBSET ClientFds
    BY <1>3, <1>5
  <2>3. Pending(scan)' = {i \in Slots : client[i] # NoClient /\ client[i].fd \in Ready}
    <3>1. \A i \in Live : i <= maxconn /\ i >= 0 /\ i \in Slots
      BY <1>1, <2>1 DEF IInv, TableSound, Slots, Live
    <3> QED
      BY <1>1, <1>2, <3>1 DEF Pending, Scanned, Live
  <2>4. Cardinality(Pending(scan)') = Cardinality(Ready)
    <3>1. client \in Tables
      BY DEF IInv, TypeOK, Tables
    <3>2. \A f \in Ready : \E i \in Slots : client[i] # NoClient /\ client[i].fd = f
      BY <1>3, <1>5 DEF FdsOf, Live
    <3>3. \A i, j \in Slots : /\ client[i] # NoClient /\ client[j] # NoClient
                              /\ client[i].fd = client[j].fd
                              => i = j
      BY DEF IInv, TableSound, Live
    <3> QED
      BY <2>2, <2>3, <3>1, <3>2, <3>3, OwnerCount
  <2>5. \A i \in Pending(scan)' : Readable(client[i].fd)'
    BY <1>1, <1>2, <1>3, <2>3
  <2> QED
    BY <1>1, <2>1, <2>4, <2>5 DEF Round, RoundComplete, IInv
<1> QED
  BY <1>4, <1>5

LEMMA AcceptRound ==
  ASSUME IInv, IInv', Round, IncommingReq
  PROVE  Round' /\ RoundComplete'
<1>1. PICK g \in ClientFds, i \in Slots :
        /\ peer[g] = "none" /\ i \notin Live
        /\ peer' = [peer EXCEPT ![g] = "up"]
        /\ client' = [client EXCEPT ![i] = NewUser(g)]
        /\ cur' = i
  BY DEF IncommingReq
<1>2. /\ fate = "running" /\ pc' = "line1" /\ pc = "accept"
      /\ UNCHANGED <<scan, rset, nready, unread>>
  BY DEF IncommingReq
<1>3. Answering /\ scan = 0 /\ ~InHandshake /\ InHandshake'
  BY <1>2 DEF Round, InHandshake
<1>4. Answering'
  <2> SUFFICES ASSUME NEW f \in Reported
               PROVE  /\ \E j \in Slots : Owner(j)' /\ client'[j].fd = f
                      /\ Readable(f)'
    BY <1>2, <1>3 DEF Answering, Reported
  <2>1. PICK j \in Slots : Owner(j) /\ client[j].fd = f
    BY <1>3 DEF Answering
  <2>2. j \in Live /\ j # i /\ f \in ClientFds /\ peer[f] # "none"
    BY <1>1, <2>1, LiveFd DEF Owner
  <2>3. client'[j] = client[j] /\ j \in Live'
    BY <1>1, <2>2 DEF Live, IInv, TypeOK
  <2>4. Owner(j)' /\ client'[j].fd = f
    BY <1>1, <2>1, <2>2, <2>3 DEF Owner
  <2>5. peer'[f] = peer[f] /\ unread'[f] = unread[f]
    BY <1>1, <1>2, <2>2 DEF IInv, TypeOK
  <2>6. Readable(f)
    BY <1>3 DEF Answering
  <2>7. Readable(f)'
    BY <2>2, <2>5, <2>6, StillReadable
  <2> QED
    BY <2>4, <2>7
<1> QED
  BY <1>2, <1>3, <1>4 DEF Round, RoundComplete, IInv

(* While the handshake's lines are read, the reported descriptors keep     *)
(* their owners and what was reported: none of them is the new client's.   *)
LEMMA HandshakeKept ==
  ASSUME IInv, Answering, InHandshake, CommandStep,
         \A f \in ClientFds \ {HandshakeFd} : unread'[f] = unread[f]
  PROVE  \A f \in Reported : /\ f \in ClientFds
                             /\ \E j \in Slots : /\ j # cur /\ j \in Live'
                                                 /\ client'[j].fd = f
                             /\ Readable(f)'
<1> SUFFICES ASSUME NEW f \in Reported
             PROVE  /\ f \in ClientFds
                    /\ \E j \in Slots : j # cur /\ j \in Live' /\ client'[j].fd = f
                    /\ Readable(f)'
  OBVIOUS
<1>1. PICK j \in Slots : j \in Live /\ j # cur /\ client[j].fd = f
  BY DEF Answering, Owner
<1>2. j \in Live' /\ client'[j].fd = f /\ f \in ClientFds
  BY <1>1, TableKept, LiveFd
<1>3. f # HandshakeFd
  BY <1>1 DEF IInv, TableSound, HandshakeFd
<1>4. Readable(f)'
  <2>1. unread'[f] = unread[f] /\ (peer[f] \in Closed => peer'[f] \in Closed)
    BY <1>2, <1>3 DEF CommandStep, SamePeers
  <2>2. Readable(f)
    BY DEF Answering
  <2> QED
    BY <1>2, <2>1, <2>2, StillReadable
<1> QED
  BY <1>1, <1>2, <1>4

(* IncommingReq's --nready takes the listening descriptor off the count.   *)
LEMMA ConnectedRound ==
  ASSUME IInv, IInv', Answering, scan = 0, InHandshake, CommandStep, Connected,
         \A f \in ClientFds \ {HandshakeFd} : unread'[f] = unread[f]
  PROVE  Round' /\ RoundComplete'
<1>1. /\ pc' \in {"scan", "select"} /\ scan' = 0 /\ rset' = rset
      /\ nready' = nready - 1 /\ ~InHandshake'
  BY DEF Connected, Leave, InHandshake
<1>2. \A f \in Reported : /\ f \in ClientFds
                          /\ \E j \in Slots : j \in Live' /\ client'[j].fd = f
                          /\ Readable(f)'
  BY HandshakeKept
<1>3. nready' = Cardinality(Reported)
  <2>1. IsFiniteSet(rset) /\ ListenFd \in rset /\ nready = Cardinality(rset)
    BY FdSets DEF IInv, TypeOK, Answering
  <2> QED
    BY <1>1, <2>1, FS_RemoveElement DEF Reported
<1>4. Pending(scan)' = {i \in Slots : client'[i] # NoClient /\ client'[i].fd \in Reported}
  <2>1. \A i \in Live' : /\ i <= maxconn' /\ i >= 0 /\ i \in Slots
                         /\ client'[i].fd \in ClientFds
    BY <1>1 DEF IInv, TypeOK, TableSound, Slots, Live, UserInfo
  <2>2. ListenFd \notin ClientFds
    BY SizesAssumption DEF ListenFd, ClientFds
  <2> QED
    BY <1>1, <2>1, <2>2 DEF Pending, Scanned, Live, Reported
<1>5. Cardinality(Pending(scan)') = Cardinality(Reported)
  <2>1. client' \in Tables /\ Reported \in SUBSET ClientFds
    BY <1>2 DEF IInv, TypeOK, Tables
  <2>2. \A f \in Reported : \E i \in Slots : client'[i] # NoClient /\ client'[i].fd = f
    BY <1>2 DEF Live
  <2>3. \A i, j \in Slots : /\ client'[i] # NoClient /\ client'[j] # NoClient
                            /\ client'[i].fd = client'[j].fd
                            => i = j
    BY DEF IInv, TableSound, Live
  <2> QED
    BY <1>4, <2>1, <2>2, <2>3, OwnerCount
<1>6. \A i \in Pending(scan)' : Readable(client[i].fd)'
  BY <1>2, <1>4
<1> QED
  BY <1>1, <1>3, <1>5, <1>6 DEF Round, RoundComplete, IInv

LEMMA LineTaken ==
  ASSUME IInv, NEW f \in ClientFds, NEW n, TakeLine(f, n)
  PROVE  \A g \in ClientFds \ {f} : unread'[g] = unread[g]
BY DEF TakeLine, IInv, TypeOK

LEMMA FirstLineRound ==
  ASSUME IInv, IInv', Round, FirstLine
  PROVE  Round' /\ RoundComplete'
<1>1. PICK t \in FirstLines : HandshakeCommand(t)
  BY DEF FirstLine
<1>2. /\ t \in Seq(Token) /\ t # << >> /\ InHandshake /\ InHandshake' /\ cur \in Live
      /\ pc' = "line2" /\ fate = "running"
      /\ UNCHANGED <<scan, rset, nready, cur>>
  BY LinesAssumption DEF FirstLine, InHandshake, IInv, TableSound, selectVars
<1>3. CommandStep
  BY <1>1, <1>2, HandshakeStep
<1>4. \A f \in ClientFds \ {HandshakeFd} : unread'[f] = unread[f]
  BY <1>2, LiveFd, LineTaken DEF FirstLine, HandshakeFd
<1>5. Answering /\ scan = 0
  BY <1>2 DEF Round, InHandshake
<1>6. Answering'
  BY <1>2, <1>3, <1>4, <1>5, HandshakeKept DEF Answering, Reported, Owner
<1> QED
  BY <1>2, <1>5, <1>6 DEF Round, RoundComplete, IInv

LEMMA SecondLineRound ==
  ASSUME IInv, IInv', Round, SecondLine
  PROVE  Round' /\ RoundComplete'
<1>1. PICK t \in SecondLines : HandshakeCommand(left \o t)
  BY DEF SecondLine
<1>2. left \o t \in Seq(Token) /\ left \o t # << >>
  <2>1. left \in Seq(Token) /\ t \in Seq(Token) /\ t # << >>
    BY LinesAssumption DEF IInv, TypeOK
  <2> QED
    BY <2>1
<1>3. InHandshake /\ cur \in Live /\ Answering /\ scan = 0 /\ Connected
  BY DEF SecondLine, InHandshake, IInv, TableSound, Round
<1>4. CommandStep
  BY <1>1, <1>2, <1>3, HandshakeStep
<1>5. \A f \in ClientFds \ {HandshakeFd} : unread'[f] = unread[f]
  BY <1>3, LiveFd, LineTaken DEF SecondLine, HandshakeFd
<1> QED
  BY <1>3, <1>4, <1>5, ConnectedRound

LEMMA SecondLineEofRound ==
  ASSUME IInv, IInv', Round, SecondLineEof
  PROVE  Round' /\ RoundComplete'
<1>1. InHandshake /\ Answering /\ scan = 0 /\ Connected
  BY DEF SecondLineEof, InHandshake, Round
<1>2. CommandStep
  BY Idle DEF SecondLineEof, CommandStep, SamePeers, IInv, TypeOK, Fates, netVars
<1>3. UNCHANGED unread
  BY DEF SecondLineEof, netVars
<1> QED
  BY <1>1, <1>2, <1>3, ConnectedRound

(* A turn takes its slot, the lowest, off the slots still to do; what      *)
(* select reported of the others is still there.                           *)
LEMMA ServedRound ==
  ASSUME IInv, IInv', RoundComplete, fate = "running", pc = "scan", NEW i \in Live,
         Turn(i), Served(i),
         Live' \ {i} = Live \ {i},
         \A j \in Live \ {i} : client'[j].fd = client[j].fd,
         \A f \in ClientFds \ {client[i].fd} :
            /\ unread'[f] = unread[f]
            /\ peer[f] \in Closed => peer'[f] \in Closed
  PROVE  Round' /\ RoundComplete'
<1>1. /\ i \in Pending(scan) /\ \A j \in Pending(scan) : i <= j
      /\ nready = Cardinality(Pending(scan))
      /\ \A j \in Pending(scan) : Readable(client[j].fd)
  BY DEF Turn, RoundComplete
<1>2. /\ Slots \subseteq Int /\ Pending(scan) \subseteq Live /\ Live \subseteq Slots
      /\ scan \in Int /\ i \in Int /\ i >= scan
  <2>1. Slots \subseteq Int
    BY SizesAssumption DEF Slots
  <2>2. scan \in Int /\ Live \subseteq Slots
    BY DEF Live, IInv, TypeOK
  <2>3. Pending(scan) \subseteq Live /\ i >= scan
    BY <1>1 DEF Pending
  <2> QED
    BY <2>1, <2>2, <2>3
<1>3. nready' = nready - 1 /\ UNCHANGED <<rset, maxconn, cur>>
  BY DEF Served
<1>4. \/ pc' = "scan" /\ scan' = i + 1
      \/ pc' = "select" /\ scan' = 0
  BY DEF Served
<1>5. Round'
  BY <1>4 DEF Round, InHandshake
<1>6. CASE pc' = "scan" /\ scan' = i + 1
  <2>1. Pending(scan)' = Pending(scan) \ {i}
    <3>1. ASSUME NEW j \in Slots
          PROVE  j \in Pending(scan)' <=> j \in Pending(scan) /\ j # i
      <4>1. j \in Int
        BY <1>2
      <4>2. CASE j = i
        BY <1>2, <1>6, <4>2 DEF Pending
      <4>3. CASE j # i
        <5>1. /\ j \in Live' <=> j \in Live
              /\ j \in Live => client'[j].fd = client[j].fd
          BY <4>3
        <5>2. j \in Pending(scan) => j >= i + 1
          BY <1>1, <1>2, <4>1, <4>3
        <5>3. j >= i + 1 => j >= scan
          BY <1>2, <4>1
        <5> QED
          BY <1>3, <1>6, <4>3, <5>1, <5>2, <5>3 DEF Pending, Scanned
      <4> QED
        BY <4>2, <4>3
    <3>2. Pending(scan)' \subseteq Slots
      BY DEF Pending, Live
    <3> QED
      BY <1>2, <3>1, <3>2
  <2>2. IsFiniteSet(Pending(scan))
    <3>1. IsFiniteSet(Slots)
      BY SizesAssumption, FS_Interval DEF Slots
    <3> QED
      BY <1>2, <3>1, FS_Subset
  <2>3. nready' = Cardinality(Pending(scan)')
    BY <1>1, <1>3, <2>1, <2>2, FS_RemoveElement
  <2>4. ASSUME NEW j \in Pending(scan)'
        PROVE  Readable(client[j].fd)'
    <3>1. j \in Live /\ j # i /\ Readable(client[j].fd)
      BY <1>1, <1>2, <2>1
    <3>2. client[j].fd \in ClientFds /\ client[j].fd # client[i].fd
      BY <3>1, LiveFd DEF IInv, TableSound
    <3>3. client'[j].fd = client[j].fd
      BY <3>1
    <3>0. PICK f : f = client[j].fd
      OBVIOUS
    <3>4. f \in ClientFds /\ f # client[i].fd /\ Readable(f)
      BY <3>0, <3>1, <3>2
    <3>5. Readable(f)'
      BY <3>4, StillReadable
    <3> QED
      BY <3>0, <3>3, <3>5
  <2> QED
    BY <1>5, <1>6, <2>3, <2>4 DEF RoundComplete, IInv
<1>7. CASE pc' = "select" /\ scan' = 0
  BY <1>5, <1>7 DEF RoundComplete, IInv
<1> QED
  BY <1>4, <1>5, <1>6, <1>7

LEMMA ClosedRound ==
  ASSUME IInv, IInv', RoundComplete, fate = "running", pc = "scan", NEW i \in Live,
         Turn(i), Served(i), CloseConnection(i),
         \A f \in ClientFds \ {client[i].fd} : unread'[f] = unread[f]
  PROVE  Round' /\ RoundComplete'
<1>1. Live' = Live \ {i} /\ \A j \in Live \ {i} : client'[j] = client[j]
  BY DEF CloseConnection, IInv, TypeOK, Live
<1>2. \A f \in ClientFds \ {client[i].fd} : peer'[f] = peer[f]
  BY DEF CloseConnection, IInv, TypeOK
<1> QED
  BY <1>1, <1>2, ServedRound

LEMMA TurnRound ==
  ASSUME IInv, IInv', RoundComplete, NEW i \in Slots,
         Serve(i) \/ ServeQuit(i) \/ ServeEof(i) \/ ServeError(i)
  PROVE  Round' /\ RoundComplete'
<1>1. /\ fate = "running" /\ pc = "scan" /\ Turn(i) /\ Served(i) /\ i \in Live
      /\ client[i].fd \in ClientFds
  BY TurnLive, LiveFd DEF Serve, ServeQuit, ServeEof, ServeError
<1>2. CASE Serve(i)
  <2>1. PICK t \in Received(unread[client[i].fd]) : Command(i, t)
    BY <1>2 DEF Serve
  <2>2. CommandStep
    BY <1>1, <2>1, ReceivedType, CommandKeeps DEF InHandshake
  <2>3. Live' = Live /\ \A j \in Live : client'[j].fd = client[j].fd
    BY <2>2, TableKept
  <2>4. \A f \in ClientFds \ {client[i].fd} : unread'[f] = unread[f]
    BY <1>1, <1>2, LineTaken DEF Serve
  <2> QED
    BY <1>1, <2>2, <2>3, <2>4, ServedRound DEF CommandStep, SamePeers
<1>3. CASE ServeQuit(i)
  <2>1. \A f \in ClientFds \ {client[i].fd} : unread'[f] = unread[f]
    BY <1>1, <1>3, LineTaken DEF ServeQuit
  <2> QED
    BY <1>1, <1>3, <2>1, ClosedRound DEF ServeQuit
<1>4. CASE ServeEof(i)
  <2>1. CloseConnection(i) /\ UNCHANGED unread
    BY <1>4 DEF ServeEof
  <2> QED
    BY <1>1, <2>1, ClosedRound
<1>5. CASE ServeError(i)
  <2>1. UNCHANGED <<client, unread>> /\ Live' = Live
    BY <1>5 DEF ServeError, tableVars, Live
  <2>2. \A f \in ClientFds \ {client[i].fd} : peer'[f] = peer[f]
    BY <1>5 DEF ServeError, IInv, TypeOK
  <2> QED
    BY <1>1, <2>1, <2>2, ServedRound
<1> QED
  BY <1>2, <1>3, <1>4, <1>5

LEMMA ClientsRound ==
  ASSUME IInv, IInv', Round, RoundComplete, InFlight
  PROVE  Round' /\ RoundComplete'
<1>1. /\ UNCHANGED <<fate, pc, cur, scan, nready, rset, maxconn, client>>
      /\ Live' = Live /\ (InHandshake' <=> InHandshake)
  BY DEF InFlight, loopVars, selectVars, tableVars, Live, InHandshake
<1>2. \A f \in ClientFds : Readable(f) => Readable(f)'
  <2> SUFFICES ASSUME NEW f \in ClientFds, Readable(f)
               PROVE  Readable(f)'
    OBVIOUS
  <2>1. /\ unread[f] > 0 => unread'[f] > 0
        /\ peer[f] \in Closed => peer'[f] \in Closed
    BY DEF InFlight, SamePeers
  <2> QED
    BY <2>1, StillReadable
<1>3. Round'
  <2>1. Answering => Answering'
    <3>1. rset \subseteq {ListenFd} \cup ClientFds
      BY DEF IInv, TypeOK
    <3> QED
      BY <1>1, <1>2, <3>1 DEF Answering, Reported, Owner
  <2> QED
    BY <1>1, <2>1 DEF Round
<1>4. RoundComplete'
  <2>1. Pending(scan)' = Pending(scan)
    BY <1>1 DEF Pending, Scanned
  <2>2. \A i \in Pending(scan) : client[i].fd \in ClientFds
    BY LiveFd DEF Pending
  <2> QED
    BY <1>1, <1>2, <2>1, <2>2 DEF RoundComplete, IInv
<1> QED
  BY <1>3, <1>4

LEMMA RoundStep ==
  ASSUME IInv, IInv', Round, RoundComplete, [Next]_vars
  PROVE  Round' /\ RoundComplete'
<1>1. CASE AcceptFails \/ HandshakeError
  <2>1. fate' = "exited" /\ AcceptReady'
    BY <1>1 DEF AcceptFails, HandshakeError, IInv
  <2> QED
    BY <2>1 DEF Round, RoundComplete
<1>2. CASE FirstLineEof
  <2>1. /\ InHandshake /\ InHandshake' /\ pc' = "line2" /\ fate = "running"
        /\ UNCHANGED <<fate, cur, scan, nready, rset, client, backlog, peer, unread>>
    BY <1>2 DEF FirstLineEof, InHandshake, selectVars, tableVars, netVars
  <2>2. pc = "line1" /\ Answering /\ scan = 0
    BY <1>2, <2>1 DEF FirstLineEof, Round
  <2>3. Answering'
    BY <2>1, <2>2 DEF Answering, Reported, Owner, Live, Readable
  <2> QED
    BY <2>1, <2>2, <2>3 DEF Round, RoundComplete, IInv
<1>3. CASE MySelect \/ IncommingReq \/ FirstLine \/ SecondLine \/ SecondLineEof
  BY <1>3, SelectRound, AcceptRound, FirstLineRound, SecondLineRound,
     SecondLineEofRound
<1>4. ASSUME NEW i \in Slots, Serve(i) \/ ServeQuit(i) \/ ServeEof(i) \/ ServeError(i)
      PROVE  Round' /\ RoundComplete'
  BY <1>4, TurnRound
<1>5. CASE Clients
  BY <1>5, ClientsStep, ClientsRound
<1>6. CASE UNCHANGED vars
  BY <1>6 DEF vars, loopVars, selectVars, tableVars, netVars, Round, RoundComplete,
     AcceptReady, Answering, Reported, Owner, Live, InHandshake, Readable, Pending,
     Scanned
<1> QED
  BY <1>1, <1>2, <1>3, <1>4, <1>5, <1>6 DEF Next, Server

LEMMA InitRound == Init => Round /\ RoundComplete
BY DEF Init, Round, RoundComplete, AcceptReady, InHandshake

(* ConnectedReq's count of the descriptors still to serve is exact: an     *)
(* accept, a handshake and the closes of one round never make it stop      *)
(* early, and no read it makes can block.  (ConnectedReq, IncommingReq)    *)
THEOREM RoundsComplete == Spec => []RoundComplete
<1>1. Init => Round /\ RoundComplete
  BY InitRound
<1>2. IInv /\ IInv' /\ Round /\ RoundComplete /\ [Next]_vars
      => Round' /\ RoundComplete'
  BY RoundStep
<1> QED
  BY <1>1, <1>2, Inductive, PTL DEF Spec

-----------------------------------------------------------------------------
(***************************************************************************)
(* The counters.  quit() takes one off kusers for a client that was never  *)
(* counted, so they cover the clients only if every handshake is NICK then *)
(* USER, what the comments of Connection() expect of a client.  A client   *)
(* then either is logged in, or is in its handshake, or hung up during it  *)
(* and has nothing left to be read, so that it cannot QUIT.                *)
(***************************************************************************)
PoliteHandshakes ==
  /\ \A t \in FirstLines : Len(t) = 2 /\ t[1] = "NICK"
  /\ \A t \in SecondLines : Len(t) >= 5 /\ t[1] = "USER"

Registered ==
  /\ left = << >>
  /\ \A i \in Live : \/ client[i].isLogin
                     \/ InHandshake /\ i = cur
                     \/ unread[client[i].fd] = 0 /\ peer[client[i].fd] \in Over

LEMMA SlotCards ==
  ASSUME NEW S \in SUBSET Slots
  PROVE  /\ Cardinality(S) \in Nat
         /\ \A T \in SUBSET S : Cardinality(T) \in Nat /\ Cardinality(T) <= Cardinality(S)
         /\ \A u \in Slots : /\ Cardinality(S \cup {u}) <= Cardinality(S) + 1
                             /\ u \in S => Cardinality(S \ {u}) = Cardinality(S) - 1
<1>1. IsFiniteSet(S)
  <2>1. IsFiniteSet(Slots)
    BY SizesAssumption, FS_Interval DEF Slots
  <2> QED
    BY <2>1, FS_Subset
<1>2. Cardinality(S) \in Nat
  BY <1>1, FS_CardinalityType
<1>3. \A T \in SUBSET S : Cardinality(T) \in Nat /\ Cardinality(T) <= Cardinality(S)
  BY <1>1, FS_Subset, FS_CardinalityType
<1>4. \A u \in Slots : Cardinality(S \cup {u}) <= Cardinality(S) + 1
  <2> TAKE u \in Slots
  <2>1. CASE u \in S
    <3>1. S \cup {u} = S
      BY <2>1
    <3> QED
      BY <1>2, <3>1
  <2>2. CASE u \notin S
    <3>1. Cardinality(S \cup {u}) = Cardinality(S) + 1
      BY <1>1, <2>2, FS_AddElement
    <3> QED
      BY <1>2, <3>1
  <2> QED
    BY <2>1, <2>2
<1>5. \A u \in S : Cardinality(S \ {u}) = Cardinality(S) - 1
  BY <1>1, FS_RemoveElement
<1> QED
  BY <1>2, <1>3, <1>4, <1>5

(* What CountsCover needs to know of the types. *)
LEMMA CountTypes ==
  ASSUME IInv
  PROVE  /\ kusers \in Int /\ channels \in Seq(Channel) /\ Len(channels) \in Nat
         /\ \A c \in 1 .. Len(channels) : channels[c] \in Channel /\ channels[c].nusers \in Int
         /\ LoggedIn \in SUBSET Slots /\ \A c : On(c) \in SUBSET Slots
<1>1. kusers \in Int /\ channels \in Seq(Channel)
  BY DEF IInv, TypeOK
<1>2. \A c \in 1 .. Len(channels) : channels[c] \in Channel
  BY <1>1
<1>3. \A d \in Channel : d.nusers \in Int
  BY DEF Channel
<1>4. LoggedIn \in SUBSET Slots /\ \A c : On(c) \in SUBSET Slots
  BY DEF LoggedIn, On, Live
<1> QED
  BY <1>1, <1>2, <1>3, <1>4

(* Nobody new is logged in or on a channel, and no counter changes. *)
LEMMA CountsKept ==
  ASSUME IInv, CountsCover, LoggedIn' \subseteq LoggedIn, kusers' = kusers,
         Len(channels') = Len(channels),
         \A c \in 1 .. Len(channels) : /\ On(c)' \subseteq On(c)
                                       /\ channels'[c].nusers = channels[c].nusers
  PROVE  CountsCover'
<1>1. Cardinality(LoggedIn') <= kusers'
  <2>1. /\ Cardinality(LoggedIn') \in Nat /\ Cardinality(LoggedIn) \in Nat
        /\ Cardinality(LoggedIn') <= Cardinality(LoggedIn)
    BY CountTypes, SlotCards
  <2> QED
    BY <2>1, CountTypes DEF CountsCover
<1>2. \A c \in 1 .. Len(channels) : Cardinality(On(c)') <= channels'[c].nusers
  <2> TAKE c \in 1 .. Len(channels)
  <2>1. /\ Cardinality(On(c)') \in Nat /\ Cardinality(On(c)) \in Nat
        /\ Cardinality(On(c)') <= Cardinality(On(c))
    BY CountTypes, SlotCards
  <2> QED
    BY <2>1, CountTypes DEF CountsCover
<1> QED
  BY <1>1, <1>2 DEF CountsCover

LEMMA IdleCounts ==
  ASSUME IInv, CountsCover, UNCHANGED tableVars
  PROVE  CountsCover' /\ Live' = Live /\ client' = client
<1>1. /\ Live' = Live /\ client' = client /\ channels' = channels /\ kusers' = kusers
      /\ LoggedIn' = LoggedIn /\ \A c : On(c)' = On(c)
  BY DEF tableVars, Live, LoggedIn, On
<1> QED
  BY <1>1, CountsKept

(* One record changes. *)
LEMMA RecordCounts ==
  ASSUME IInv, NEW u \in Live, NEW r \in UserInfo, client' = [client EXCEPT ![u] = r]
  PROVE  /\ LoggedIn' = IF r.isLogin THEN LoggedIn \cup {u} ELSE LoggedIn \ {u}
         /\ r.isLogin = client[u].isLogin => LoggedIn' = LoggedIn
         /\ \A c : On(c)' = IF r.chanID = c THEN On(c) \cup {u} ELSE On(c) \ {u}
         /\ r.chanID = client[u].chanID => \A c : On(c)' = On(c)
<1>1. \A i \in Slots : client'[i] = IF i = u THEN r ELSE client[i]
  BY DEF IInv, TypeOK, Live
<1>2. r # NoClient /\ u \in Slots
  BY NoClientAssumption DEF Live
<1>3. Live' = Live
  BY <1>1, <1>2 DEF Live
<1>4. LoggedIn' = IF r.isLogin THEN LoggedIn \cup {u} ELSE LoggedIn \ {u}
  BY <1>1, <1>2, <1>3 DEF LoggedIn, Live
<1>5. \A c : On(c)' = IF r.chanID = c THEN On(c) \cup {u} ELSE On(c) \ {u}
  BY <1>1, <1>2, <1>3 DEF On, Live
<1>6. r.isLogin = client[u].isLogin => LoggedIn' = LoggedIn
  BY <1>1, <1>2, <1>3 DEF LoggedIn, Live
<1>7. r.chanID = client[u].chanID => \A c : On(c)' = On(c)
  BY <1>1, <1>2, <1>3 DEF On, Live
<1> QED
  BY <1>4, <1>5, <1>6, <1>7

LEMMA NickCounts ==
  ASSUME IInv, CountsCover, NEW u \in Live, NEW a \in Seq(Token), Nick(u, a)
  PROVE  CountsCover' /\ \A i \in Live : client[i].isLogin => client'[i].isLogin
<1>1. CASE UNCHANGED tableVars
  BY <1>1, IdleCounts
<1>2. CASE /\ a # << >> /\ client' = [client EXCEPT ![u].nickname = a[1]]
           /\ UNCHANGED <<channels, kusers>>
  <2> DEFINE r == [client[u] EXCEPT !.nickname = a[1]]
  <2>1. client[u] \in UserInfo /\ a[1] \in Token
    BY <1>2, LiveFd
  <2>2. /\ r \in UserInfo /\ r.isLogin = client[u].isLogin /\ r.chanID = client[u].chanID
        /\ client' = [client EXCEPT ![u] = r]
    BY <1>2, <2>1 DEF UserInfo
  <2> HIDE DEF r
  <2>3. LoggedIn' = LoggedIn /\ \A c : On(c)' = On(c)
    BY <2>2, RecordCounts
  <2>4. CountsCover'
    BY <1>2, <2>3, CountsKept
  <2>5. \A i \in Live : client[i].isLogin => client'[i].isLogin
    BY <2>2 DEF IInv, TypeOK, Live
  <2> QED
    BY <2>4, <2>5
<1> QED
  BY <1>1, <1>2 DEF Nick, ReplyOnly, Segfault, tableVars

LEMMA UserCounts ==
  ASSUME IInv, CountsCover, NEW u \in Live, NEW a \in Seq(Token), User(u, a)
  PROVE  /\ CountsCover' /\ \A i \in Live : client[i].isLogin => client'[i].isLogin
         /\ Len(a) >= 4 => client'[u].isLogin
<1>1. CASE Len(a) < 4 /\ UNCHANGED tableVars
  BY <1>1, IdleCounts
<1>2. CASE /\ client' = [client EXCEPT ![u].isLogin = TRUE]
           /\ kusers' = IF client[u].isLogin THEN kusers ELSE kusers + 1
           /\ UNCHANGED channels
  <2> DEFINE r == [client[u] EXCEPT !.isLogin = TRUE]
  <2>1. client[u] \in UserInfo
    BY LiveFd
  <2>2. /\ r \in UserInfo /\ r.isLogin /\ r.chanID = client[u].chanID
        /\ client' = [client EXCEPT ![u] = r]
    BY <1>2, <2>1 DEF UserInfo
  <2> HIDE DEF r
  <2>3. LoggedIn' = LoggedIn \cup {u} /\ \A c : On(c)' = On(c)
    BY <2>2, RecordCounts
  <2>4. Cardinality(LoggedIn') <= kusers'
    <3>1. /\ Cardinality(LoggedIn) \in Nat /\ Cardinality(LoggedIn) <= kusers
          /\ Cardinality(LoggedIn \cup {u}) <= Cardinality(LoggedIn) + 1
          /\ LoggedIn \cup {u} \in SUBSET Slots /\ kusers \in Int
      BY CountTypes, SlotCards, LiveFd DEF CountsCover
    <3>2. Cardinality(LoggedIn \cup {u}) \in Nat
      BY <3>1, SlotCards
    <3>3. CASE client[u].isLogin
      <4>1. LoggedIn \cup {u} = LoggedIn
        BY <3>3 DEF LoggedIn
      <4> QED
        BY <1>2, <2>3, <3>1, <3>3, <4>1
    <3> QED
      BY <1>2, <2>3, <3>1, <3>2, <3>3
  <2>5. \A c \in 1 .. Len(channels') : Cardinality(On(c)') <= channels'[c].nusers
    BY <1>2, <2>3 DEF CountsCover
  <2>6. CountsCover'
    BY <2>4, <2>5 DEF CountsCover
  <2>7. (\A i \in Live : client[i].isLogin => client'[i].isLogin) /\ client'[u].isLogin
    BY <2>2 DEF IInv, TypeOK, Live
  <2> QED
    BY <2>6, <2>7
<1> QED
  BY <1>1, <1>2 DEF User, ReplyOnly

(* join: the client is counted where it enters; where it was it may stay   *)
(* counted, never the other way round.                                     *)
LEMMA EnterCounts ==
  ASSUME IInv, CountsCover, NEW u \in Live, NEW table \in Seq(Channel),
         NEW c \in 1 .. Len(table), Len(channels) <= Len(table), Enter(u, c, table),
         \A d \in 1 .. Len(table) :
            Cardinality(On(d)) + (IF d = c THEN 1 ELSE 0) <= table[d].nusers
  PROVE  CountsCover' /\ \A i \in Live : client[i].isLogin => client'[i].isLogin
<1>1. CASE UNCHANGED tableVars
  BY <1>1, IdleCounts
<1>2. CASE /\ client' = [client EXCEPT ![u].chanID = c]
           /\ channels' = table /\ kusers' = kusers
  <2> DEFINE r == [client[u] EXCEPT !.chanID = c]
  <2>1. client[u] \in UserInfo /\ c \in Nat
    BY LiveFd
  <2>2. /\ r \in UserInfo /\ r.isLogin = client[u].isLogin /\ r.chanID = c
        /\ client' = [client EXCEPT ![u] = r]
    BY <1>2, <2>1 DEF UserInfo
  <2> HIDE DEF r
  <2>3. /\ LoggedIn' = LoggedIn
        /\ \A d : On(d)' = IF d = c THEN On(d) \cup {u} ELSE On(d) \ {u}
    BY <2>2, RecordCounts
  <2>4. ASSUME NEW d \in 1 .. Len(table)
        PROVE  Cardinality(On(d)') <= table[d].nusers
    <3>0. table[d] \in Channel
      OBVIOUS
    <3>1. /\ On(d) \in SUBSET Slots /\ u \in Slots
          /\ On(d) \cup {u} \in SUBSET Slots /\ On(d) \ {u} \in SUBSET On(d)
      BY CountTypes, LiveFd
    <3>2. /\ Cardinality(On(d)) \in Nat /\ Cardinality(On(d) \cup {u}) \in Nat
          /\ Cardinality(On(d) \cup {u}) <= Cardinality(On(d)) + 1
          /\ Cardinality(On(d) \ {u}) \in Nat
          /\ Cardinality(On(d) \ {u}) <= Cardinality(On(d))
      BY <3>1, SlotCards
    <3>3. table[d].nusers \in Int
      BY <3>0 DEF Channel
    <3>4. CASE d = c
      <4>1. On(d)' = On(d) \cup {u}
        BY <2>3, <3>4
      <4>2. Cardinality(On(d)) + 1 <= table[d].nusers
        BY <3>4
      <4> QED
        BY <3>2, <3>3, <4>1, <4>2
    <3>5. CASE d # c
      <4>1. On(d)' = On(d) \ {u}
        BY <2>3, <3>5
      <4>2. Cardinality(On(d)) + 0 <= table[d].nusers
        BY <3>5
      <4> QED
        BY <3>2, <3>3, <4>1, <4>2
    <3> QED
      BY <3>4, <3>5
  <2>5. \A i \in Live : client[i].isLogin => client'[i].isLogin
    BY <2>2 DEF IInv, TypeOK, Live
  <2> QED
    BY <1>2, <2>3, <2>4, <2>5 DEF CountsCover
<1> QED
  BY <1>1, <1>2 DEF Enter, Segfault, tableVars

LEMMA JoinCounts ==
  ASSUME IInv, CountsCover, NEW u \in Live, NEW a \in Seq(Token), Join(u, a)
  PROVE  CountsCover' /\ \A i \in Live : client[i].isLogin => client'[i].isLogin
<1>0. /\ Len(channels) \in Nat /\ channels \in Seq(Channel)
      /\ \A c \in 1 .. Len(channels) : channels[c] \in Channel /\ channels[c].nusers \in Int
      /\ \A c : Cardinality(On(c)) \in Nat
  BY CountTypes, SlotCards
<1>1. CASE ReplyOnly(u, 1) \/ Segfault("overflow")
  BY <1>1, IdleCounts DEF ReplyOnly, Segfault, tableVars
<1>2. ASSUME NEW c \in Named(a[1]),
             Enter(u, c, [channels EXCEPT ![c].nusers = @ + 1])
      PROVE  CountsCover' /\ \A i \in Live : client[i].isLogin => client'[i].isLogin
  <2> DEFINE e == [channels[c] EXCEPT !.nusers = @ + 1]
             table == [channels EXCEPT ![c] = e]
  <2>1. c \in 1 .. Len(channels) /\ channels[c] \in Channel
    BY <1>0 DEF Named
  <2>2. e \in Channel /\ e.nusers = channels[c].nusers + 1
    BY <2>1 DEF Channel
  <2>3. /\ table \in Seq(Channel) /\ Len(table) = Len(channels)
        /\ \A d \in 1 .. Len(channels) : table[d] = IF d = c THEN e ELSE channels[d]
    BY <1>0, <2>1, <2>2
  <2>4. Enter(u, c, table)
    BY <1>2
  <2> HIDE DEF table, e
  <2>5. \A d \in 1 .. Len(table) :
           Cardinality(On(d)) + (IF d = c THEN 1 ELSE 0) <= table[d].nusers
    <3> TAKE d \in 1 .. Len(table)
    <3>1. Cardinality(On(d)) <= channels[d].nusers /\ channels[d].nusers \in Int
      BY <1>0, <2>3 DEF CountsCover
    <3> QED
      BY <1>0, <2>2, <2>3, <3>1
  <2> QED
    BY <1>0, <2>1, <2>3, <2>4, <2>5, EnterCounts
<1>3. CASE /\ a # << >>
           /\ Enter(u, Len(channels) + 1, Append(channels, NewChannel(a[1])))
  <2> DEFINE e == NewChannel(a[1])
             table == Append(channels, e)
             k == Len(channels) + 1
  <2>1. e \in Channel /\ e.nusers = 1
    BY <1>3, LinesAssumption DEF NewChannel, Channel
  <2>2. /\ table \in Seq(Channel) /\ Len(table) = k /\ table[k] = e
        /\ \A d \in 1 .. Len(channels) : table[d] = channels[d]
    BY <1>0, <2>1
  <2>3. Enter(u, k, table)
    BY <1>3
  <2> HIDE DEF table, e
  <2>4. Cardinality(On(k)) = 0
    <3>1. \A i \in Live : client[i].chanID \in Nat /\ client[i].chanID <= Len(channels)
      BY LiveFd DEF IInv, ChannelsSound, UserInfo
    <3>2. On(k) = {}
      BY <1>0, <3>1 DEF On
    <3> QED
      BY <3>2, FS_EmptySet
  <2>5. \A d \in 1 .. Len(table) :
           Cardinality(On(d)) + (IF d = k THEN 1 ELSE 0) <= table[d].nusers
    <3> TAKE d \in 1 .. Len(table)
    <3>1. CASE d = k
      BY <2>1, <2>2, <2>4, <3>1
    <3>2. CASE d # k
      <4>1. d \in 1 .. Len(channels)
        BY <1>0, <2>2, <3>2
      <4>2. Cardinality(On(d)) <= channels[d].nusers
        BY <4>1 DEF CountsCover
      <4> QED
        BY <1>0, <2>2, <3>2, <4>1, <4>2
    <3> QED
      BY <3>1, <3>2
  <2>6. k \in 1 .. Len(table) /\ Len(channels) <= Len(table)
    BY <1>0, <2>2
  <2> HIDE DEF k
  <2> QED
    BY <2>2, <2>3, <2>5, <2>6, EnterCounts
<1> QED
  BY <1>1, <1>2, <1>3 DEF Join

LEMMA TopicCounts ==
  ASSUME IInv, CountsCover, NEW u \in Live, NEW a \in Seq(Token), Topic(u, a)
  PROVE  CountsCover' /\ client' = client
<1>1. client' = client /\ kusers' = kusers
  BY DEF Topic
<1>2. LoggedIn' = LoggedIn /\ \A c : On(c)' = On(c)
  BY <1>1 DEF LoggedIn, On, Live
<1>3. /\ Len(channels') = Len(channels)
      /\ \A c \in 1 .. Len(channels) : channels'[c].nusers = channels[c].nusers
  BY CountTypes DEF Topic, Named, Channel
<1> QED
  BY <1>1, <1>2, <1>3, CountsKept

(* One client leaves its channel, and the channel's counter follows. *)
LEMMA LeaveCounts ==
  ASSUME IInv, CountsCover, NEW u \in Live, NEW c \in 1 .. Len(channels),
         client[u].chanID = c,
         channels' = [channels EXCEPT ![c].nusers = @ - 1],
         \A d \in 1 .. Len(channels) : On(d)' = On(d) \ {u}
  PROVE  \A d \in 1 .. Len(channels') : Cardinality(On(d)') <= channels'[d].nusers
<1>1. /\ channels \in Seq(Channel) /\ Len(channels) \in Nat
      /\ \A d \in 1 .. Len(channels) : channels[d] \in Channel /\ channels[d].nusers \in Int
  BY CountTypes
<1>2. /\ Len(channels') = Len(channels)
      /\ \A d \in 1 .. Len(channels) :
           channels'[d].nusers = IF d = c THEN channels[d].nusers - 1
                                 ELSE channels[d].nusers
  BY <1>1 DEF Channel
<1> SUFFICES ASSUME NEW d \in 1 .. Len(channels)
             PROVE  Cardinality(On(d) \ {u}) <= channels'[d].nusers
  BY <1>2
<1>3. /\ Cardinality(On(d)) \in Nat /\ Cardinality(On(d)) <= channels[d].nusers
      /\ Cardinality(On(d) \ {u}) \in Nat
      /\ Cardinality(On(d) \ {u}) <= Cardinality(On(d))
      /\ u \in On(d) => Cardinality(On(d) \ {u}) = Cardinality(On(d)) - 1
  <2>1. On(d) \in SUBSET Slots /\ On(d) \ {u} \in SUBSET On(d) /\ u \in Slots
    BY CountTypes, LiveFd
  <2> QED
    BY <2>1, SlotCards DEF CountsCover
<1>4. d = c => u \in On(d)
  BY DEF On
<1> QED
  BY <1>1, <1>2, <1>3, <1>4

LEMMA PartCounts ==
  ASSUME IInv, CountsCover, NEW u \in Live, NEW a \in Seq(Token), Part(u, a)
  PROVE  CountsCover' /\ \A i \in Live : client[i].isLogin => client'[i].isLogin
<1>1. CASE ReplyOnly(u, 1)
  BY <1>1, IdleCounts DEF ReplyOnly
<1>2. CASE /\ OnChannel(u, a)
           /\ client' = [client EXCEPT ![u].chanID = 0]
           /\ channels' = [channels EXCEPT ![client[u].chanID].nusers = @ - 1]
           /\ kusers' = kusers
  <2> DEFINE r == [client[u] EXCEPT !.chanID = 0]
  <2>1. client[u] \in UserInfo /\ client[u].chanID \in 1 .. Len(channels)
    BY <1>2, LiveFd DEF OnChannel, Named
  <2>2. /\ r \in UserInfo /\ r.isLogin = client[u].isLogin /\ r.chanID = 0
        /\ client' = [client EXCEPT ![u] = r]
    BY <1>2, <2>1 DEF UserInfo
  <2> HIDE DEF r
  <2>3. LoggedIn' = LoggedIn /\ \A d \in 1 .. Len(channels) : On(d)' = On(d) \ {u}
    <3>1. \A d \in 1 .. Len(channels) : d # 0
      BY CountTypes
    <3>2. LoggedIn' = LoggedIn
      BY <2>2, RecordCounts
    <3>3. \A d : On(d)' = IF 0 = d THEN On(d) \cup {u} ELSE On(d) \ {u}
      BY <2>2, RecordCounts
    <3> QED
      BY <3>1, <3>2, <3>3
  <2>4. \A d \in 1 .. Len(channels') : Cardinality(On(d)') <= channels'[d].nusers
    BY <1>2, <2>1, <2>3, LeaveCounts
  <2>5. \A i \in Live : client[i].isLogin => client'[i].isLogin
    BY <2>2 DEF IInv, TypeOK, Live
  <2> QED
    BY <1>2, <2>3, <2>4, <2>5 DEF CountsCover
<1> QED
  BY <1>1, <1>2 DEF Part

LEMMA CommandCounts ==
  ASSUME IInv, CountsCover, NEW u \in Live, NEW t \in Seq(Token), t # << >>, Command(u, t)
  PROVE  CountsCover' /\ \A i \in Live : client[i].isLogin => client'[i].isLogin
<1>1. Tail(t) \in Seq(Token)
  OBVIOUS
<1>2. CASE \/ Users(u, Tail(t)) \/ List(u, Tail(t)) \/ Ping(u, Tail(t))
           \/ Names(u, Tail(t)) \/ Privmsg(u, Tail(t)) \/ ReplyOnly(u, 1)
  <2>1. UNCHANGED tableVars
    BY <1>2 DEF Users, List, Ping, Names, Privmsg, ReplyOnly
  <2> QED
    BY <2>1, IdleCounts
<1> QED
  BY <1>1, <1>2, NickCounts, UserCounts, JoinCounts, TopicCounts, PartCounts DEF Command

(* A step that touches one client: the others stay registered. *)
LEMMA RegisteredStep ==
  ASSUME IInv, Registered, NEW i \in Live, InHandshake => i = cur,
         Live' \subseteq Live, left' = << >>,
         \A j \in Live' \ {i} : /\ client'[j].fd = client[j].fd
                                /\ client[j].isLogin => client'[j].isLogin,
         \A f \in ClientFds \ {client[i].fd} :
            /\ unread'[f] = unread[f]
            /\ peer[f] \in Over => peer'[f] \in Over,
         i \in Live' => \/ client'[i].isLogin
                        \/ InHandshake' /\ i = cur'
                        \/ unread'[client'[i].fd] = 0 /\ peer'[client'[i].fd] \in Over
  PROVE  Registered'
<1> SUFFICES ASSUME NEW j \in Live', j # i
             PROVE  \/ client'[j].isLogin
                    \/ unread'[client'[j].fd] = 0 /\ peer'[client'[j].fd] \in Over
  BY DEF Registered
<1>1. j \in Live /\ client'[j].fd = client[j].fd
  OBVIOUS
<1>2. client[j].fd \in ClientFds \ {client[i].fd}
  BY <1>1, LiveFd DEF IInv, TableSound
<1>3. CASE client[j].isLogin
  BY <1>1, <1>3
<1>4. CASE unread[client[j].fd] = 0 /\ peer[client[j].fd] \in Over
  BY <1>1, <1>2, <1>4
<1> QED
  BY <1>1, <1>3, <1>4 DEF Registered

LEMMA RegisteredIdle ==
  ASSUME Registered, UNCHANGED <<left, cur, client, unread, peer>>,
         InHandshake <=> InHandshake'
  PROVE  Registered'
BY DEF Registered, Live

LEMMA AcceptCounts ==
  ASSUME IInv, Registered, CountsCover, IncommingReq
  PROVE  Registered' /\ CountsCover'
<1>1. PICK f \in ClientFds, i \in Slots :
        /\ peer[f] = "none" /\ i \notin Live
        /\ peer' = [peer EXCEPT ![f] = "up"]
        /\ client' = [client EXCEPT ![i] = NewUser(f)]
        /\ cur' = i
  BY DEF IncommingReq
<1>2. /\ NewUser(f) \in UserInfo /\ NewUser(f).chanID = 0 /\ ~NewUser(f).isLogin
  BY LinesAssumption DEF NewUser, UserInfo
<1>3. Live' = Live \cup {i} /\ client'[i] = NewUser(f)
      /\ \A j \in Live : client'[j] = client[j] /\ j # i
  BY <1>1, <1>2, NoClientAssumption DEF IInv, TypeOK, Live
<1>4. /\ UNCHANGED <<channels, kusers, unread, left>> /\ InHandshake' /\ ~InHandshake
  BY DEF IncommingReq, InHandshake
<1>5. CountsCover'
  <2>1. LoggedIn' = LoggedIn
    BY <1>2, <1>3 DEF LoggedIn
  <2>2. \A c \in 1 .. Len(channels) : On(c)' = On(c)
    <3>1. \A c \in 1 .. Len(channels) : c # 0
      BY CountTypes
    <3> QED
      BY <1>2, <1>3, <3>1 DEF On
  <2> QED
    BY <1>4, <2>1, <2>2, CountsKept
<1>6. Registered'
  <2> SUFFICES ASSUME NEW j \in Live
               PROVE  \/ client'[j].isLogin
                      \/ unread'[client'[j].fd] = 0 /\ peer'[client'[j].fd] \in Over
    BY <1>1, <1>3, <1>4 DEF Registered
  <2>1. client'[j] = client[j] /\ client[j].fd \in ClientFds /\ client[j].fd # f
    BY <1>1, <1>3, LiveFd
  <2>2. peer'[client[j].fd] = peer[client[j].fd]
    BY <1>1, <2>1 DEF IInv, TypeOK
  <2> QED
    BY <1>4, <2>1, <2>2 DEF Registered
<1> QED
  BY <1>5, <1>6

(* NICK takes its argument and leaves nothing for the second line. *)
LEMMA FirstLineCounts ==
  ASSUME PoliteHandshakes, IInv, Registered, CountsCover, FirstLine
  PROVE  Registered' /\ CountsCover'
<1>1. PICK t \in FirstLines : HandshakeCommand(t) /\ left' = Leftover(cur, t)
  BY DEF FirstLine
<1>2. /\ t \in Seq(Token) /\ t # << >> /\ Len(t) = 2 /\ Head(t) = "NICK"
  BY LinesAssumption DEF PoliteHandshakes
<1>3. InHandshake /\ InHandshake' /\ cur' = cur /\ cur \in Live
  BY DEF FirstLine, InHandshake, IInv, TableSound
<1>4. Command(cur, t) /\ CommandStep
  BY <1>1, <1>2, <1>3, HandshakeStep DEF HandshakeCommand
<1>5. CountsCover' /\ \A i \in Live : client[i].isLogin => client'[i].isLogin
  BY <1>2, <1>3, <1>4, CommandCounts
<1>6. left' = << >>
  <2>1. Tail(t) \in Seq(Token) /\ Len(Tail(t)) = 1
    BY <1>2
  <2>2. PICK a : a = Tail(t)
    OBVIOUS
  <2>3. Len(a) = 1
    BY <2>1, <2>2
  <2>4. 1 + 1 \in Int /\ Len(a) \in Int /\ Len(a) < 1 + 1
    BY <2>3
  <2>5. SubSeq(a, 1 + 1, Len(a)) = << >>
    BY <2>4, SubSeqEmpty
  <2>6. Leftover(cur, t) = SubSeq(a, 1 + 1, Len(a))
    BY <1>2, <2>2 DEF Leftover
  <2> QED
    BY <1>1, <2>5, <2>6
<1>7. \A f \in ClientFds \ {client[cur].fd} : unread'[f] = unread[f]
  BY <1>3, LiveFd, LineTaken DEF FirstLine, HandshakeFd
<1>8. Registered'
  BY <1>3, <1>4, <1>5, <1>6, <1>7, TableKept, RegisteredStep DEF CommandStep, SamePeers
<1> QED
  BY <1>5, <1>8

(* USER logs the client in. *)
LEMMA SecondLineCounts ==
  ASSUME PoliteHandshakes, IInv, Registered, CountsCover, SecondLine
  PROVE  Registered' /\ CountsCover'
<1>1. PICK t \in SecondLines : HandshakeCommand(left \o t)
  BY DEF SecondLine
<1>2. t \in Seq(Token) /\ t # << >> /\ Len(t) >= 5 /\ Head(t) = "USER" /\ left \o t = t
  BY LinesAssumption DEF PoliteHandshakes, Registered
<1>3. InHandshake /\ cur \in Live /\ left' = << >>
  BY DEF SecondLine, Connected, InHandshake, IInv, TableSound
<1>4. Command(cur, t) /\ CommandStep
  BY <1>1, <1>2, <1>3, HandshakeStep DEF HandshakeCommand
<1>5. CountsCover' /\ \A i \in Live : client[i].isLogin => client'[i].isLogin
  BY <1>2, <1>3, <1>4, CommandCounts
<1>6. client'[cur].isLogin
  <2>1. Tail(t) \in Seq(Token) /\ Len(Tail(t)) >= 4
    BY <1>2
  <2>2. User(cur, Tail(t))
    BY <1>2, <1>4 DEF Command, Verbs
  <2> QED
    BY <1>3, <2>1, <2>2, UserCounts
<1>7. \A f \in ClientFds \ {client[cur].fd} : unread'[f] = unread[f]
  BY <1>3, LiveFd, LineTaken DEF SecondLine, HandshakeFd
<1>8. Registered'
  BY <1>3, <1>4, <1>5, <1>6, <1>7, TableKept, RegisteredStep DEF CommandStep, SamePeers
<1> QED
  BY <1>5, <1>8

LEMMA SecondLineEofCounts ==
  ASSUME IInv, Registered, CountsCover, SecondLineEof
  PROVE  Registered' /\ CountsCover'
<1>1. /\ InHandshake /\ cur \in Live /\ left' = << >> /\ UNCHANGED tableVars
      /\ UNCHANGED <<unread, peer>>
      /\ unread[client[cur].fd] = 0 /\ peer[client[cur].fd] \in Over
  BY DEF SecondLineEof, Connected, InHandshake, IInv, TableSound, HandshakeFd, Over, netVars
<1>2. CountsCover' /\ Live' = Live /\ client' = client
  BY <1>1, IdleCounts
<1>3. Registered'
  BY <1>1, <1>2, RegisteredStep
<1> QED
  BY <1>2, <1>3

(* A client whose lines ConnectedReq reads is logged in. *)
LEMMA TurnCounts ==
  ASSUME IInv, Registered, CountsCover, NEW i \in Slots,
         Serve(i) \/ ServeQuit(i) \/ ServeEof(i) \/ ServeError(i)
  PROVE  Registered' /\ CountsCover'
<1>1. /\ pc = "scan" /\ Turn(i) /\ Served(i) /\ i \in Live /\ ~InHandshake
      /\ client[i].fd \in ClientFds /\ unread[client[i].fd] \in Nat /\ left' = << >>
  <2>1. pc = "scan" /\ Turn(i) /\ Served(i) /\ i \in Live
    BY TurnLive DEF Serve, ServeQuit, ServeEof, ServeError
  <2> QED
    BY <2>1, LiveFd DEF InHandshake, Served, Registered
<1>2. unread[client[i].fd] > 0 \/ peer[client[i].fd] = "abort" => client[i].isLogin
  BY <1>1 DEF Registered, Over
<1>3. CASE Serve(i)
  <2>1. PICK t \in Received(unread[client[i].fd]) : Command(i, t)
    BY <1>3 DEF Serve
  <2>2. CommandStep
    BY <1>1, <2>1, ReceivedType, CommandKeeps
  <2>3. CountsCover' /\ \A j \in Live : client[j].isLogin => client'[j].isLogin
    BY <1>1, <2>1, ReceivedType, CommandCounts
  <2>4. client'[i].isLogin
    BY <1>1, <1>2, <1>3, <2>3 DEF Serve
  <2>5. \A f \in ClientFds \ {client[i].fd} : unread'[f] = unread[f]
    BY <1>1, <1>3, LineTaken DEF Serve
  <2>6. Registered'
    BY <1>1, <2>2, <2>3, <2>4, <2>5, TableKept, RegisteredStep DEF CommandStep, SamePeers
  <2> QED
    BY <2>3, <2>6
<1>4. ASSUME CloseConnection(i),
             \A f \in ClientFds \ {client[i].fd} : unread'[f] = unread[f]
      PROVE  /\ Registered' /\ LoggedIn' = LoggedIn \ {i}
             /\ \A c : On(c)' = On(c) \ {i}
  <2>1. Live' = Live \ {i} /\ \A j \in Live \ {i} : client'[j] = client[j]
    BY <1>4 DEF CloseConnection, IInv, TypeOK, Live
  <2>2. \A f \in ClientFds \ {client[i].fd} : peer'[f] = peer[f]
    BY <1>4 DEF CloseConnection, IInv, TypeOK
  <2>3. Registered'
    BY <1>1, <1>4, <2>1, <2>2, RegisteredStep
  <2> QED
    BY <2>1, <2>3 DEF LoggedIn, On
<1>5. CASE ServeQuit(i)
  <2>1. \A f \in ClientFds \ {client[i].fd} : unread'[f] = unread[f]
    BY <1>1, <1>5, LineTaken DEF ServeQuit
  <2>2. Registered' /\ LoggedIn' = LoggedIn \ {i} /\ \A c : On(c)' = On(c) \ {i}
    BY <1>4, <1>5, <2>1 DEF ServeQuit
  <2>3. Quit(i) /\ i \in LoggedIn
    BY <1>1, <1>2, <1>5 DEF ServeQuit, LoggedIn
  <2>4. Cardinality(LoggedIn') <= kusers'
    <3>1. /\ Cardinality(LoggedIn) \in Nat /\ Cardinality(LoggedIn) <= kusers
          /\ Cardinality(LoggedIn \ {i}) = Cardinality(LoggedIn) - 1
          /\ kusers \in Int
      BY <2>3, CountTypes, SlotCards DEF CountsCover
    <3> QED
      BY <2>2, <2>3, <3>1 DEF Quit
  <2>5. \A c \in 1 .. Len(channels') : Cardinality(On(c)') <= channels'[c].nusers
    <3>1. CASE client[i].chanID = 0
      <4>1. channels' = channels
        BY <2>3, <3>1 DEF Quit
      <4>2. \A c \in 1 .. Len(channels) : On(c) \ {i} = On(c)
        <5>1. \A c \in 1 .. Len(channels) : c # 0
          BY CountTypes
        <5> QED
          BY <3>1, <5>1 DEF On
      <4> QED
        BY <2>2, <4>1, <4>2 DEF CountsCover
    <3>2. CASE client[i].chanID # 0
      <4>1. client[i].chanID \in Nat /\ client[i].chanID <= Len(channels)
            /\ Len(channels) \in Nat
        BY <1>1, LiveFd, CountTypes DEF IInv, ChannelsSound, UserInfo
      <4>2. client[i].chanID \in 1 .. Len(channels)
        BY <3>2, <4>1
      <4>3. channels' = [channels EXCEPT ![client[i].chanID].nusers = @ - 1]
        BY <2>3, <3>2 DEF Quit
      <4> QED
        BY <1>1, <2>2, <4>2, <4>3, LeaveCounts
    <3> QED
      BY <3>1, <3>2
  <2> QED
    BY <2>2, <2>4, <2>5 DEF CountsCover
<1>6. CASE ServeEof(i)
  <2>1. CloseConnection(i) /\ UNCHANGED <<channels, kusers, unread>>
    BY <1>6 DEF ServeEof
  <2>2. Registered' /\ LoggedIn' = LoggedIn \ {i} /\ \A c : On(c)' = On(c) \ {i}
    BY <1>4, <2>1
  <2>3. CountsCover'
    BY <2>1, <2>2, CountsKept
  <2> QED
    BY <2>2, <2>3
<1>7. CASE ServeError(i)
  <2>1. UNCHANGED tableVars /\ unread' = unread /\ peer[client[i].fd] = "abort"
    BY <1>7 DEF ServeError
  <2>2. CountsCover' /\ Live' = Live /\ client' = client
    BY <2>1, IdleCounts
  <2>3. \A f \in ClientFds \ {client[i].fd} : peer'[f] = peer[f]
    BY <1>7 DEF ServeError, IInv, TypeOK
  <2>4. Registered'
    BY <1>1, <1>2, <2>1, <2>2, <2>3, RegisteredStep
  <2> QED
    BY <2>2, <2>4
<1> QED
  BY <1>3, <1>5, <1>6, <1>7

LEMMA CountsStep ==
  ASSUME PoliteHandshakes, IInv, Registered, CountsCover, [Next]_vars
  PROVE  Registered' /\ CountsCover'
<1>1. CASE MySelect \/ AcceptFails \/ FirstLineEof \/ HandshakeError \/ UNCHANGED vars
  <2>1. /\ UNCHANGED tableVars /\ UNCHANGED <<left, cur, client, unread, peer>>
        /\ InHandshake <=> InHandshake'
    BY <1>1 DEF MySelect, AcceptFails, FirstLineEof, HandshakeError, vars, loopVars,
       tableVars, netVars, InHandshake
  <2> QED
    BY <2>1, IdleCounts, RegisteredIdle
<1>2. CASE IncommingReq \/ FirstLine \/ SecondLine \/ SecondLineEof
  BY <1>2, AcceptCounts, FirstLineCounts, SecondLineCounts, SecondLineEofCounts
<1>3. ASSUME NEW i \in Slots, Serve(i) \/ ServeQuit(i) \/ ServeEof(i) \/ ServeError(i)
      PROVE  Registered' /\ CountsCover'
  BY <1>3, TurnCounts
<1>4. CASE Clients
  <2>1. InFlight
    BY <1>4, ClientsStep
  <2>2. CountsCover' /\ Live' = Live /\ client' = client
    BY <2>1, IdleCounts DEF InFlight
  <2>3. UNCHANGED <<left, cur>> /\ (InHandshake <=> InHandshake')
    BY <2>1 DEF InFlight, loopVars, InHandshake
  <2>4. \A f \in ClientFds : peer[f] \in Over => peer'[f] \in Over /\ unread'[f] = unread[f]
    BY <2>1 DEF InFlight, SamePeers
  <2>5. Registered'
    BY <2>2, <2>3, <2>4, LiveFd DEF Registered
  <2> QED
    BY <2>2, <2>5
<1> QED
  BY <1>1, <1>2, <1>3, <1>4 DEF Next, Server

(* Where every client registers with NICK and USER, the counter of users   *)
(* and those of the channels are never below the clients really there:     *)
(* what keeps quit() and part() from taking away a client that was never   *)
(* counted.  (quit:551, part:683, join:472)                                *)
THEOREM CountersCover == PoliteHandshakes => (Spec => []CountsCover)
<1> SUFFICES ASSUME PoliteHandshakes PROVE Spec => []CountsCover
  OBVIOUS
<1>1. Init => Registered /\ CountsCover
  <2> SUFFICES ASSUME Init PROVE Registered /\ CountsCover
    OBVIOUS
  <2>1. Live = {} /\ left = << >> /\ kusers = 0 /\ Len(channels) = 0
    BY DEF Init, Live
  <2>2. LoggedIn = {} /\ Cardinality(LoggedIn) = 0
    BY <2>1, FS_EmptySet DEF LoggedIn
  <2> QED
    BY <2>1, <2>2 DEF Registered, CountsCover
<1>2. IInv /\ Registered /\ CountsCover /\ [Next]_vars => Registered' /\ CountsCover'
  BY CountsStep
<1> QED
  BY <1>1, <1>2, Inductive, PTL DEF Spec

(* Every variable keeps the type its declaration gives it.                 *)
THEOREM TypeCorrect == Spec => []TypeOK
<1>1. IInv => TypeOK
  BY DEF IInv
<1> QED
  BY <1>1, Inductive, PTL

(* No sequence of accepts, handshakes, commands, hang-ups and closes lets  *)
(* client[], allset and the kernel's descriptors disagree.  (server.cpp,   *)
(* IncommingReq and CloseConnection)                                       *)
THEOREM TableCorrect == Spec => []TableSound
<1>1. IInv => TableSound
  BY DEF IInv
<1> QED
  BY <1>1, Inductive, PTL

(* Two connected clients never share a nickname, in spite of checkNickExist *)
(* looking only at slots up to maxconn.                                    *)
THEOREM NicknamesUnique == Spec => []NickUnique
<1>1. IInv => NickUnique
  BY DEF IInv
<1> QED
  BY <1>1, Inductive, PTL

(* channels[] holds no name twice and no client points past its end.       *)
THEOREM ChannelsCorrect == Spec => []ChannelsSound
<1>1. IInv => ChannelsSound
  BY DEF IInv
<1> QED
  BY <1>1, Inductive, PTL
=============================================================================
