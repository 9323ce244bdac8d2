----------------------------- MODULE DnsServer -----------------------------
(***************************************************************************)
(* HW2: the DNS server of server.cpp.  It loads its zone files, then reads *)
(* one datagram after the other: it answers what is in its zones, and for  *)
(* everything else opens a socket, asks another server and waits.          *)
(*                                                                         *)
(* A name is the sequence of its labels, the root's is empty; a query's    *)
(* number stands for its header's id.  TTLs, classes and the octets of a   *)
(* record are left out; of RDLENGTH the model keeps whether it is the      *)
(* length of what follows it.                                              *)
(***************************************************************************)
EXTENDS Integers, Sequences, FiniteSets, SequencesExt

CONSTANTS
  Config,      \* zone files [root, lines] in order; a line is [label, type, rdata]
  Short,       \* labels of one character
  Octet,       \* labels that are numbers from 0 to 255
  Client,
  Questions,   \* the <<name, type>> that clients ask about
  Sockets,     \* sockets the server may open beside its own
  MaxAsked     \* bound: datagrams sent to the server

At == << >>    \* the label of a line that starts with '@'
Types == {"A", "NS", "CNAME", "SOA", "MX", "TXT", "AAAA"}
None == <<"">> \* no zone; an empty label is no label
Empty == [from |-> "", id |-> 0, name |-> <<>>, type |-> ""]  \* no octets

Line == [label : Seq(STRING), type : Types, rdata : Seq(STRING)]

(* struct Zone: per type what its records say, in the order of their lines *)
(* (one SOA, the last), and whether _SOA's length also counts a CNAME's,   *)
(* which is added to it while CNAME's own stays 0.                         *)
Zone == [rrs : [Types -> Seq(Seq(STRING))], padded : BOOLEAN]
NoRecords == [rrs |-> [t \in Types |-> <<>>], padded |-> FALSE]
ASSUME ConfigAssumption ==
  /\ Config \in Seq([root : Seq(STRING) \ {At, None}, lines : Seq(Line)])
  /\ Questions \subseteq Seq(STRING) \X STRING
ASSUME BoundsAssumption == Sockets \in Nat /\ MaxAsked \in Nat

VARIABLES
  pc,          \* "load", "recv", "wait" for the other server, or how it ended
  file, line,  \* the constructor: the zone file, and the line of it
  cur_name,
  zones,       \* per node its lists of records
  asked,       \* history: every query
  inbox,       \* datagrams in the server's socket
  query,       \* the query in recvline; its sender is cliaddr
  free,        \* sockets left: do_forward_query closes none
  other,       \* queries at the other server, by socket
  replies,     \* its replies
  sent         \* what clients got: [to, id, own, packet]

loadVars == <<file, line, cur_name, zones>>
serveVars == <<asked, inbox, query, free, other, replies, sent>>
vars == <<pc, loadVars, serveVars>>

-----------------------------------------------------------------------------
(***************************************************************************)
(* The constructor.                                                        *)
(***************************************************************************)
Root == Config[file].root
Lines == IF file = 0 THEN <<>> ELSE Config[file].lines

(* dot == 1: '@', but also any other name of one character.                *)
OneChar(label) == label = At \/ (Len(label) = 1 /\ label[1] \in Short)

Node(z, n) == [m \in DOMAIN z \cup {n} |-> IF m \in DOMAIN z THEN z[m] ELSE NoRecords]

MutantNextZone ==                  \* cur_name is not reset
  /\ pc = "load" /\ line = Len(Lines)
  /\ \/ /\ file < Len(Config)
        /\ file' = file + 1 /\ line' = 0
        /\ cur_name' = IF file = 0 THEN Config[1].root ELSE cur_name
        /\ zones' = Node(zones, Config[file + 1].root)
        /\ UNCHANGED pc
     \/ file = Len(Config) /\ pc' = "recv" /\ UNCHANGED loadVars
  /\ UNCHANGED serveVars

NextZone ==
  /\ pc = "load" /\ line = Len(Lines)
  /\ \/ /\ file < Len(Config)
        /\ file' = file + 1 /\ line' = 0
        /\ cur_name' = Config[file + 1].root /\ zones' = Node(zones, cur_name')
        /\ UNCHANGED pc
     \/ file = Len(Config) /\ pc' = "recv" /\ UNCHANGED loadVars
  /\ UNCHANGED serveVars

UpdateInfo(z, n, l) ==
  [Node(z, n) EXCEPT
     ![n].rrs[l.type] = IF l.type = "SOA" THEN <<l.rdata>> ELSE Append(@, l.rdata),
     ![n].padded = (@ \/ l.type = "CNAME") /\ l.type # "SOA"]

LoadLine ==
  /\ pc = "load" /\ line < Len(Lines)
  /\ LET l == Lines[line + 1] IN
       /\ cur_name' = IF OneChar(l.label) THEN cur_name ELSE l.label \o Root
       /\ zones' = UpdateInfo(zones, cur_name', l)
  /\ line' = line + 1
  /\ UNCHANGED <<pc, file, serveVars>>

-----------------------------------------------------------------------------
(***************************************************************************)
(* What is found in zones, and the packet made of it.                      *)
(***************************************************************************)
Suffix(n, k) == SubSeq(n, Len(n) - k + 1, Len(n))

(* start_from_root: the shortest suffix that is a node.  Of a name of one  *)
(* character and a dot no suffix is tried.                                 *)
MutantProbes(n) == {k \in 1 .. Len(n) - 1 : Suffix(n, k) \in DOMAIN zones}
Probes(n) ==
  {k \in 1 .. Len(n) : Suffix(n, k) \in DOMAIN zones /\ ~(Len(n) = 1 /\ OneChar(n))}
StartFromRoot(n) ==
  IF Probes(n) = {} THEN None
  ELSE Suffix(n, CHOOSE k \in Probes(n) : \A j \in Probes(n) : k <= j)

OfType(n, t) == IF t \in Types THEN zones[n].rrs[t] ELSE <<>>
Sized(n, t) == t # "CNAME" /\ (t = "SOA" => ~zones[n].padded)

(* append_rr and the record's data.                                        *)
Records(n, t) ==
  [k \in DOMAIN OfType(n, t) |-> [owner |-> n, type |-> t,
                                  rdata |-> OfType(n, t)[k],
                                  sized |-> Sized(n, t)]]

(* nip.io: the first four labels are an address.                           *)
IsAddress(n) == Len(n) >= 4 /\ \A k \in 1 .. 4 : n[k] \in Octet
AddressRecord(n) ==
  [owner |-> n, type |-> "A", rdata |-> SubSeq(n, 1, 4), sized |-> TRUE]

(* struct header has arcount, which counts the authority section, before   *)
(* nscount, which counts the additional one.                               *)
MutantHeader(ancount, nscount, arcount) == <<ancount, nscount, arcount>>
Header(ancount, nscount, arcount) == <<ancount, arcount, nscount>>

GetAnswer(n, t) == IF n \in DOMAIN zones THEN Records(n, t) ELSE <<>>

GetAuthority(root, answer, t) ==
  IF answer = <<>> THEN Records(root, "SOA")
  ELSE IF t # "NS" THEN Records(root, "NS") ELSE <<>>

(* The names of servers and of mail exchanges.                             *)
Targets(answer, t) ==
  IF t \in {"NS", "MX"} THEN [k \in DOMAIN answer |-> answer[k].rdata] ELSE <<>>

GetAdditional(targets) ==
  FlattenSeq([k \in DOMAIN targets |-> Records(targets[k], "A")
                                       \o Records(targets[k], "AAAA")])

Packet(answer, authority, additional) ==
  [counts |-> Header(Len(answer), Len(additional), Len(authority)),
   records |-> answer \o authority \o additional]

StartQuery(n, t) ==
  IF IsAddress(n) THEN Packet(<<AddressRecord(n)>>, <<>>, <<>>)
  ELSE LET answer == GetAnswer(n, t)
       IN Packet(answer, GetAuthority(StartFromRoot(n), answer, t),
                 GetAdditional(Targets(answer, t)))

(* A target that is no node: node is zones.end() and is used all the same. *)
Dangling(n, t) ==
  /\ ~IsAddress(n)
  /\ \E k \in DOMAIN Targets(GetAnswer(n, t), t) :
       Targets(GetAnswer(n, t), t)[k] \notin DOMAIN zones

-----------------------------------------------------------------------------
(***************************************************************************)
(* start().                                                                *)
(***************************************************************************)
Recv == pc = "recv" /\ inbox # <<>> /\ inbox' = Tail(inbox)
Reply(to, id, own, packet) ==
  sent' = sent \cup {[to |-> to, id |-> id, own |-> own, packet |-> packet]}

(* recvfrom returns 0 and the loop ends.                                   *)
RecvEmpty ==
  /\ Recv /\ Head(inbox) = Empty
  /\ pc' = "returned"
  /\ UNCHANGED <<loadVars, asked, query, free, other, replies, sent>>

(* The root's name has no dot: query_name.substr(npos).                    *)
RecvRoot ==
  /\ Recv /\ Head(inbox) # Empty /\ Head(inbox).name = <<>>
  /\ pc' = "out_of_range"
  /\ UNCHANGED <<loadVars, asked, query, free, other, replies, sent>>

RecvQuery == Recv /\ Head(inbox).name # <<>>

Answer ==
  /\ RecvQuery
  /\ LET q == Head(inbox) IN
       /\ StartFromRoot(q.name) # None
       /\ \/ Dangling(q.name, q.type) /\ pc' = "no node" /\ UNCHANGED sent
          \/ ~Dangling(q.name, q.type) /\ UNCHANGED pc
             /\ Reply(q.from, q.id, TRUE, StartQuery(q.name, q.type))
  /\ UNCHANGED <<loadVars, asked, query, free, other, replies>>

MutantForward ==                   \* as if there were always a socket
  /\ RecvQuery
  /\ LET q == Head(inbox) IN
       /\ StartFromRoot(q.name) = None
       /\ free' = free - 1 /\ query' = q /\ other' = other \cup {<<free, q>>}
       /\ pc' = "wait"
  /\ UNCHANGED <<loadVars, asked, replies, sent>>

(* do_forward_query, up to its recvfrom; without a socket all its calls    *)
(* fail, and so does the reply.                                            *)
Forward ==
  /\ RecvQuery
  /\ LET q == Head(inbox) IN
       /\ StartFromRoot(q.name) = None
       /\ \/ free = 0 /\ UNCHANGED <<pc, query, free, other>>
          \/ /\ free > 0 /\ free' = free - 1
             /\ query' = q /\ other' = other \cup {<<free, q>>}
             /\ pc' = "wait"
  /\ UNCHANGED <<loadVars, asked, replies, sent>>

MutantRelay ==                     \* the reply's sender is taken for cliaddr
  /\ pc = "wait"
  /\ \E r \in replies : r[1] = free + 1 /\ Reply("other", r[2].id, FALSE, r[2])
  /\ pc' = "recv"
  /\ UNCHANGED <<loadVars, asked, inbox, query, free, other, replies>>

MutantSilentRelay ==               \* what came back is not sent on
  /\ pc = "wait"
  /\ \E r \in replies : r[1] = free + 1
  /\ pc' = "recv"
  /\ UNCHANGED <<loadVars, serveVars>>

(* What came back on the socket opened last, to cliaddr.                   *)
Relay ==
  /\ pc = "wait"
  /\ \E r \in replies : r[1] = free + 1 /\ Reply(query.from, r[2].id, FALSE, r[2])
  /\ pc' = "recv"
  /\ UNCHANGED <<loadVars, asked, inbox, query, free, other, replies>>

Server == NextZone \/ LoadLine \/ RecvEmpty \/ RecvRoot \/ Answer \/ Forward \/ Relay

-----------------------------------------------------------------------------
(* The other server replies, unless the query or its reply is lost.        *)
OtherReplies ==
  /\ \E q \in other : replies' = replies \cup {q} /\ other' = other \ {q}
  /\ UNCHANGED <<pc, loadVars, asked, inbox, query, free, sent>>

Lose ==
  /\ \E q \in other : other' = other \ {q}
  /\ UNCHANGED <<pc, loadVars, asked, inbox, query, free, replies, sent>>

(* The socket is bound when the zones are loaded.                          *)
Ask(c) ==
  /\ pc \in {"recv", "wait"} /\ Len(asked) < MaxAsked
  /\ \E q \in {[from |-> c, id |-> Len(asked) + 1, name |-> x[1], type |-> x[2]] :
                 x \in Questions} \cup {Empty} :
       asked' = Append(asked, q) /\ inbox' = Append(inbox, q)
  /\ UNCHANGED <<pc, loadVars, query, free, other, replies, sent>>

Init ==
  /\ pc = "load" /\ file = 0 /\ line = 0
  /\ cur_name = <<>> /\ zones = <<>>
  /\ asked = <<>> /\ inbox = <<>> /\ query = Empty /\ free = Sockets
  /\ other = {} /\ replies = {} /\ sent = {}

Next == Server \/ OtherReplies \/ Lose \/ \E c \in Client : Ask(c)

Spec == Init /\ [][Next]_vars

(* The server runs on, and so does the other one.                          *)
FairSpec == Spec /\ WF_vars(Server) /\ WF_vars(OtherReplies)

-----------------------------------------------------------------------------
Ended == {"returned", "out_of_range", "no node"}
Query == [from : Client, id : 1 .. MaxAsked, name : Seq(STRING), type : STRING]

TypeOK ==
  /\ pc \in {"load", "recv", "wait"} \cup Ended
  /\ file \in 0 .. Len(Config) /\ line \in 0 .. Len(Lines)
  /\ file > 0 => cur_name \in DOMAIN zones
  /\ \A n \in DOMAIN zones : n \in Seq(STRING) /\ zones[n] \in Zone
  /\ asked \in Seq(Query \cup {Empty}) /\ inbox \in Seq(Query \cup {Empty})
  /\ query \in Query \cup {Empty} /\ free \in 0 .. Sockets
  /\ other \cup replies \subseteq (1 .. Sockets) \X Query
  /\ \A r \in sent : r.id \in 1 .. MaxAsked

(* What the zone files say: '@' lines come first, and no other name has    *)
(* one character.                                                          *)
WellWritten ==
  \A f \in DOMAIN Config : \A j, k \in DOMAIN Config[f].lines :
    LET label(l) == Config[f].lines[l].label
    IN /\ OneChar(label(j)) => label(j) = At
       /\ label(k) = At /\ j < k => label(j) = At
(* What the code also takes for granted: no zone is called by one letter,  *)
(* which start_from_root takes for no name (253), and none is inside       *)
(* another, of which it finds the shorter (256).                           *)
EndsIn(n, z) == Len(z) <= Len(n) /\ Suffix(n, Len(z)) = z
RootsLong == \A f \in DOMAIN Config : ~OneChar(Config[f].root)
Apart ==
  \A f, g \in DOMAIN Config :
    EndsIn(Config[f].root, Config[g].root) => Config[f].root = Config[g].root

Owner(f, k) == Config[f].lines[k].label \o Config[f].root
Names ==
  UNION {{Config[f].root} \cup {Owner(f, k) : k \in DOMAIN Config[f].lines} :
         f \in DOMAIN Config}
FileRecords ==
  [n \in Names |-> [t \in Types |->
    LET all == FlattenSeq([f \in DOMAIN Config |->
                 FlattenSeq([k \in DOMAIN Config[f].lines |->
                   IF Owner(f, k) = n /\ Config[f].lines[k].type = t
                   THEN <<Config[f].lines[k].rdata>> ELSE <<>>])])
    IN IF t = "SOA" /\ all # <<>> THEN <<all[Len(all)]>> ELSE all]]

(* The nodes are the names that the files define, and each holds the       *)
(* records that they give it, in their order.  (server.cpp:50-73, 554)     *)
Loaded ==
  pc # "load" /\ WellWritten => [n \in DOMAIN zones |-> zones[n].rrs] = FileRecords

(* What a client reads in a packet: as many records per section as its     *)
(* header says, in the order answer, authority, additional.                *)
Section(p, k) ==
  LET count(j) == IF j = 0 THEN 0 ELSE p.counts[j]
      first == 1 + count(IF k > 1 THEN 1 ELSE 0) + count(IF k > 2 THEN 2 ELSE 0)
  IN {[owner |-> x.owner, type |-> x.type, rdata |-> x.rdata] :
        x \in ToSet(SubSeq(p.records, first, first + p.counts[k] - 1))}

(* The same from the zone files.                                           *)
Given(n, t) ==
  IF n \in Names /\ t \in Types
  THEN {[owner |-> n, type |-> t, rdata |-> d] : d \in ToSet(FileRecords[n][t])}
  ELSE {}
RootsOf(n) == {Config[f].root : f \in {g \in DOMAIN Config : EndsIn(n, Config[g].root)}}
Right(n, t, p) ==
  LET answer == Given(n, t)
      authority == UNION {Given(z, IF answer = {} THEN "SOA" ELSE "NS") : z \in RootsOf(n)}
      addresses == UNION {Given(r.rdata, "A") \cup Given(r.rdata, "AAAA") : r \in answer}
  IN /\ Section(p, 1) = answer
     /\ Section(p, 2) = IF answer # {} /\ t = "NS" THEN {} ELSE authority
     /\ Section(p, 3) = IF t \in {"NS", "MX"} THEN addresses ELSE {}
     /\ \A k \in DOMAIN p.records :
          Given(p.records[k].owner, "CNAME") = {} => p.records[k].sized

(* The sections of every reply of the server's own, as its header divides  *)
(* them, are what the zone files say of the name that was asked for, and   *)
(* each record announces its length unless its node has a CNAME, whose     *)
(* length goes to the SOA.  (server.cpp:162-249, 584)                      *)
AnswersRight ==
  \A r \in sent :
    LET q == asked[r.id]
    IN r.own /\ ~IsAddress(q.name) /\ WellWritten => Right(q.name, q.type, r.packet)

(* The server answers exactly the names below its zones, and passes on     *)
(* exactly the others.  (server.cpp:251)                                   *)
ForeignOnly ==
  /\ \A r \in sent : r.own <=> RootsOf(asked[r.id].name) # {}
  /\ \A q \in other \cup replies : RootsOf(q[2].name) = {}

(* A reply goes to who asked, with what was asked, and there is one; those *)
(* of the other server too, although what it sends is not looked at.       *)
(* (server.cpp:302-309)                                                    *)
AnswerToAsker ==
  \A r \in sent : /\ r.to = asked[r.id].from
                  /\ ~r.own => r.packet = asked[r.id]
                  /\ \A s \in sent : r.id = s.id => r = s

Answered(j) == \E r \in sent : r.id = j

(* A query for the other server that comes after as many as there are      *)
(* sockets, since none is closed.                                          *)
Foreign(k) == asked[k].name # <<>> /\ RootsOf(asked[k].name) = {}
NoSocketFor(j) ==
  Foreign(j) /\ Cardinality({k \in 1 .. j - 1 : Foreign(k)}) >= Sockets

(* What ends the program: no octets, the root's name, and a server or mail *)
(* exchange that no file defines.                                          *)
Lethal(q) ==
  \/ q.name = <<>>
  \/ /\ q.type \in {"NS", "MX"} /\ ~IsAddress(q.name)
     /\ \E r \in Given(q.name, q.type) : r.rdata \notin Names

(* The server waits for a reply that was lost.                             *)
Hangs == pc = "wait" /\ query \notin {q[2] : q \in other \cup replies}

(* Every query is answered, by the server or through it, unless there is   *)
(* no socket for it, or this query or one before it ends the program or is *)
(* the one whose reply the server waits for in vain.                       *)
(* (server.cpp:253, 264-276, 287-305)                                      *)
EachAnswered ==
  \A j \in 1 .. MaxAsked :
    (j <= Len(asked)) ~>
      \/ Answered(j)
      \/ j <= Len(asked) /\ NoSocketFor(j)
      \/ pc \in Ended /\ \E k \in 1 .. j : Lethal(asked[k])
      \/ Hangs /\ query.id <= j
=============================================================================
