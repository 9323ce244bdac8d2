-------------------------- MODULE DnsServerProofs --------------------------
(***************************************************************************)
(* What holds of DnsServer for any zone files, questions and sockets.      *)
(* Who gets which reply needs nothing but the order of the datagrams; what *)
(* the zones hold follows the loading line by line; which names are the    *)
(* server's rests on every node being below a zone's root; what a reply    *)
(* says, and that no query is forgotten, put these together.  The          *)
(* hypotheses on the files, WellWritten, RootsLong and Apart, are in       *)
(* DnsServer.                                                              *)
(***************************************************************************)
EXTENDS DnsServer, SequenceTheorems, FiniteSetTheorems, WellFoundedInduction, TLAPS

-----------------------------------------------------------------------------
(***************************************************************************)
(* Types.                                                                  *)
(***************************************************************************)
LEMMA ConfigType ==
  ASSUME NEW f \in DOMAIN Config
  PROVE  /\ Config[f].root \in Seq(STRING) /\ Config[f].root # <<>> /\ Config[f].root # None
         /\ Config[f].lines \in Seq(Line)
         /\ \A k \in DOMAIN Config[f].lines :
              /\ Config[f].lines[k] \in Line
              /\ Config[f].lines[k].label \in Seq(STRING)
              /\ Config[f].lines[k].type \in Types
              /\ Config[f].lines[k].rdata \in Seq(STRING)
  <1> DEFINE S == [root : Seq(STRING) \ {At, None}, lines : Seq(Line)]
  <1>0. Config \in Seq(S)
    BY ConfigAssumption
  <1>1. Config[f] \in S
    <2> HIDE DEF S
    <2> QED BY <1>0
  <1>2. Config[f].root \in Seq(STRING) \ {At, None} /\ Config[f].lines \in Seq(Line)
    BY <1>1
  <1>3. \A k \in DOMAIN Config[f].lines : Config[f].lines[k] \in Line
    BY <1>2
  <1>4. \A l \in Line : l.label \in Seq(STRING) /\ l.type \in Types /\ l.rdata \in Seq(STRING)
    BY DEF Line
  <1> QED BY <1>2, <1>3, <1>4 DEF At

LEMMA ConfigLength == Config \in Seq([root : Seq(STRING) \ {At, None}, lines : Seq(Line)])
                      /\ Len(Config) \in Nat /\ DOMAIN Config = 1 .. Len(Config)
  <1> DEFINE S == [root : Seq(STRING) \ {At, None}, lines : Seq(Line)]
  <1>1. Config \in Seq(S)
    BY ConfigAssumption
  <1>2. Len(Config) \in Nat /\ DOMAIN Config = 1 .. Len(Config)
    <2> HIDE DEF S
    <2> QED BY <1>1
  <1> QED BY <1>1, <1>2

(* The zone file that is being read, and the line that is next.            *)
LEMMA Reading ==
  ASSUME file \in 0 .. Len(Config), line \in 0 .. Len(Lines)
  PROVE  /\ Len(Lines) \in Nat /\ line \in Nat
         /\ file < Len(Config) => file + 1 \in DOMAIN Config
         /\ file > 0 => file \in DOMAIN Config
         /\ line < Len(Lines) => /\ file > 0 /\ file \in DOMAIN Config
                                 /\ Lines = Config[file].lines
                                 /\ line + 1 \in DOMAIN Lines
                                 /\ Lines[line + 1] \in Line
                                 /\ Root \in Seq(STRING)
  <1>1. file > 0 => file \in DOMAIN Config
    BY ConfigLength
  <1>2. Lines \in Seq(Line)
    <2>1. CASE file = 0
      <3>1. Lines = <<>>
        BY <2>1 DEF Lines
      <3> QED BY <3>1
    <2>2. CASE file > 0
      <3>1. Lines = Config[file].lines
        BY <2>2 DEF Lines
      <3> QED BY <1>1, <2>2, <3>1, ConfigType
    <2> QED BY <2>1, <2>2, ConfigLength
  <1>3. Len(Lines) \in Nat /\ DOMAIN Lines = 1 .. Len(Lines)
    BY <1>2
  <1>4. ASSUME line < Len(Lines)
        PROVE  file > 0 /\ line + 1 \in DOMAIN Lines
    BY <1>3, <1>4, ConfigLength DEF Lines
  <1>5. ASSUME file > 0
        PROVE  Lines = Config[file].lines /\ Root \in Seq(STRING)
    BY <1>1, <1>5, ConfigType DEF Lines, Root
  <1>6. line < Len(Lines) => Lines[line + 1] \in Line
    BY <1>2, <1>4
  <1>7. line \in Nat /\ (file < Len(Config) => file + 1 \in DOMAIN Config)
    BY <1>3, ConfigLength
  <1> QED BY <1>1, <1>3, <1>4, <1>5, <1>6, <1>7

LEMMA NoRecordsType == NoRecords \in Zone
  BY DEF NoRecords, Zone

LEMMA NodeType ==
  ASSUME NEW z, NEW n, \A m \in DOMAIN z : z[m] \in Zone
  PROVE  /\ DOMAIN Node(z, n) = DOMAIN z \cup {n}
         /\ \A m \in DOMAIN z : Node(z, n)[m] = z[m]
         /\ n \notin DOMAIN z => Node(z, n)[n] = NoRecords
         /\ \A m \in DOMAIN z \cup {n} : Node(z, n)[m] \in Zone
  BY NoRecordsType DEF Node

(* What a line does to the node that it names, and to no other.            *)
Added(old, l) ==
  [rrs |-> [old.rrs EXCEPT ![l.type] = IF l.type = "SOA" THEN <<l.rdata>>
                                       ELSE Append(@, l.rdata)],
   padded |-> (old.padded \/ l.type = "CNAME") /\ l.type # "SOA"]

LEMMA AddedType ==
  ASSUME NEW old \in Zone, NEW l \in Line
  PROVE  /\ Added(old, l) \in Zone
         /\ Added(old, l).rrs[l.type] = IF l.type = "SOA" THEN <<l.rdata>>
                                        ELSE Append(old.rrs[l.type], l.rdata)
         /\ \A t \in Types \ {l.type} : Added(old, l).rrs[t] = old.rrs[t]
  <1>1. old.rrs \in [Types -> Seq(Seq(STRING))] /\ old.padded \in BOOLEAN
    BY DEF Zone
  <1>2. l.type \in Types /\ l.rdata \in Seq(STRING)
    BY DEF Line
  <1>3. old.rrs[l.type] \in Seq(Seq(STRING))
    BY <1>1, <1>2
  <1>4. Append(old.rrs[l.type], l.rdata) \in Seq(Seq(STRING)) /\ <<l.rdata>> \in Seq(Seq(STRING))
    BY <1>2, <1>3
  <1>5. Added(old, l).rrs = [old.rrs EXCEPT ![l.type] =
                               IF l.type = "SOA" THEN <<l.rdata>>
                               ELSE Append(old.rrs[l.type], l.rdata)]
    BY DEF Added
  <1>6. Added(old, l).rrs \in [Types -> Seq(Seq(STRING))]
    BY <1>1, <1>2, <1>4, <1>5
  <1>7. ((old.padded \/ l.type = "CNAME") /\ l.type # "SOA") \in BOOLEAN
    BY <1>1
  <1>8. Added(old, l) \in Zone
    BY <1>5, <1>6, <1>7 DEF Added, Zone
  <1> QED BY <1>1, <1>2, <1>5, <1>8

Old(z, n) == IF n \in DOMAIN z THEN z[n] ELSE NoRecords

With(z, n, x) == [m \in DOMAIN z \cup {n} |-> IF m = n THEN x ELSE z[m]]

LEMMA UpdatedIs ==
  ASSUME NEW z, NEW n, NEW l \in Line, \A m \in DOMAIN z : z[m] \in Zone
  PROVE  /\ Old(z, n) \in Zone
         /\ UpdateInfo(z, n, l) = With(z, n, Added(Old(z, n), l))
  <1> DEFINE w == Node(z, n)
  <1>1. w = [m \in DOMAIN z \cup {n} |-> w[m]]
    BY DEF Node
  <1>2. w[n] = Old(z, n) /\ \A m \in DOMAIN z : w[m] = z[m]
    BY DEF Node, Old
  <1>3. w[n] \in Zone
    BY <1>2, NoRecordsType DEF Old
  <1>4. w[n] = [rrs |-> w[n].rrs, padded |-> w[n].padded]
    BY <1>3 DEF Zone
  <1> HIDE DEF w
  <1>5. UpdateInfo(z, n, l) =
          [[w EXCEPT ![n].rrs[l.type] = IF l.type = "SOA" THEN <<l.rdata>>
                                        ELSE Append(@, l.rdata)]
             EXCEPT ![n].padded = (@ \/ l.type = "CNAME") /\ l.type # "SOA"]
    BY DEF UpdateInfo, w
  <1>6. UpdateInfo(z, n, l) = [w EXCEPT ![n] = Added(w[n], l)]
    BY <1>1, <1>4, <1>5 DEF Added
  <1>7. [w EXCEPT ![n] = Added(w[n], l)] = With(z, n, Added(w[n], l))
    BY <1>1, <1>2 DEF With
  <1> QED BY <1>2, <1>3, <1>6, <1>7

LEMMA Updated ==
  ASSUME NEW z, NEW n, NEW l \in Line, \A m \in DOMAIN z : z[m] \in Zone
  PROVE  /\ DOMAIN UpdateInfo(z, n, l) = DOMAIN z \cup {n}
         /\ \A m \in DOMAIN z \ {n} : UpdateInfo(z, n, l)[m] = z[m]
         /\ \A m \in DOMAIN z \cup {n} : UpdateInfo(z, n, l)[m] \in Zone
  <1>1. Old(z, n) \in Zone /\ UpdateInfo(z, n, l) = With(z, n, Added(Old(z, n), l))
    BY UpdatedIs
  <1>2. PICK x \in Zone : x = Added(Old(z, n), l)
    BY <1>1, AddedType
  <1>3. UpdateInfo(z, n, l) = With(z, n, x)
    BY <1>1, <1>2
  <1> QED BY <1>3 DEF With

LEMMA UpdatedNode ==
  ASSUME NEW z, NEW n, NEW l \in Line, \A m \in DOMAIN z : z[m] \in Zone
  PROVE  UpdateInfo(z, n, l)[n] = Added(Old(z, n), l)
  <1>1. UpdateInfo(z, n, l) = With(z, n, Added(Old(z, n), l))
    BY UpdatedIs
  <1>2. \A x : With(z, n, x)[n] = x
    BY DEF With
  <1> QED BY <1>1, <1>2

LEMMA QueryType ==
  /\ Empty \notin Query
  /\ \A q \in Query \cup {Empty} : q # Empty => q \in Query
  /\ \A q \in Query : q.id \in 1 .. MaxAsked /\ q.name \in Seq(STRING) /\ q.type \in STRING
  /\ \A q \in Query \cup {Empty} : q.name \in Seq(STRING)
  /\ Empty.name = <<>> /\ Empty.id = 0
  <1>1. \A q \in Query : q.id \in 1 .. MaxAsked /\ q.name \in Seq(STRING) /\ q.type \in STRING
    BY DEF Query
  <1>2. Empty.name = <<>> /\ Empty.id = 0
    BY DEF Empty
  <1>3. Empty \notin Query
    BY <1>1, <1>2, BoundsAssumption
  <1>4. <<>> \in Seq(STRING)
    OBVIOUS
  <1> QED BY <1>1, <1>2, <1>3, <1>4

LEMMA TypeInit == Init => TypeOK
  <1> SUFFICES ASSUME Init PROVE TypeOK
    OBVIOUS
  <1>1. Lines = <<>>
    BY DEF Init, Lines
  <1> QED BY <1>1, ConfigLength, BoundsAssumption DEF Init, TypeOK

(* The zones are named and hold records, whichever line comes next.        *)
LEMMA TypeLoad ==
  ASSUME TypeOK, NextZone \/ LoadLine
  PROVE  /\ file' \in 0 .. Len(Config) /\ line' \in 0 .. Len(Lines')
         /\ file' > 0 => cur_name' \in DOMAIN zones'
         /\ \A n \in DOMAIN zones' : n \in Seq(STRING) /\ zones'[n] \in Zone
         /\ DOMAIN zones \subseteq DOMAIN zones'
  <1> USE DEF TypeOK
  <1>1. CASE NextZone /\ file < Len(Config)
    <2>1. /\ file' = file + 1 /\ line' = 0 /\ cur_name' = Config[file + 1].root
          /\ zones' = Node(zones, cur_name')
      BY <1>1 DEF NextZone
    <2>2. file + 1 \in DOMAIN Config
      BY <1>1, Reading
    <2>3. cur_name' \in Seq(STRING)
      BY <2>1, <2>2, ConfigType
    <2>4. Len(Lines') \in Nat
      <3>1. Lines' = Config[file + 1].lines
        BY <2>1, ConfigLength DEF Lines
      <3>2. Config[file + 1].lines \in Seq(Line)
        BY <2>2, ConfigType
      <3> QED BY <3>1, <3>2
    <2>5. DOMAIN zones' = DOMAIN zones \cup {cur_name'} /\ \A m \in DOMAIN zones' : zones'[m] \in Zone
      BY <2>1, NodeType
    <2>6. file' \in 0 .. Len(Config) /\ line' \in 0 .. Len(Lines')
      BY <1>1, <2>1, <2>4, ConfigLength
    <2>7. \A n \in DOMAIN zones' : n \in Seq(STRING)
      BY <2>3, <2>5
    <2> QED BY <2>5, <2>6, <2>7
  <1>2. CASE NextZone /\ ~(file < Len(Config))
    BY <1>2 DEF NextZone, loadVars, Lines
  <1>3. CASE LoadLine
    <2> DEFINE l == Lines[line + 1]
    <2>1. /\ line < Len(Lines) /\ line' = line + 1 /\ file' = file
          /\ cur_name' = (IF OneChar(l.label) THEN cur_name ELSE l.label \o Root)
          /\ zones' = UpdateInfo(zones, cur_name', l)
      BY <1>3 DEF LoadLine
    <2>2. l \in Line /\ file > 0 /\ Root \in Seq(STRING) /\ Len(Lines) \in Nat
      BY <2>1, Reading
    <2>3. l.label \in Seq(STRING)
      BY <2>2 DEF Line
    <2> HIDE DEF l
    <2>4. cur_name' \in Seq(STRING)
      <3>1. cur_name \in Seq(STRING)
        BY <2>2
      <3>2. l.label \o Root \in Seq(STRING)
        BY <2>2, <2>3
      <3> QED BY <2>1, <3>1, <3>2
    <2>5. DOMAIN zones' = DOMAIN zones \cup {cur_name'} /\ \A m \in DOMAIN zones' : zones'[m] \in Zone
      <3>1. \A m \in DOMAIN zones : zones[m] \in Zone
        OBVIOUS
      <3>2. PICK n : n = cur_name'
        OBVIOUS
      <3>3. zones' = UpdateInfo(zones, n, l)
        BY <2>1, <3>2
      <3>4. DOMAIN UpdateInfo(zones, n, l) = DOMAIN zones \cup {n}
            /\ \A m \in DOMAIN zones \cup {n} : UpdateInfo(zones, n, l)[m] \in Zone
        BY <2>2, <3>1, Updated
      <3> QED BY <3>2, <3>3, <3>4
    <2>6. Lines' = Lines
      BY <2>1 DEF Lines
    <2>7. file' \in 0 .. Len(Config) /\ line' \in 0 .. Len(Lines')
      BY <2>1, <2>2, <2>6, ConfigLength
    <2>8. \A n \in DOMAIN zones' : n \in Seq(STRING)
      BY <2>4, <2>5
    <2> QED BY <2>5, <2>7, <2>8
  <1> QED BY <1>1, <1>2, <1>3

LEMMA TypeStep == TypeOK /\ [Next]_vars => TypeOK'
  <1> SUFFICES ASSUME TypeOK, [Next]_vars PROVE TypeOK'
    OBVIOUS
  <1>1. CASE NextZone \/ LoadLine
    <2>1. pc' \in {"load", "recv"} /\ UNCHANGED serveVars
      BY <1>1 DEF NextZone, LoadLine, TypeOK, loadVars, serveVars
    <2> QED BY <1>1, <2>1, TypeLoad DEF TypeOK, serveVars
  <1>2. ASSUME UNCHANGED loadVars PROVE Lines' = Lines
    BY <1>2 DEF Lines, loadVars
  <1>3. ASSUME Recv
        PROVE  /\ Head(inbox) \in Query \cup {Empty} /\ inbox' \in Seq(Query \cup {Empty})
               /\ Head(inbox).name # <<>> => Head(inbox) \in Query
    <2>1. Head(inbox) \in Query \cup {Empty} /\ inbox' \in Seq(Query \cup {Empty})
      BY <1>3 DEF Recv, TypeOK
    <2> QED BY <2>1, QueryType
  <1>4. CASE RecvEmpty
    BY <1>2, <1>3, <1>4 DEF RecvEmpty, TypeOK, loadVars, Ended
  <1>5. CASE RecvRoot
    BY <1>2, <1>3, <1>5 DEF RecvRoot, TypeOK, loadVars, Ended
  <1>6. CASE Answer
    <2> DEFINE q == Head(inbox)
    <2>1. RecvQuery /\ UNCHANGED <<loadVars, asked, query, free, other, replies>>
          /\ pc' \in {pc, "no node"}
          /\ \/ UNCHANGED sent
             \/ Reply(q.from, q.id, TRUE, StartQuery(q.name, q.type))
      BY <1>6 DEF Answer
    <2>2. q \in Query /\ inbox' \in Seq(Query \cup {Empty})
      BY <1>3, <2>1 DEF RecvQuery
    <2>3. \A r \in sent' : r.id \in 1 .. MaxAsked
      <3>1. q.id \in 1 .. MaxAsked
        BY <2>2, QueryType
      <3>2. PICK p : p = StartQuery(q.name, q.type)
        OBVIOUS
      <3> HIDE DEF q
      <3>3. UNCHANGED sent \/ Reply(q.from, q.id, TRUE, p)
        BY <2>1, <3>2
      <3> QED BY <3>1, <3>3 DEF Reply, TypeOK
    <2> HIDE DEF q
    <2> QED BY <1>2, <2>1, <2>2, <2>3 DEF TypeOK, loadVars, Ended
  <1>7. CASE Forward
    <2> DEFINE q == Head(inbox)
    <2>1. RecvQuery /\ UNCHANGED <<loadVars, asked, replies, sent>>
          /\ \/ UNCHANGED <<pc, query, free, other>>
             \/ /\ free > 0 /\ free' = free - 1 /\ query' = q
                /\ other' = other \cup {<<free, q>>} /\ pc' = "wait"
      BY <1>7 DEF Forward
    <2>2. q \in Query /\ inbox' \in Seq(Query \cup {Empty})
      BY <1>3, <2>1 DEF RecvQuery
    <2>3. free' \in 0 .. Sockets /\ other' \subseteq (1 .. Sockets) \X Query
      BY <2>1, <2>2, BoundsAssumption DEF TypeOK
    <2> HIDE DEF q
    <2> QED BY <1>2, <2>1, <2>2, <2>3 DEF TypeOK, loadVars
  <1>8. CASE Relay
    <2>1. PICK r \in replies : Reply(query.from, r[2].id, FALSE, r[2])
      BY <1>8 DEF Relay
    <2>2. r[2].id \in 1 .. MaxAsked
      BY QueryType DEF TypeOK
    <2>3. \A s \in sent' : s.id \in 1 .. MaxAsked
      BY <2>1, <2>2 DEF Reply, TypeOK
    <2> QED BY <1>2, <1>8, <2>3 DEF Relay, TypeOK, loadVars
  <1>9. CASE OtherReplies \/ Lose
    BY <1>2, <1>9 DEF OtherReplies, Lose, TypeOK, loadVars
  <1>10. ASSUME NEW c \in Client, Ask(c) PROVE TypeOK'
    <2>1. PICK q \in {[from |-> c, id |-> Len(asked) + 1, name |-> x[1], type |-> x[2]] :
                        x \in Questions} \cup {Empty} :
            asked' = Append(asked, q) /\ inbox' = Append(inbox, q)
      BY <1>10 DEF Ask
    <2>2. Len(asked) + 1 \in 1 .. MaxAsked
      BY <1>10, BoundsAssumption DEF Ask, TypeOK
    <2>3. q \in Query \cup {Empty}
      BY <2>2, ConfigAssumption DEF Query
    <2>4. asked' \in Seq(Query \cup {Empty}) /\ inbox' \in Seq(Query \cup {Empty})
      BY <2>1, <2>3 DEF TypeOK
    <2> QED BY <1>2, <1>10, <2>4 DEF Ask, TypeOK, loadVars
  <1>11. CASE UNCHANGED vars
    BY <1>2, <1>11 DEF vars, serveVars, loadVars, TypeOK
  <1> QED BY <1>1, <1>4, <1>5, <1>6, <1>7, <1>8, <1>9, <1>10, <1>11 DEF Next, Server

(* The loader always has a node for the name it stands at, the loop takes  *)
(* only queries with a name from its socket, and never a socket it has not *)
(* got.  (server.cpp:48, 68, 272, 287)                                     *)
THEOREM TypeCorrect == Spec => []TypeOK
  <1> QED BY TypeInit, TypeStep, PTL DEF Spec

-----------------------------------------------------------------------------
(***************************************************************************)
(* Who gets which reply.  The socket's queue is the end of what was asked, *)
(* so a query's number tells whether it was taken; the one forwarded last  *)
(* is the only one on the socket opened last.                              *)
(***************************************************************************)
Taken == Len(asked) - Len(inbox)

Numbered ==
  /\ \A j \in 1 .. Len(asked) : asked[j] = Empty \/ asked[j].id = j
  /\ Len(inbox) <= Len(asked)
  /\ \A k \in 1 .. Len(inbox) : inbox[k] = asked[Taken + k]

Forwarded ==
  /\ \A q \in other \cup replies :
       q[1] > free /\ q[2].id <= Taken /\ asked[q[2].id] = q[2]
  /\ pc = "wait" =>
       /\ query \in Query /\ query.id <= Taken /\ asked[query.id] = query
       /\ \A r \in sent : r.id # query.id
       /\ \A q \in other \cup replies : q[1] = free + 1 => q[2] = query

Exchange == /\ Numbered /\ Forwarded /\ AnswerToAsker
            /\ \A r \in sent : r.id <= Taken

(* A datagram is appended to both, one is taken from the front of inbox.   *)
LEMMA Arrival ==
  ASSUME TypeOK, Numbered, NEW c \in Client, Ask(c)
  PROVE  /\ Numbered' /\ Taken' = Taken /\ Taken <= Len(asked)
         /\ \A j \in 1 .. Taken : asked'[j] = asked[j]
  <1>1. PICK q : /\ q = Empty \/ q.id = Len(asked) + 1
                 /\ asked' = Append(asked, q) /\ inbox' = Append(inbox, q)
    BY DEF Ask
  <1>2. /\ Len(asked) \in Nat /\ Len(inbox) \in Nat
        /\ Len(asked') = Len(asked) + 1 /\ Len(inbox') = Len(inbox) + 1
    BY <1>1 DEF TypeOK
  <1>3. /\ \A j \in 1 .. Len(asked) : asked'[j] = asked[j]
        /\ asked'[Len(asked) + 1] = q
        /\ \A k \in 1 .. Len(inbox) : inbox'[k] = inbox[k]
        /\ inbox'[Len(inbox) + 1] = q
    BY <1>1 DEF TypeOK
  <1>4. Taken' = Taken /\ Taken \in 0 .. Len(asked)
    BY <1>2 DEF Taken, Numbered
  <1>5. ASSUME NEW k \in 1 .. Len(inbox')
        PROVE  inbox'[k] = asked'[Taken + k]
    <2>1. CASE k = Len(inbox) + 1
      <3>1. Taken + k = Len(asked) + 1
        BY <1>2, <2>1 DEF Taken
      <3> QED BY <1>3, <2>1, <3>1
    <2>2. CASE k \in 1 .. Len(inbox)
      <3>1. Taken + k \in 1 .. Len(asked)
        BY <1>2, <1>4, <2>2 DEF Taken
      <3> QED BY <1>3, <2>2, <3>1 DEF Numbered
    <2> QED BY <1>2, <2>1, <2>2
  <1>6. \A j \in 1 .. Len(asked') : asked'[j] = Empty \/ asked'[j].id = j
    BY <1>1, <1>2, <1>3 DEF Numbered
  <1> QED BY <1>2, <1>3, <1>4, <1>5, <1>6 DEF Numbered

LEMMA Departure ==
  ASSUME TypeOK, Numbered, Recv, UNCHANGED asked
  PROVE  /\ Numbered' /\ Taken' = Taken + 1 /\ Taken \in Nat /\ Taken + 1 \in 1 .. Len(asked)
         /\ Head(inbox) = asked[Taken + 1]
         /\ Head(inbox).name # <<>> => Head(inbox) \in Query /\ Head(inbox).id = Taken + 1
  <1>1. inbox \in Seq(Query \cup {Empty}) /\ inbox # <<>> /\ inbox' = Tail(inbox)
        /\ Len(asked) \in Nat
    BY DEF TypeOK, Recv
  <1>2. /\ Len(inbox) \in Nat /\ Len(inbox) > 0 /\ Len(inbox') = Len(inbox) - 1
        /\ \A k \in 1 .. Len(inbox) - 1 : inbox'[k] = inbox[k + 1]
        /\ Head(inbox) = inbox[1] /\ Head(inbox) \in Query \cup {Empty}
    BY <1>1
  <1>3. Taken' = Taken + 1 /\ Taken \in Nat /\ Taken + 1 \in 1 .. Len(asked)
    BY <1>1, <1>2 DEF Taken, Numbered
  <1>4. Head(inbox) = asked[Taken + 1]
    BY <1>2 DEF Numbered
  <1>5. Numbered'
    <2>1. ASSUME NEW k \in 1 .. Len(inbox')
          PROVE  inbox'[k] = asked[Taken' + k]
      <3>1. k + 1 \in 1 .. Len(inbox) /\ Taken + (k + 1) = Taken' + k
        BY <1>2, <1>3
      <3> QED BY <1>2, <3>1 DEF Numbered
    <2> QED BY <1>1, <1>2, <2>1 DEF Numbered
  <1>6. ASSUME Head(inbox).name # <<>>
        PROVE  Head(inbox) \in Query /\ Head(inbox).id = Taken + 1
    <2>1. Head(inbox) # Empty
      BY <1>6, QueryType
    <2> QED BY <1>2, <1>3, <1>4, <2>1, QueryType DEF Numbered
  <1> QED BY <1>3, <1>4, <1>5, <1>6

(* One more reply, to a query that had none.                               *)
LEMMA Replied ==
  ASSUME AnswerToAsker, UNCHANGED asked, NEW q \in Query, asked[q.id] = q,
         \A r \in sent : r.id # q.id, NEW own \in BOOLEAN, NEW packet, own \/ packet = q,
         Reply(q.from, q.id, own, packet)
  PROVE  AnswerToAsker'
  <1> DEFINE new == [to |-> q.from, id |-> q.id, own |-> own, packet |-> packet]
  <1>1. sent' = sent \cup {new}
    BY DEF Reply
  <1>2. new.to = q.from /\ new.id = q.id /\ (~new.own => new.packet = q)
    OBVIOUS
  <1> HIDE DEF new
  <1>3. ASSUME NEW r \in sent'
        PROVE  /\ r.to = asked[r.id].from
               /\ ~r.own => r.packet = asked[r.id]
               /\ \A s \in sent' : r.id = s.id => r = s
    <2>1. CASE r \in sent
      BY <1>1, <1>2, <2>1 DEF AnswerToAsker
    <2>2. CASE r = new
      BY <1>1, <1>2, <2>2
    <2> QED BY <1>1, <2>1, <2>2
  <1> QED BY <1>3 DEF AnswerToAsker

LEMMA ExchangeInit == Init => Exchange
  BY DEF Init, Exchange, Numbered, Forwarded, AnswerToAsker, Taken

LEMMA ExchangeStep == TypeOK /\ Exchange /\ [Next]_vars => Exchange'
  <1> SUFFICES ASSUME TypeOK, Exchange, [Next]_vars PROVE Exchange'
    OBVIOUS
  <1>1. CASE NextZone \/ LoadLine \/ UNCHANGED vars
    <2>1. UNCHANGED serveVars /\ (pc' = pc \/ pc' # "wait")
      BY <1>1 DEF NextZone, LoadLine, vars
    <2> QED BY <2>1 DEF serveVars, Exchange, Numbered, Forwarded, AnswerToAsker, Taken
  <1>2. CASE RecvEmpty \/ RecvRoot
    <2>1. /\ Recv /\ UNCHANGED <<asked, query, free, other, replies, sent>>
          /\ pc' # "wait"
      BY <1>2 DEF RecvEmpty, RecvRoot
    <2>2. Numbered' /\ Taken' = Taken + 1 /\ Taken \in Nat
      BY <2>1, Departure DEF Exchange
    <2>3. \A q \in other \cup replies : q[2].id \in Int
      BY QueryType DEF TypeOK
    <2>4. Forwarded'
      BY <2>1, <2>2, <2>3 DEF Exchange, Forwarded
    <2>5. AnswerToAsker' /\ \A r \in sent' : r.id <= Taken'
      BY <2>1, <2>2 DEF Exchange, AnswerToAsker, TypeOK
    <2> QED BY <2>2, <2>4, <2>5 DEF Exchange
  <1>3. CASE Answer \/ Forward
    <2>1. PICK q : q = Head(inbox)
      OBVIOUS
    <2>2. Recv /\ q.name # <<>> /\ UNCHANGED <<asked, replies>>
      BY <1>3, <2>1 DEF Answer, Forward, RecvQuery
    <2>3. /\ Numbered' /\ Taken' = Taken + 1 /\ Taken \in Nat
          /\ q = asked[Taken + 1] /\ q \in Query /\ q.id = Taken + 1
      BY <2>1, <2>2, Departure DEF Exchange
    <2>4. \A p \in other \cup replies : p[2].id \in Int /\ p[1] \in Int
      BY QueryType DEF TypeOK
    <2>5. \A r \in sent : r.id \in Int /\ r.id <= Taken /\ r.id # q.id
      BY <2>3 DEF TypeOK, Exchange
    <2>6. CASE Answer
      <3>1. PICK p : p = StartQuery(q.name, q.type)
        OBVIOUS
      <3>2. /\ UNCHANGED <<query, free, other>> /\ pc' # "wait"
            /\ UNCHANGED sent \/ Reply(q.from, q.id, TRUE, p)
        BY <2>1, <2>6, <3>1 DEF Answer, RecvQuery, Recv
      <3>3. Forwarded'
        BY <2>2, <2>3, <2>4, <3>2 DEF Exchange, Forwarded
      <3>4. AnswerToAsker'
        BY <2>2, <2>3, <2>5, <3>2, Replied DEF Exchange, AnswerToAsker
      <3>5. \A r \in sent' : r.id <= Taken'
        BY <2>3, <2>5, <3>2 DEF Reply
      <3> QED BY <2>3, <3>3, <3>4, <3>5 DEF Exchange
    <2>7. CASE Forward
      <3>1. AnswerToAsker' /\ \A r \in sent' : r.id <= Taken'
        BY <2>2, <2>3, <2>5, <2>7 DEF Forward, Exchange, AnswerToAsker
      <3>2. CASE UNCHANGED <<pc, query, free, other>>
        BY <2>2, <2>3, <2>4, <2>7, <3>1, <3>2 DEF Exchange, Forwarded, Forward, RecvQuery, Recv
      <3>3. CASE /\ free > 0 /\ free' = free - 1
                 /\ query' = q /\ other' = other \cup {<<free, q>>}
        <4>1. \A p \in other \cup replies : p[1] > free
          BY DEF Exchange, Forwarded
        <4>2. free \in Nat
          BY DEF TypeOK
        <4>3. ASSUME NEW p \in other' \cup replies'
              PROVE  /\ p[1] > free' /\ p[2].id <= Taken' /\ asked'[p[2].id] = p[2]
                     /\ p[1] = free' + 1 => p[2] = q
          <5>1. CASE p \in other \cup replies
            BY <2>2, <2>3, <2>4, <3>3, <4>1, <4>2, <5>1 DEF Exchange, Forwarded
          <5>2. CASE p = <<free, q>>
            BY <2>2, <2>3, <3>3, <4>2, <5>2
          <5> QED BY <2>2, <3>3, <5>1, <5>2
        <4>4. \A r \in sent' : r.id # q.id
          BY <2>5, <2>7 DEF Forward
        <4>5. Forwarded'
          BY <2>2, <2>3, <3>3, <4>3, <4>4 DEF Forwarded
        <4> QED BY <2>3, <3>1, <4>5 DEF Exchange
      <3> QED BY <2>1, <2>7, <3>2, <3>3 DEF Forward
    <2> QED BY <1>3, <2>6, <2>7
  <1>4. CASE Relay
    <2>1. /\ pc = "wait" /\ pc' = "recv"
          /\ UNCHANGED <<asked, inbox, query, free, other, replies>>
      BY <1>4 DEF Relay
    <2>2. PICK q \in replies : q[1] = free + 1 /\ Reply(query.from, q[2].id, FALSE, q[2])
      BY <1>4 DEF Relay
    <2>3. /\ q[2] = query /\ query \in Query /\ query.id <= Taken /\ asked[query.id] = query
          /\ \A r \in sent : r.id # query.id
      BY <2>1, <2>2 DEF Exchange, Forwarded
    <2>4. Numbered' /\ Taken' = Taken /\ Forwarded'
      BY <2>1 DEF Exchange, Numbered, Taken, Forwarded
    <2>5. PICK c : c = query
      OBVIOUS
    <2>6. c \in Query /\ asked[c.id] = c /\ (\A r \in sent : r.id # c.id)
          /\ Reply(c.from, c.id, FALSE, c)
      BY <2>2, <2>3, <2>5
    <2>7. AnswerToAsker'
      BY <2>1, <2>6, Replied DEF Exchange
    <2>8. \A r \in sent' : r.id <= Taken'
      BY <2>2, <2>3, <2>4 DEF Exchange, Reply
    <2> QED BY <2>4, <2>7, <2>8 DEF Exchange
  <1>5. CASE OtherReplies \/ Lose
    <2>1. /\ UNCHANGED <<pc, asked, inbox, query, free, sent>>
          /\ other' \cup replies' \subseteq other \cup replies
      BY <1>5 DEF OtherReplies, Lose
    <2> QED BY <2>1 DEF Exchange, Numbered, Taken, Forwarded, AnswerToAsker
  <1>6. ASSUME NEW c \in Client, Ask(c) PROVE Exchange'
    <2>1. /\ Numbered' /\ Taken' = Taken /\ Taken <= Len(asked)
          /\ \A j \in 1 .. Taken : asked'[j] = asked[j]
      BY <1>6, Arrival DEF Exchange
    <2>2. UNCHANGED <<pc, query, free, other, replies, sent>>
      BY <1>6 DEF Ask
    <2>3. \A q \in other \cup replies : q[2] \in Query /\ q[2].id \in 1 .. Taken
      BY QueryType DEF TypeOK, Exchange, Forwarded, Taken
    <2>4. pc = "wait" => query.id \in 1 .. Taken
      BY QueryType DEF Exchange, Forwarded, TypeOK, Taken
    <2>5. Forwarded'
      BY <2>1, <2>2, <2>3, <2>4 DEF Exchange, Forwarded
    <2>6. \A r \in sent : r.id \in 1 .. Taken
      BY DEF Exchange, TypeOK, Taken
    <2>7. AnswerToAsker' /\ \A r \in sent' : r.id <= Taken'
      BY <2>1, <2>2, <2>6 DEF Exchange, AnswerToAsker
    <2> QED BY <2>1, <2>5, <2>7 DEF Exchange
  <1> QED BY <1>1, <1>2, <1>3, <1>4, <1>5, <1>6 DEF Next, Server

(* One buffer and one client address serve the query, the forwarding and   *)
(* the reply, and no reply goes to the wrong client: while the server      *)
(* waits it takes no other query.  (server.cpp:276, 302-309)               *)
THEOREM EachToItsAsker == Spec => []AnswerToAsker
  <1>1. Exchange => AnswerToAsker
    BY DEF Exchange
  <1> QED BY <1>1, TypeInit, TypeStep, ExchangeInit, ExchangeStep, PTL DEF Spec

-----------------------------------------------------------------------------
(***************************************************************************)
(* Names and the names that they are below.                                *)
(***************************************************************************)
LEMMA SuffixIs ==
  ASSUME NEW n \in Seq(STRING), NEW k \in 0 .. Len(n)
  PROVE  /\ Suffix(n, k) \in Seq(STRING) /\ Len(Suffix(n, k)) = k
         /\ \A i \in 1 .. k : Suffix(n, k)[i] = n[Len(n) - k + i]
  <1> DEFINE d == Len(n) - k
  <1>1. Len(n) \in Nat /\ d \in Nat /\ d + 1 >= 1 /\ Len(n) = d + k
    OBVIOUS
  <1>2. Suffix(n, k) = SubSeq(n, d + 1, Len(n))
    BY DEF Suffix
  <1> HIDE DEF d
  <1>3. /\ SubSeq(n, d + 1, Len(n)) \in Seq(STRING)
        /\ Len(SubSeq(n, d + 1, Len(n))) = k
        /\ \A i \in 1 .. k : SubSeq(n, d + 1, Len(n))[i] = n[d + i]
    BY <1>1
  <1> QED BY <1>2, <1>3 DEF d

LEMMA EndsInIff ==
  ASSUME NEW n \in Seq(STRING), NEW z \in Seq(STRING)
  PROVE  EndsIn(n, z) <=> /\ Len(z) <= Len(n)
                          /\ \A i \in 1 .. Len(z) : n[Len(n) - Len(z) + i] = z[i]
  <1> SUFFICES ASSUME Len(z) <= Len(n)
               PROVE  Suffix(n, Len(z)) = z <=>
                        \A i \in 1 .. Len(z) : n[Len(n) - Len(z) + i] = z[i]
    BY DEF EndsIn
  <1>1. Len(z) \in 0 .. Len(n)
    OBVIOUS
  <1>2. PICK s : s = Suffix(n, Len(z))
    OBVIOUS
  <1>3. s \in Seq(STRING) /\ Len(s) = Len(z) /\ \A i \in 1 .. Len(z) : s[i] = n[Len(n) - Len(z) + i]
    BY <1>1, <1>2, SuffixIs
  <1>4. s = z <=> \A i \in 1 .. Len(z) : s[i] = z[i]
    BY <1>3, SeqEqual
  <1> QED BY <1>2, <1>3, <1>4

LEMMA Below ==
  ASSUME NEW a \in Seq(STRING), NEW z \in Seq(STRING)
  PROVE  EndsIn(a \o z, z)
  <1>1. /\ a \o z \in Seq(STRING) /\ Len(a \o z) = Len(a) + Len(z)
        /\ \A i \in 1 .. Len(z) : (a \o z)[Len(a) + i] = z[i]
    OBVIOUS
  <1>2. Len(a) \in Nat /\ Len(z) \in Nat
    OBVIOUS
  <1>3. Len(z) <= Len(a \o z) /\ Len(a \o z) - Len(z) = Len(a)
    BY <1>1, <1>2
  <1> QED BY <1>1, <1>3, EndsInIff

LEMMA OfItself ==
  ASSUME NEW z \in Seq(STRING) PROVE EndsIn(z, z)
  <1>1. Len(z) \in Nat
    OBVIOUS
  <1> QED BY <1>1, EndsInIff

LEMMA OfSuffix ==
  ASSUME NEW n \in Seq(STRING), NEW k \in 0 .. Len(n)
  PROVE  EndsIn(n, Suffix(n, k))
  <1>1. Len(n) \in Nat
    OBVIOUS
  <1> QED BY <1>1, SuffixIs DEF EndsIn

LEMMA EndsInTrans ==
  ASSUME NEW n \in Seq(STRING), NEW m \in Seq(STRING), NEW z \in Seq(STRING),
         EndsIn(n, m), EndsIn(m, z)
  PROVE  EndsIn(n, z)
  <1>1. Len(n) \in Nat /\ Len(m) \in Nat /\ Len(z) \in Nat
    OBVIOUS
  <1>2. /\ Len(m) <= Len(n) /\ Len(z) <= Len(m)
        /\ \A i \in 1 .. Len(m) : n[Len(n) - Len(m) + i] = m[i]
        /\ \A i \in 1 .. Len(z) : m[Len(m) - Len(z) + i] = z[i]
    BY EndsInIff
  <1>3. ASSUME NEW i \in 1 .. Len(z)
        PROVE  n[Len(n) - Len(z) + i] = z[i]
    <2> DEFINE j == Len(m) - Len(z) + i
    <2>1. j \in 1 .. Len(m) /\ Len(n) - Len(m) + j = Len(n) - Len(z) + i
      BY <1>1, <1>2
    <2> QED BY <1>2, <2>1
  <1> QED BY <1>1, <1>2, <1>3, EndsInIff

(* Of two ends of a name the longer ends in the shorter.                   *)
LEMMA Comparable ==
  ASSUME NEW n \in Seq(STRING), NEW m \in Seq(STRING), NEW z \in Seq(STRING),
         EndsIn(n, m), EndsIn(n, z), Len(z) <= Len(m)
  PROVE  EndsIn(m, z)
  <1>1. Len(n) \in Nat /\ Len(m) \in Nat /\ Len(z) \in Nat
    OBVIOUS
  <1>2. /\ Len(m) <= Len(n)
        /\ \A i \in 1 .. Len(m) : n[Len(n) - Len(m) + i] = m[i]
        /\ \A i \in 1 .. Len(z) : n[Len(n) - Len(z) + i] = z[i]
    BY EndsInIff
  <1>3. ASSUME NEW i \in 1 .. Len(z)
        PROVE  m[Len(m) - Len(z) + i] = z[i]
    <2> DEFINE j == Len(m) - Len(z) + i
    <2>1. j \in 1 .. Len(m) /\ Len(n) - Len(m) + j = Len(n) - Len(z) + i
      BY <1>1, <1>2
    <2> QED BY <1>2, <2>1
  <1> QED BY <1>3, EndsInIff

LEMMA RootsAre ==
  ASSUME NEW n
  PROVE  \A z : z \in RootsOf(n) <=> \E f \in DOMAIN Config : z = Config[f].root /\ EndsIn(n, z)
  BY DEF RootsOf, EndsIn

-----------------------------------------------------------------------------
(***************************************************************************)
(* Which names are the server's.  Every node is below the root of a zone   *)
(* that was opened, and each of these roots is a node, so that a name has  *)
(* a node among its ends exactly if it has a root.                         *)
(***************************************************************************)
Rooted ==
  /\ \A n \in DOMAIN zones :
       /\ n # <<>> /\ n # None
       /\ \E f \in 1 .. file : EndsIn(n, Config[f].root)
  /\ \A f \in 1 .. file : Config[f].root \in DOMAIN zones
  /\ pc # "load" => file = Len(Config) /\ line = Len(Lines)

LEMMA RootedInit == Init => Rooted
  BY DEF Init, Rooted

(* A label before a root makes neither the empty name nor None.            *)
LEMMA Longer ==
  ASSUME NEW a \in Seq(STRING), NEW z \in Seq(STRING), z # <<>>, z # None
  PROVE  a \o z # <<>> /\ a \o z # None
  <1>1. /\ Len(a) \in Nat /\ Len(z) \in Nat /\ Len(a \o z) = Len(a) + Len(z)
        /\ \A i \in 1 .. Len(z) : (a \o z)[Len(a) + i] = z[i]
    OBVIOUS
  <1>2. Len(z) > 0
    BY <1>1
  <1>3. a \o z # <<>>
    <2> SUFFICES ASSUME a \o z = <<>> PROVE FALSE
      OBVIOUS
    <2>1. Len(a \o z) = 0
      OBVIOUS
    <2> QED BY <1>1, <1>2, <2>1
  <1>4. ASSUME a \o z = None
        PROVE  FALSE
    <2>1. PICK e : e = ""
      OBVIOUS
    <2>2. None = <<e>> /\ Len(<<e>>) = 1 /\ <<e>>[1] = e
      BY <2>1 DEF None
    <2> HIDE DEF None
    <2>3. Len(z) = 1 /\ Len(a) = 0
      BY <1>1, <1>2, <1>4, <2>2
    <2>4. z[1] = e
      BY <1>1, <1>4, <2>2, <2>3
    <2>5. z = <<z[1]>>
      BY <2>3
    <2> QED BY <2>2, <2>4, <2>5
  <1> QED BY <1>3, <1>4

(* What loads the zones, and what leaves them alone.                       *)
LEMMA Phases ==
  [Next]_vars => \/ NextZone \/ LoadLine
                 \/ UNCHANGED loadVars /\ (pc' = pc \/ pc # "load")
  <1>1. RecvEmpty \/ RecvRoot => UNCHANGED loadVars /\ pc # "load"
    BY DEF RecvEmpty, RecvRoot, Recv
  <1>2. Answer => UNCHANGED loadVars /\ pc # "load"
    BY DEF Answer, RecvQuery, Recv
  <1>3. Forward => UNCHANGED loadVars /\ pc # "load"
    BY DEF Forward, RecvQuery, Recv
  <1>4. Relay => UNCHANGED loadVars /\ pc # "load"
    BY DEF Relay
  <1>5. OtherReplies \/ Lose => UNCHANGED loadVars /\ pc' = pc
    BY DEF OtherReplies, Lose
  <1>6. \A c \in Client : Ask(c) => UNCHANGED loadVars /\ pc' = pc
    BY DEF Ask
  <1>7. UNCHANGED vars => UNCHANGED loadVars /\ pc' = pc
    BY DEF vars
  <1> QED BY <1>1, <1>2, <1>3, <1>4, <1>5, <1>6, <1>7 DEF Next, Server

LEMMA RootedStep == TypeOK /\ Rooted /\ [Next]_vars => Rooted'
  <1> SUFFICES ASSUME TypeOK, Rooted, [Next]_vars PROVE Rooted'
    OBVIOUS
  <1>0. /\ file \in 0 .. Len(Config) /\ line \in 0 .. Len(Lines)
        /\ \A n \in DOMAIN zones : n \in Seq(STRING) /\ zones[n] \in Zone
        /\ file > 0 => cur_name \in DOMAIN zones
    BY DEF TypeOK
  <1>1. CASE NextZone /\ file < Len(Config)
    <2> DEFINE z == Config[file + 1].root
    <2>1. /\ file' = file + 1 /\ zones' = Node(zones, z) /\ pc' = "load"
      BY <1>1 DEF NextZone
    <2>2. z \in Seq(STRING) /\ z # <<>> /\ z # None /\ file + 1 \in DOMAIN Config
      BY <1>0, <1>1, Reading, ConfigType
    <2>3. DOMAIN zones' = DOMAIN zones \cup {z}
      BY <2>1 DEF Node
    <2>4. 1 .. file' = 1 .. file \cup {file + 1}
      BY <1>0, <2>1, ConfigLength
    <2>5. EndsIn(z, z)
      BY <2>2, OfItself
    <2> QED BY <2>1, <2>2, <2>3, <2>4, <2>5 DEF Rooted
  <1>2. CASE NextZone /\ ~(file < Len(Config))
    BY <1>2 DEF NextZone, loadVars, Rooted, Lines
  <1>3. CASE LoadLine
    <2> DEFINE l == Lines[line + 1]
    <2>1. /\ line < Len(Lines) /\ file' = file /\ pc' = "load"
          /\ cur_name' = (IF OneChar(l.label) THEN cur_name ELSE l.label \o Root)
          /\ zones' = UpdateInfo(zones, cur_name', l)
      BY <1>3 DEF LoadLine
    <2>2. /\ l \in Line /\ file > 0 /\ file \in DOMAIN Config /\ file \in 1 .. file
          /\ Root = Config[file].root
      BY <1>0, <2>1, Reading, ConfigLength DEF Root
    <2>3. l.label \in Seq(STRING)
      BY <2>2 DEF Line
    <2> HIDE DEF l
    <2>4. /\ cur_name' # <<>> /\ cur_name' # None
          /\ \E f \in 1 .. file : EndsIn(cur_name', Config[f].root)
      <3>1. CASE OneChar(l.label)
        BY <1>0, <2>1, <2>2, <3>1 DEF Rooted
      <3>2. CASE ~OneChar(l.label)
        <4>1. Root \in Seq(STRING) /\ Root # <<>> /\ Root # None
          BY <2>2, ConfigType
        <4>2. EndsIn(l.label \o Root, Root) /\ l.label \o Root # <<>> /\ l.label \o Root # None
          BY <2>3, <4>1, Below, Longer
        <4> QED BY <2>1, <2>2, <3>2, <4>2
      <3> QED BY <3>1, <3>2
    <2>5. DOMAIN zones' = DOMAIN zones \cup {cur_name'}
      <3>1. PICK n : n = cur_name'
        OBVIOUS
      <3>2. zones' = UpdateInfo(zones, n, l) /\ \A m \in DOMAIN zones : zones[m] \in Zone
        BY <1>0, <2>1, <3>1
      <3>3. DOMAIN UpdateInfo(zones, n, l) = DOMAIN zones \cup {n}
        BY <2>2, <3>2, Updated
      <3> QED BY <3>1, <3>2, <3>3
    <2> QED BY <2>1, <2>4, <2>5 DEF Rooted
  <1>4. CASE UNCHANGED loadVars /\ (pc' = pc \/ pc # "load")
    BY <1>4 DEF loadVars, Rooted, Lines
  <1> QED BY <1>1, <1>2, <1>3, <1>4, Phases

(* WellFoundedInduction's well-ordering of the natural numbers.            *)
LEMMA Least ==
  ASSUME NEW T, T \subseteq Nat, T # {}
  PROVE  \E x \in T : \A y \in T : x <= y
  <1>1. PICK x \in T : \A y \in T : ~(<<y, x>> \in OpToRel(<, Nat))
    BY WFMin, NatLessThanWellFounded, Zenon
  <1>2. ASSUME NEW y \in T
        PROVE  ~(y < x)
    <2>1. y \in Nat /\ x \in Nat
      OBVIOUS
    <2> QED BY <1>1, <2>1, Zenon DEF OpToRel
  <1> QED BY <1>2

(* The search finds the shortest end of the name that is a node; it is     *)
(* the root of a zone, and there is one exactly if the name is below one.  *)
LEMMA Search ==
  ASSUME TypeOK, Rooted, pc # "load", RootsLong, NEW n \in Seq(STRING)
  PROVE  /\ StartFromRoot(n) # None <=> RootsOf(n) # {}
         /\ RootsOf(n) # {} => StartFromRoot(n) \in RootsOf(n)
  <1>0. /\ Len(n) \in Nat /\ file = Len(Config) /\ DOMAIN Config = 1 .. file
        /\ \A m \in DOMAIN zones : m \in Seq(STRING)
    BY ConfigLength DEF Rooted, TypeOK
  <1>1. ASSUME NEW z \in RootsOf(n)
        PROVE  /\ z \in Seq(STRING) /\ EndsIn(n, z) /\ z \in DOMAIN zones
               /\ Len(z) \in Probes(n) /\ Suffix(n, Len(z)) = z
    <2>1. PICK f \in DOMAIN Config : z = Config[f].root /\ EndsIn(n, z)
      BY RootsAre
    <2>2. z \in Seq(STRING) /\ z # <<>> /\ z \in DOMAIN zones /\ ~OneChar(z)
      BY <1>0, <2>1, ConfigType DEF Rooted, RootsLong
    <2>3. Len(z) \in 1 .. Len(n) /\ Suffix(n, Len(z)) = z
      BY <1>0, <2>1, <2>2 DEF EndsIn
    <2>4. Len(n) = 1 => z = n
      <3> SUFFICES ASSUME Len(n) = 1 PROVE z = n
        OBVIOUS
      <3>1. Len(z) = Len(n) /\ \A i \in 1 .. Len(z) : n[Len(n) - Len(z) + i] = z[i]
        <4>1. Len(z) \in 1 .. 1
          BY <2>3
        <4>2. Len(z) = Len(n)
          BY <4>1
        <4> QED BY <2>1, <2>2, <4>2, EndsInIff
      <3>2. \A i \in 1 .. Len(z) : n[i] = z[i]
        BY <1>0, <3>1
      <3> QED BY <2>2, <3>1, <3>2, SeqEqual
    <2> QED BY <2>1, <2>2, <2>3, <2>4 DEF Probes
  <1>2. ASSUME Probes(n) # {}
        PROVE  /\ StartFromRoot(n) # None /\ StartFromRoot(n) \in RootsOf(n)
    <2>1. Probes(n) \subseteq Nat
      BY DEF Probes
    <2>2. \E k \in Probes(n) : \A j \in Probes(n) : k <= j
      BY <1>2, <2>1, Least
    <2>3. PICK k \in Probes(n) : /\ \A j \in Probes(n) : k <= j
                                /\ StartFromRoot(n) = Suffix(n, k)
      BY <1>2, <2>2 DEF StartFromRoot
    <2>4. k \in 1 .. Len(n) /\ Suffix(n, k) \in DOMAIN zones
      BY DEF Probes
    <2>5. PICK m : m = Suffix(n, k)
      OBVIOUS
    <2>6. m \in Seq(STRING) /\ Len(m) = k /\ EndsIn(n, m)
      BY <1>0, <2>4, <2>5, SuffixIs, OfSuffix
    <2>7. PICK f \in 1 .. file : EndsIn(m, Config[f].root)
      BY <2>4, <2>5 DEF Rooted
    <2> DEFINE z == Config[f].root
    <2>8. z \in Seq(STRING) /\ z \in RootsOf(n)
      <3>1. z \in Seq(STRING)
        BY <1>0, ConfigType
      <3>2. EndsIn(n, z)
        BY <2>6, <2>7, <3>1, EndsInTrans
      <3> QED BY <1>0, <3>1, <3>2, RootsAre
    <2> HIDE DEF z
    <2>9. Len(z) \in Probes(n) /\ Suffix(n, Len(z)) = z
      BY <1>1, <2>8
    <2>10. Len(z) = k
      <3>1. Len(z) <= Len(m)
        BY <2>7 DEF EndsIn, z
      <3> QED BY <2>1, <2>3, <2>6, <2>9, <3>1
    <2>11. StartFromRoot(n) = z
      BY <2>3, <2>9, <2>10
    <2> QED BY <1>1, <2>8, <2>11 DEF Rooted
  <1>3. Probes(n) = {} => StartFromRoot(n) = None
    BY DEF StartFromRoot
  <1> QED BY <1>1, <1>2, <1>3

LEMMA ForeignInit == Init => ForeignOnly
  BY DEF Init, ForeignOnly

LEMMA ForeignStep ==
  RootsLong /\ TypeOK /\ Exchange /\ Rooted /\ ForeignOnly /\ [Next]_vars => ForeignOnly'
  <1> SUFFICES ASSUME RootsLong, TypeOK, Exchange, Rooted, ForeignOnly, [Next]_vars
               PROVE  ForeignOnly'
    OBVIOUS
  <1>1. CASE UNCHANGED <<asked, sent>> /\ other' \cup replies' \subseteq other \cup replies
    BY <1>1 DEF ForeignOnly
  <1>2. CASE Answer \/ Forward
    <2>1. PICK q : q = Head(inbox)
      OBVIOUS
    <2>2. Recv /\ pc = "recv" /\ q.name # <<>> /\ UNCHANGED <<asked, replies>>
      BY <1>2, <2>1 DEF Answer, Forward, RecvQuery, Recv
    <2>3. q \in Query /\ q.id \in 1 .. Len(asked) /\ asked[q.id] = q
      BY <2>1, <2>2, Departure DEF Exchange
    <2>4. StartFromRoot(q.name) # None <=> RootsOf(q.name) # {}
      BY <2>2, <2>3, QueryType, Search
    <2>5. CASE Answer
      <3>1. PICK p : p = StartQuery(q.name, q.type)
        OBVIOUS
      <3>2. /\ StartFromRoot(q.name) # None /\ UNCHANGED other
            /\ UNCHANGED sent \/ Reply(q.from, q.id, TRUE, p)
        BY <2>1, <2>5, <3>1 DEF Answer
      <3>3. ASSUME NEW r \in sent'
            PROVE  r.own <=> RootsOf(asked[r.id].name) # {}
        <4>1. CASE r \in sent
          BY <4>1 DEF ForeignOnly
        <4>2. CASE r = [to |-> q.from, id |-> q.id, own |-> TRUE, packet |-> p]
          BY <2>3, <2>4, <3>2, <4>2
        <4> QED BY <3>2, <4>1, <4>2 DEF Reply
      <3> QED BY <2>2, <3>2, <3>3 DEF ForeignOnly
    <2>6. CASE Forward
      <3>1. StartFromRoot(q.name) = None /\ UNCHANGED sent
            /\ \A x \in other' : x \in other \/ x[2] = q
        BY <2>1, <2>6 DEF Forward
      <3>2. \A x \in other' \cup replies' : RootsOf(x[2].name) = {}
        BY <2>2, <2>4, <3>1 DEF ForeignOnly
      <3> QED BY <2>2, <3>1, <3>2 DEF ForeignOnly
    <2> QED BY <1>2, <2>5, <2>6
  <1>3. CASE Relay
    <2>1. UNCHANGED <<asked, other, replies>>
      BY <1>3 DEF Relay
    <2>2. PICK q \in replies : Reply(query.from, q[2].id, FALSE, q[2])
      BY <1>3 DEF Relay
    <2>3. asked[q[2].id] = q[2] /\ RootsOf(q[2].name) = {}
      BY DEF Exchange, Forwarded, ForeignOnly
    <2>4. ASSUME NEW r \in sent'
          PROVE  r.own <=> RootsOf(asked[r.id].name) # {}
      <3>1. CASE r \in sent
        BY <3>1 DEF ForeignOnly
      <3>2. CASE r = [to |-> query.from, id |-> q[2].id, own |-> FALSE, packet |-> q[2]]
        BY <2>3, <3>2
      <3> QED BY <2>2, <3>1, <3>2 DEF Reply
    <2> QED BY <2>1, <2>4 DEF ForeignOnly
  <1>4. ASSUME NEW c \in Client, Ask(c) PROVE ForeignOnly'
    <2>1. UNCHANGED <<other, replies, sent>>
      BY <1>4 DEF Ask
    <2>2. \A r \in sent : asked'[r.id] = asked[r.id]
      <3>1. \A r \in sent : r.id \in 1 .. Taken
        BY DEF Exchange, TypeOK, Taken
      <3> QED BY <1>4, <3>1, Arrival DEF Exchange
    <2> QED BY <2>1, <2>2 DEF ForeignOnly
  <1>5. [Next]_vars => \/ UNCHANGED <<asked, sent>> /\ other' \cup replies' \subseteq other \cup replies
                      \/ Answer \/ Forward \/ Relay \/ \E c \in Client : Ask(c)
    BY DEF Next, Server, NextZone, LoadLine, RecvEmpty, RecvRoot, OtherReplies, Lose, vars, serveVars
  <1> QED BY <1>1, <1>2, <1>3, <1>4, <1>5

(* The server answers itself exactly the names below its zones.            *)
(* (server.cpp:251)                                                        *)
THEOREM ForeignNamesOnly == RootsLong => (Spec => []ForeignOnly)
  <1> SUFFICES ASSUME RootsLong PROVE Spec => []ForeignOnly
    OBVIOUS
  <1> DEFINE Inv == TypeOK /\ Exchange /\ Rooted /\ ForeignOnly
  <1>1. Init => Inv
    BY TypeInit, ExchangeInit, RootedInit, ForeignInit
  <1>2. Inv /\ [Next]_vars => Inv'
    BY TypeStep, ExchangeStep, RootedStep, ForeignStep
  <1>3. Inv => ForeignOnly
    OBVIOUS
  <1> QED BY <1>1, <1>2, <1>3, PTL DEF Spec

-----------------------------------------------------------------------------
(***************************************************************************)
(* FlattenSeq.  Flat(s, n, f): f is its recursive function on the first n  *)
(* of the sequences in s, which is there and is the only one.              *)
(***************************************************************************)
Flat(s, n, f) == f = [i \in 1 .. n |-> IF i = 1 THEN s[i] ELSE f[i - 1] \o s[i]]

LEMMA ConcatElements ==
  ASSUME NEW S, NEW a \in Seq(S), NEW b \in Seq(S)
  PROVE  a \o b \in Seq(S) /\ ToSet(a \o b) = ToSet(a) \cup ToSet(b)
  <1> DEFINE c == a \o b
  <1>1. /\ Len(a) \in Nat /\ Len(b) \in Nat /\ c \in Seq(S) /\ Len(c) = Len(a) + Len(b)
        /\ DOMAIN a = 1 .. Len(a) /\ DOMAIN b = 1 .. Len(b) /\ DOMAIN c = 1 .. Len(c)
        /\ \A i \in 1 .. Len(a) : c[i] = a[i]
        /\ \A i \in 1 .. Len(b) : c[Len(a) + i] = b[i]
    OBVIOUS
  <1> HIDE DEF c
  <1>2. \A i \in 1 .. Len(c) : i \in 1 .. Len(a) \/ (i - Len(a) \in 1 .. Len(b) /\ Len(a) + (i - Len(a)) = i)
    BY <1>1
  <1>3. \A i \in DOMAIN c : c[i] \in ToSet(a) \cup ToSet(b)
    BY <1>1, <1>2 DEF ToSet
  <1>4. \A i \in DOMAIN a : a[i] \in ToSet(c)
    BY <1>1 DEF ToSet
  <1>5. \A i \in DOMAIN b : b[i] \in ToSet(c)
    <2>1. \A i \in 1 .. Len(b) : Len(a) + i \in 1 .. Len(c)
      BY <1>1
    <2> QED BY <1>1, <2>1 DEF ToSet
  <1>6. ToSet(c) = ToSet(a) \cup ToSet(b)
    BY <1>3, <1>4, <1>5 DEF ToSet
  <1> QED BY <1>1, <1>6 DEF c

LEMMA FlatExists ==
  ASSUME NEW s, NEW n \in Nat
  PROVE  \E f : Flat(s, n, f)
  <1> DEFINE T == {m \in Nat : ~ \E f : Flat(s, m, f)}
  <1> SUFFICES ASSUME T # {} PROVE FALSE
    OBVIOUS
  <1>1. PICK m \in T : \A k \in T : m <= k
    <2>1. T \subseteq Nat
      OBVIOUS
    <2> HIDE DEF T
    <2> QED BY <2>1, Least
  <1>2. m # 0
    <2>1. Flat(s, 0, [i \in 1 .. 0 |-> s[i]])
      BY DEF Flat
    <2> QED BY <2>1
  <1>3. m \in Nat /\ m - 1 \in Nat /\ m - 1 \notin T
    BY <1>1, <1>2
  <1>4. PICK f : Flat(s, m - 1, f)
    BY <1>3
  <1> DEFINE g == [i \in 1 .. m |-> IF i < m THEN f[i]
                                   ELSE IF i = 1 THEN s[i] ELSE f[i - 1] \o s[i]]
  <1>5. ASSUME NEW i \in 1 .. m
        PROVE  g[i] = IF i = 1 THEN s[i] ELSE g[i - 1] \o s[i]
    <2>1. CASE i < m
      <3>1. i \in 1 .. m - 1
        BY <1>3, <2>1
      <3>2. f[i] = IF i = 1 THEN s[i] ELSE f[i - 1] \o s[i]
        BY <1>4, <3>1 DEF Flat
      <3>3. i # 1 => i - 1 \in 1 .. m /\ i - 1 < m
        BY <1>3, <2>1
      <3> QED BY <2>1, <3>2, <3>3
    <2>2. CASE i = m
      <3>1. i # 1 => i - 1 \in 1 .. m /\ i - 1 < m
        BY <1>3, <2>2
      <3> QED BY <1>3, <2>2, <3>1
    <2> QED BY <1>3, <2>1, <2>2
  <1>6. Flat(s, m, g)
    BY <1>5 DEF Flat
  <1> QED BY <1>1, <1>6

LEMMA FlatAt ==
  ASSUME NEW s, NEW n, NEW f, Flat(s, n, f), NEW i \in 1 .. n
  PROVE  f[i] = IF i = 1 THEN s[i] ELSE f[i - 1] \o s[i]
  BY DEF Flat

LEMMA FlatUnique ==
  ASSUME NEW s, NEW t, NEW n \in Nat, NEW m \in Nat, NEW f, NEW g,
         Flat(s, n, f), Flat(t, m, g), n <= m, \A i \in 1 .. n : s[i] = t[i]
  PROVE  \A i \in 1 .. n : f[i] = g[i]
  <1> DEFINE T == {i \in Nat : i \in 1 .. n /\ f[i] # g[i]}
  <1> SUFFICES ASSUME T # {} PROVE FALSE
    OBVIOUS
  <1>1. PICK i \in T : \A j \in T : i <= j
    <2>1. T \subseteq Nat
      OBVIOUS
    <2> HIDE DEF T
    <2> QED BY <2>1, Least
  <1>2. i \in 1 .. n /\ i \in 1 .. m /\ f[i] # g[i]
    BY <1>1
  <1>3. f[i] = (IF i = 1 THEN s[i] ELSE f[i - 1] \o s[i])
    BY <1>2 DEF Flat
  <1>4. g[i] = (IF i = 1 THEN t[i] ELSE g[i - 1] \o t[i])
    BY <1>2 DEF Flat
  <1>5. i # 1 => f[i - 1] = g[i - 1]
    BY <1>1, <1>2
  <1> QED BY <1>2, <1>3, <1>4, <1>5

Cat(a, b) == a \o b
Same(s, t, n) == \A i \in 1 .. n : t[i] = s[i]
OneMore(s, t) == Len(t) = Len(s) + 1 /\ Same(s, t, Len(s))

LEMMA FlatOneMore ==
  ASSUME NEW s, NEW t, NEW n \in Nat, n # 0, Same(s, t, n),
         NEW f, NEW g, Flat(s, n, f), Flat(t, n + 1, g)
  PROVE  g[n + 1] = Cat(f[n], t[n + 1])
  <1> DEFINE m == n + 1
  <1>1. m \in Nat /\ n <= m /\ m \in 1 .. m /\ m # 1 /\ m - 1 = n /\ n \in 1 .. n
    OBVIOUS
  <1>2. Flat(t, m, g)
    OBVIOUS
  <1> HIDE DEF m
  <1>3. \A i \in 1 .. m : g[i] = IF i = 1 THEN t[i] ELSE g[i - 1] \o t[i]
    BY <1>2, FlatAt
  <1>4. g[m] = Cat(g[n], t[m])
    BY <1>1, <1>3 DEF Cat
  <1>5. \A i \in 1 .. n : f[i] = g[i]
    BY <1>1, <1>2, FlatUnique DEF Same
  <1> QED BY <1>1, <1>4, <1>5 DEF m

LEMMA FlattenIs ==
  ASSUME NEW s, Len(s) \in Nat
  PROVE  /\ Len(s) = 0 => FlattenSeq(s) = s
         /\ Len(s) # 0 => \E f : Flat(s, Len(s), f) /\ FlattenSeq(s) = f[Len(s)]
  <1>1. PICK f : Flat(s, Len(s), f)
    BY FlatExists
  <1> DEFINE g == CHOOSE h : h = [i \in 1 .. Len(s) |->
                                   IF i = 1 THEN s[i] ELSE h[i - 1] \o s[i]]
  <1>2. Flat(s, Len(s), g)
    BY <1>1 DEF Flat
  <1>3. Len(s) # 0 => FlattenSeq(s) = g[Len(s)]
    BY DEF FlattenSeq
  <1>4. Len(s) = 0 => FlattenSeq(s) = s
    BY DEF FlattenSeq
  <1> QED BY <1>2, <1>3, <1>4

(* One sequence more.                                                      *)
LEMMA FlattenOneMore ==
  ASSUME NEW S, NEW s \in Seq(Seq(S)), NEW t \in Seq(Seq(S)),
         OneMore(s, t)
  PROVE  FlattenSeq(t) = Cat(FlattenSeq(s), t[Len(t)])
  <1>a. PICK k : k = Len(s)
    OBVIOUS
  <1>b. PICK l : l = Len(t)
    OBVIOUS
  <1>0. k \in Nat /\ l \in Nat /\ l = k + 1 /\ l # 0 /\ l \in 1 .. l /\ l - 1 = k
        /\ Same(s, t, k)
    BY <1>a, <1>b DEF OneMore
  <1>1. PICK q : Flat(t, l, q) /\ FlattenSeq(t) = q[l]
    BY <1>b, <1>0, FlattenIs
  <1>2. t[l] \in Seq(S) /\ (k = 0 => s = <<>>)
    <2>1. t[l] \in Seq(S)
      <3>1. DOMAIN t = 1 .. Len(t) /\ \A i \in DOMAIN t : t[i] \in Seq(S)
        OBVIOUS
      <3> QED BY <1>b, <1>0, <3>1
    <2>2. k = 0 => s = <<>>
      <3>1. Len(s) = 0 => s = <<>>
        OBVIOUS
      <3> QED BY <1>a, <3>1
    <2> QED BY <2>1, <2>2
  <1>3. CASE k = 0
    <2>1. FlattenSeq(s) = <<>>
      BY <1>2, <1>3, FlattenIs
    <2>2. q[l] = t[l]
      BY <1>0, <1>1, <1>3 DEF Flat
    <2>3. Cat(<<>>, t[l]) = t[l]
      BY <1>2 DEF Cat
    <2> QED BY <1>b, <1>1, <2>1, <2>2, <2>3
  <1>4. CASE k # 0
    <2>1. PICK p : Flat(s, k, p) /\ FlattenSeq(s) = p[k]
      BY <1>a, <1>0, <1>4, FlattenIs
    <2>2. Flat(s, k, p) /\ Flat(t, k + 1, q) /\ Same(s, t, k)
      BY <1>0, <1>1, <2>1
    <2>3. q[k + 1] = Cat(p[k], t[k + 1])
      <3>1. k \in Nat
        BY <1>0
      <3> QED BY <1>4, <2>2, <3>1, FlatOneMore
    <2> QED BY <1>b, <1>0, <1>1, <2>1, <2>3
  <1> QED BY <1>3, <1>4

(* Its elements are those of the sequences.                                *)
LEMMA FlattenElements ==
  ASSUME NEW S, NEW s \in Seq(Seq(S))
  PROVE  /\ FlattenSeq(s) \in Seq(S)
         /\ ToSet(FlattenSeq(s)) = UNION {ToSet(s[i]) : i \in DOMAIN s}
  <1>0. Len(s) \in Nat /\ DOMAIN s = 1 .. Len(s) /\ \A i \in 1 .. Len(s) : s[i] \in Seq(S)
    OBVIOUS
  <1>1. CASE Len(s) = 0
    <2>1. FlattenSeq(s) = <<>> /\ s = <<>>
      BY <1>0, <1>1, FlattenIs
    <2> QED BY <2>1 DEF ToSet
  <1>2. CASE Len(s) # 0
    <2>1. PICK f : Flat(s, Len(s), f) /\ FlattenSeq(s) = f[Len(s)]
      BY <1>0, <1>2, FlattenIs
    <2> DEFINE Fine(i) == f[i] \in Seq(S) /\ ToSet(f[i]) = UNION {ToSet(s[j]) : j \in 1 .. i}
               T == {i \in Nat : i \in 1 .. Len(s) /\ ~Fine(i)}
    <2>2. T = {}
      <3> SUFFICES ASSUME T # {} PROVE FALSE
        OBVIOUS
      <3>1. PICK i \in T : \A j \in T : i <= j
        <4>1. T \subseteq Nat
          OBVIOUS
        <4> HIDE DEF T
        <4> QED BY <4>1, Least
      <3>2. i \in 1 .. Len(s) /\ ~Fine(i) /\ s[i] \in Seq(S)
        BY <1>0, <3>1
      <3>3. CASE i = 1
        <4>1. f[i] = s[i] /\ 1 .. i = {i}
          BY <2>1, <3>2, <3>3 DEF Flat
        <4> QED BY <3>2, <4>1
      <3>4. CASE i # 1
        <4>1. i - 1 \in 1 .. Len(s) /\ i - 1 \in Nat /\ ~(i <= i - 1)
          BY <1>0, <3>2, <3>4
        <4>2. Fine(i - 1)
          <5> HIDE DEF Fine
          <5> QED BY <3>1, <4>1
        <4> HIDE DEF T
        <4>3. f[i] = f[i - 1] \o s[i]
          BY <2>1, <3>2, <3>4 DEF Flat
        <4>4. f[i] \in Seq(S) /\ ToSet(f[i]) = ToSet(f[i - 1]) \cup ToSet(s[i])
          BY <3>2, <4>2, <4>3, ConcatElements
        <4>5. 1 .. i = 1 .. i - 1 \cup {i}
          BY <3>2
        <4>6. UNION {ToSet(s[j]) : j \in 1 .. i}
                = (UNION {ToSet(s[j]) : j \in 1 .. i - 1}) \cup ToSet(s[i])
          BY <4>5
        <4> QED BY <3>2, <4>2, <4>4, <4>6
      <3> QED BY <3>3, <3>4
    <2>3. Len(s) \in Nat /\ Len(s) \in 1 .. Len(s)
      BY <1>0, <1>2
    <2>4. Fine(Len(s))
      <3> HIDE DEF Fine
      <3> QED BY <2>2, <2>3
    <2> QED BY <1>0, <2>1, <2>4
  <1> QED BY <1>1, <1>2

(* The first n of the sequences in F, one after the other.                 *)
UpTo(F, n) == FlattenSeq([i \in 1 .. n |-> F[i]])

LEMMA UpToNone ==
  ASSUME NEW F PROVE UpTo(F, 0) = <<>>
  <1>1. PICK s : s = [i \in 1 .. 0 |-> F[i]]
    OBVIOUS
  <1>2. s = <<>>
    BY <1>1
  <1>3. Len(s) \in Nat /\ Len(s) = 0
    BY <1>2
  <1> QED BY <1>1, <1>2, <1>3, FlattenIs DEF UpTo

LEMMA UpToMore ==
  ASSUME NEW S, NEW F, NEW n \in Nat, \A i \in 1 .. n + 1 : F[i] \in Seq(S)
  PROVE  /\ UpTo(F, n) \in Seq(S) /\ UpTo(F, n + 1) \in Seq(S)
         /\ UpTo(F, n + 1) = Cat(UpTo(F, n), F[n + 1])
  <1> DEFINE s == [i \in 1 .. n |-> F[i]]
             t == [i \in 1 .. n + 1 |-> F[i]]
  <1>1. s \in Seq(Seq(S)) /\ t \in Seq(Seq(S))
    OBVIOUS
  <1>2. OneMore(s, t)
    BY <1>1 DEF OneMore, Same
  <1>3. t[Len(t)] = F[n + 1]
    BY <1>1
  <1>4. UpTo(F, n) = FlattenSeq(s) /\ UpTo(F, n + 1) = FlattenSeq(t)
    BY DEF UpTo
  <1> HIDE DEF s, t
  <1>5. FlattenSeq(t) = Cat(FlattenSeq(s), t[Len(t)])
    BY <1>1, <1>2, FlattenOneMore
  <1>6. FlattenSeq(s) \in Seq(S) /\ FlattenSeq(t) \in Seq(S)
    BY <1>1, FlattenElements
  <1> QED BY <1>3, <1>4, <1>5, <1>6

-----------------------------------------------------------------------------
(***************************************************************************)
(* The zones hold what the files say: while they are loaded, what the      *)
(* files up to this one and the lines up to this one say.                  *)
(***************************************************************************)
Said(f, k, n, t) ==
  IF Owner(f, k) = n /\ Config[f].lines[k].type = t THEN <<Config[f].lines[k].rdata>> ELSE <<>>
FileSays(f, n, t) == [k \in DOMAIN Config[f].lines |-> Said(f, k, n, t)]
Part(f, j, n, t) == UpTo(FileSays(f, n, t), j)
FilesSay(n, t) == [f \in DOMAIN Config |-> FlattenSeq(FileSays(f, n, t))]
Whole(j, n, t) == UpTo(FilesSay(n, t), j)

(* Of the SOA records only the last is kept.                               *)
Kept(t, all) == IF t = "SOA" /\ all # <<>> THEN <<all[Len(all)]>> ELSE all

Read(f) == IF f < file THEN Len(Config[f].lines) ELSE line
Gathered(n, t) ==
  IF file = 0 THEN <<>> ELSE Cat(Whole(file - 1, n, t), Part(file, line, n, t))
Held(n, t) == IF n \in DOMAIN zones THEN zones[n].rrs[t] ELSE <<>>

Filled ==
  /\ line > 0 => cur_name = Owner(file, line)
  /\ file > 0 /\ line = 0 => cur_name = Config[file].root
  /\ \A n \in DOMAIN zones :
       \E f \in 1 .. file : n = Config[f].root \/ \E k \in 1 .. Read(f) : n = Owner(f, k)
  /\ \A f \in 1 .. file :
       /\ Config[f].root \in DOMAIN zones
       /\ \A k \in 1 .. Read(f) : Owner(f, k) \in DOMAIN zones
  /\ \A n \in Seq(STRING), t \in Types : Held(n, t) = Kept(t, Gathered(n, t))

Data == Seq(STRING)

LEMMA SaidType ==
  ASSUME NEW f \in DOMAIN Config, NEW k \in DOMAIN Config[f].lines, NEW n, NEW t
  PROVE  Said(f, k, n, t) \in Seq(Data)
  <1>1. Config[f].lines[k].rdata \in Data
    BY ConfigType DEF Data
  <1> HIDE DEF Data
  <1>2. <<Config[f].lines[k].rdata>> \in Seq(Data) /\ <<>> \in Seq(Data)
    BY <1>1
  <1> QED BY <1>2 DEF Said

LEMMA LinesLength ==
  ASSUME NEW f \in DOMAIN Config
  PROVE  Len(Config[f].lines) \in Nat /\ DOMAIN Config[f].lines = 1 .. Len(Config[f].lines)
  <1>1. Config[f].lines \in Seq(Line)
    BY ConfigType
  <1> QED BY <1>1

LEMMA PartMore ==
  ASSUME NEW f \in DOMAIN Config, NEW j \in Nat, j < Len(Config[f].lines), NEW n, NEW t
  PROVE  /\ Part(f, j, n, t) \in Seq(Data) /\ Part(f, j + 1, n, t) \in Seq(Data)
         /\ Part(f, j + 1, n, t) = Cat(Part(f, j, n, t), Said(f, j + 1, n, t))
  <1>1. PICK F : F = FileSays(f, n, t)
    OBVIOUS
  <1>2. \A k \in DOMAIN Config[f].lines : F[k] = Said(f, k, n, t) /\ F[k] \in Seq(Data)
    BY <1>1, SaidType DEF FileSays
  <1>3. \A k \in 1 .. j + 1 : k \in DOMAIN Config[f].lines
    BY LinesLength
  <1>4. \A k \in 1 .. j + 1 : F[k] \in Seq(Data)
    BY <1>2, <1>3
  <1>5. F[j + 1] = Said(f, j + 1, n, t)
    BY <1>2, <1>3
  <1>6. /\ UpTo(F, j) \in Seq(Data) /\ UpTo(F, j + 1) \in Seq(Data)
        /\ UpTo(F, j + 1) = Cat(UpTo(F, j), F[j + 1])
    BY <1>4, UpToMore
  <1> QED BY <1>1, <1>5, <1>6 DEF Part

LEMMA FileSaysAll ==
  ASSUME NEW f \in DOMAIN Config, NEW n, NEW t
  PROVE  /\ FlattenSeq(FileSays(f, n, t)) = Part(f, Len(Config[f].lines), n, t)
         /\ FlattenSeq(FileSays(f, n, t)) \in Seq(Data)
  <1>1. PICK F : F = FileSays(f, n, t)
    OBVIOUS
  <1>2. PICK d : d = Len(Config[f].lines)
    OBVIOUS
  <1>3. d \in Nat /\ DOMAIN Config[f].lines = 1 .. d
    BY <1>2, LinesLength
  <1>4. /\ F = [k \in 1 .. d |-> F[k]]
        /\ \A k \in 1 .. d : F[k] \in Seq(Data)
    BY <1>1, <1>3, SaidType DEF FileSays
  <1>5. F \in Seq(Seq(Data))
    BY <1>3, <1>4
  <1>6. FlattenSeq(F) \in Seq(Data)
    BY <1>5, FlattenElements
  <1>7. FlattenSeq(F) = UpTo(F, d)
    BY <1>4 DEF UpTo
  <1> QED BY <1>1, <1>2, <1>6, <1>7 DEF Part

LEMMA WholeMore ==
  ASSUME NEW f \in Nat, f < Len(Config), NEW n, NEW t
  PROVE  /\ Whole(f, n, t) \in Seq(Data) /\ Whole(f + 1, n, t) \in Seq(Data)
         /\ Whole(f + 1, n, t) = Cat(Whole(f, n, t), Part(f + 1, Len(Config[f + 1].lines), n, t))
  <1>1. PICK F : F = FilesSay(n, t)
    OBVIOUS
  <1>2. \A g \in DOMAIN Config : F[g] = Part(g, Len(Config[g].lines), n, t) /\ F[g] \in Seq(Data)
    BY <1>1, FileSaysAll DEF FilesSay
  <1>3. \A g \in 1 .. f + 1 : g \in DOMAIN Config
    BY ConfigLength
  <1>4. \A g \in 1 .. f + 1 : F[g] \in Seq(Data)
    BY <1>2, <1>3
  <1>5. F[f + 1] = Part(f + 1, Len(Config[f + 1].lines), n, t)
    BY <1>2, <1>3
  <1>6. /\ UpTo(F, f) \in Seq(Data) /\ UpTo(F, f + 1) \in Seq(Data)
        /\ UpTo(F, f + 1) = Cat(UpTo(F, f), F[f + 1])
    BY <1>4, UpToMore
  <1> QED BY <1>1, <1>5, <1>6 DEF Whole

LEMMA CatFacts ==
  ASSUME NEW S, NEW a \in Seq(S), NEW b \in Seq(S), NEW x \in S
  PROVE  /\ Cat(a, <<>>) = a /\ Cat(<<>>, a) = a /\ Cat(a, b) \in Seq(S)
         /\ Cat(a, Cat(b, <<x>>)) = Append(Cat(a, b), x)
  BY DEF Cat

LEMMA KeptAppend ==
  ASSUME NEW S, NEW a \in Seq(S), NEW x \in S, NEW t
  PROVE  Kept(t, Append(a, x)) = IF t = "SOA" THEN <<x>> ELSE Append(Kept(t, a), x)
  <1>1. PICK b : b = Append(a, x)
    OBVIOUS
  <1>2. b # <<>> /\ b[Len(b)] = x
    BY <1>1
  <1> QED BY <1>1, <1>2 DEF Kept

LEMMA FilledInit == Init => Filled
  <1> SUFFICES ASSUME Init PROVE Filled
    OBVIOUS
  <1>1. \A n, t : Gathered(n, t) = <<>> /\ Held(n, t) = <<>>
    BY DEF Init, Gathered, Held
  <1>2. \A t : Kept(t, <<>>) = <<>>
    BY DEF Kept
  <1> QED BY <1>1, <1>2 DEF Init, Filled

(* The name that a line is about: '@' repeats the root.                    *)
LEMMA NameOfLine ==
  ASSUME TypeOK, WellWritten, Filled, line < Len(Lines)
  PROVE  (IF OneChar(Lines[line + 1].label) THEN cur_name ELSE Lines[line + 1].label \o Root)
           = Owner(file, line + 1)
  <1>0. /\ file \in DOMAIN Config /\ file > 0 /\ Lines = Config[file].lines
        /\ line \in Nat /\ line + 1 \in DOMAIN Lines /\ Root = Config[file].root
    BY Reading DEF TypeOK, Root
  <1>1. Owner(file, line + 1) = Lines[line + 1].label \o Root
    BY <1>0 DEF Owner
  <1>2. CASE OneChar(Lines[line + 1].label)
    <2>1. Lines[line + 1].label = At
      BY <1>0, <1>2 DEF WellWritten
    <2>2. At \o Root = Root
      <3>1. Root \in Seq(STRING)
        BY <1>0, ConfigType
      <3> QED BY <3>1 DEF At
    <2>3. CASE line = 0
      BY <1>0, <1>1, <1>2, <2>1, <2>2, <2>3 DEF Filled
    <2>4. CASE line > 0
      <3>1. line \in DOMAIN Lines /\ line < line + 1
        BY <1>0, <2>4, LinesLength
      <3>2. Lines[line].label = At
        BY <1>0, <2>1, <3>1 DEF WellWritten
      <3>3. cur_name = Lines[line].label \o Root
        BY <1>0, <2>4 DEF Filled, Owner
      <3> QED BY <1>1, <1>2, <2>1, <3>2, <3>3
    <2> QED BY <1>0, <2>3, <2>4
  <1>3. CASE ~OneChar(Lines[line + 1].label)
    BY <1>1, <1>3
  <1> QED BY <1>2, <1>3

(* A zone file is opened when all of the one before is gathered.           *)
LEMMA FilledOpen ==
  ASSUME TypeOK, Filled, NextZone, file < Len(Config)
  PROVE  Filled'
  <1> DEFINE z == Config[file + 1].root
  <1>1. /\ file' = file + 1 /\ line' = 0 /\ line = Len(Lines)
        /\ cur_name' = z /\ zones' = Node(zones, z)
    BY DEF NextZone
  <1>2. /\ file + 1 \in DOMAIN Config /\ file \in Nat /\ z \in Seq(STRING)
        /\ file > 0 => file \in DOMAIN Config
    <2>1. file \in 0 .. Len(Config) /\ line \in 0 .. Len(Lines)
      BY DEF TypeOK
    <2>2. file + 1 \in DOMAIN Config /\ (file > 0 => file \in DOMAIN Config)
      BY <2>1, Reading
    <2>3. z \in Seq(STRING)
      BY <2>2, ConfigType
    <2> QED BY <2>1, <2>2, <2>3, ConfigLength
  <1>3. /\ DOMAIN zones' = DOMAIN zones \cup {z}
        /\ \A m \in DOMAIN zones : zones'[m] = zones[m]
        /\ z \notin DOMAIN zones => zones'[z] = NoRecords
    BY <1>1 DEF Node
  <1> HIDE DEF z
  <1>4. ASSUME NEW f \in 1 .. file
        PROVE  Read(f)' = Read(f) /\ f \in 1 .. file'
    <2>1. f < file' /\ f \in 1 .. file'
      BY <1>1, <1>2
    <2>2. f # file => f < file
      BY <1>2
    <2> QED BY <1>1, <1>2, <2>1, <2>2 DEF Read, Lines
  <1>5. PICK new : new = file + 1
    OBVIOUS
  <1>6. /\ z = Config[new].root /\ Read(new)' = 0
        /\ new \in 1 .. file' /\ \A f \in 1 .. file' : f \in 1 .. file \/ f = new
    BY <1>1, <1>2, <1>5 DEF Read, z
  <1>7. ASSUME NEW n \in DOMAIN zones'
        PROVE  \E f \in 1 .. file' :
                 n = Config[f].root \/ \E k \in 1 .. Read(f)' : n = Owner(f, k)
    <2>1. CASE n = z
      BY <1>6, <2>1
    <2>2. CASE n \in DOMAIN zones
      <3>1. PICK f \in 1 .. file : n = Config[f].root \/ \E k \in 1 .. Read(f) : n = Owner(f, k)
        BY <2>2 DEF Filled
      <3> QED BY <1>4, <3>1
    <2> QED BY <1>3, <2>1, <2>2
  <1>8. ASSUME NEW f \in 1 .. file'
        PROVE  /\ Config[f].root \in DOMAIN zones'
               /\ \A k \in 1 .. Read(f)' : Owner(f, k) \in DOMAIN zones'
    <2>1. CASE f = new
      BY <1>3, <1>6, <2>1
    <2>2. CASE f \in 1 .. file
      BY <1>3, <1>4, <2>2 DEF Filled
    <2> QED BY <1>6, <2>1, <2>2
  <1>9. ASSUME NEW n \in Seq(STRING), NEW t \in Types
        PROVE  Held(n, t)' = Kept(t, Gathered(n, t)')
    <2>1. Held(n, t)' = Held(n, t)
      <3>1. NoRecords.rrs[t] = <<>>
        BY DEF NoRecords
      <3> QED BY <1>3, <3>1 DEF Held
    <2>2. Gathered(n, t)' = Gathered(n, t)
      <3>1. Gathered(n, t)' = Cat(Whole(file, n, t), Part(file + 1, 0, n, t))
        BY <1>1, <1>2 DEF Gathered
      <3>2. Part(file + 1, 0, n, t) = <<>>
        BY UpToNone DEF Part
      <3>3. CASE file = 0
        <4>1. Whole(file, n, t) = <<>>
          BY <3>3, UpToNone DEF Whole
        <4>2. Cat(<<>>, <<>>) = <<>>
          BY DEF Cat
        <4> QED BY <3>1, <3>2, <3>3, <4>1, <4>2 DEF Gathered
      <3>4. CASE file > 0
        <4>1. /\ file - 1 \in Nat /\ file - 1 < Len(Config) /\ (file - 1) + 1 = file
              /\ Lines = Config[file].lines
          BY <1>2, <3>4, ConfigLength DEF Lines
        <4>2. /\ Whole(file, n, t) \in Seq(Data)
              /\ Whole(file, n, t) = Cat(Whole(file - 1, n, t), Part(file, Len(Lines), n, t))
          BY <4>1, WholeMore
        <4>3. Cat(Whole(file, n, t), <<>>) = Whole(file, n, t)
          BY <4>2 DEF Cat
        <4> QED BY <1>1, <3>1, <3>2, <3>4, <4>2, <4>3 DEF Gathered
      <3> QED BY <1>2, <3>3, <3>4
    <2> QED BY <2>1, <2>2 DEF Filled
  <1>10. cur_name' = Config[file'].root /\ ~(line' > 0)
    BY <1>1 DEF z
  <1> QED BY <1>7, <1>8, <1>9, <1>10 DEF Filled

(* A line adds to the node that it names, after what is there.             *)
LEMMA FilledLine ==
  ASSUME TypeOK, WellWritten, Filled, LoadLine
  PROVE  Filled'
  <1>1. PICK l : l = Lines[line + 1]
    OBVIOUS
  <1>2. PICK o : o = Owner(file, line + 1)
    OBVIOUS
  <1>3. /\ line < Len(Lines) /\ line' = line + 1 /\ file' = file
        /\ cur_name' = o /\ zones' = UpdateInfo(zones, o, l)
    BY <1>1, <1>2, NameOfLine DEF LoadLine
  <1>4. /\ l \in Line /\ file > 0 /\ file \in DOMAIN Config /\ file \in Nat /\ line \in Nat
        /\ Lines = Config[file].lines /\ line + 1 \in DOMAIN Config[file].lines
        /\ \A m \in DOMAIN zones : zones[m] \in Zone
    <2>1. /\ file \in 0 .. Len(Config) /\ line \in 0 .. Len(Lines)
          /\ \A m \in DOMAIN zones : zones[m] \in Zone
      BY DEF TypeOK
    <2> QED BY <1>1, <1>3, <2>1, Reading, ConfigLength
  <1>5. /\ DOMAIN zones' = DOMAIN zones \cup {o}
        /\ zones'[o] = Added(Old(zones, o), l)
        /\ \A m \in DOMAIN zones \ {o} : zones'[m] = zones[m]
    <2>1. l \in Line /\ \A m \in DOMAIN zones : zones[m] \in Zone
      BY <1>4
    <2>2. DOMAIN UpdateInfo(zones, o, l) = DOMAIN zones \cup {o}
      BY <2>1, Updated
    <2>3. UpdateInfo(zones, o, l)[o] = Added(Old(zones, o), l)
      BY <2>1, UpdatedNode
    <2>4. \A m \in DOMAIN zones \ {o} : UpdateInfo(zones, o, l)[m] = zones[m]
      BY <2>1, Updated
    <2> QED BY <1>3, <2>2, <2>3, <2>4
  <1>6. \A f \in 1 .. file : f # file => Read(f)' = Read(f)
    BY <1>3, <1>4 DEF Read
  <1>7. PICK k \in Nat : k = line + 1
    BY <1>4
  <1>8. /\ file \in 1 .. file /\ o = Owner(file, k) /\ k \in 1 .. k
        /\ Read(file)' = k /\ Read(file) = line
        /\ \A j : j \in 1 .. k <=> j \in 1 .. line \/ j = k
    BY <1>2, <1>3, <1>4, <1>7 DEF Read
  <1>9. ASSUME NEW n \in DOMAIN zones'
        PROVE  \E f \in 1 .. file : n = Config[f].root \/ \E j \in 1 .. Read(f)' : n = Owner(f, j)
    <2>1. CASE n = o
      <3>1. \E j \in 1 .. Read(file)' : n = Owner(file, j)
        BY <1>8, <2>1
      <3>2. PICK f : f = file
        OBVIOUS
      <3>3. f \in 1 .. file /\ Read(f)' = Read(file)'
        BY <1>3, <1>8, <3>2 DEF Read
      <3> QED BY <3>1, <3>2, <3>3
    <2>2. CASE n \in DOMAIN zones
      <3>1. PICK f \in 1 .. file : n = Config[f].root \/ \E j \in 1 .. Read(f) : n = Owner(f, j)
        BY <2>2 DEF Filled
      <3>2. \A j \in 1 .. Read(f) : j \in 1 .. Read(f)'
        <4>1. CASE f # file
          BY <1>6, <4>1
        <4>2. CASE f = file
          BY <1>3, <1>4, <4>2 DEF Read
        <4> QED BY <4>1, <4>2
      <3> QED BY <3>1, <3>2
    <2> QED BY <1>5, <2>1, <2>2
  <1>10. ASSUME NEW f \in 1 .. file
         PROVE  /\ Config[f].root \in DOMAIN zones'
                /\ \A j \in 1 .. Read(f)' : Owner(f, j) \in DOMAIN zones'
    <2>1. /\ Config[f].root \in DOMAIN zones
          /\ \A j \in 1 .. Read(f) : Owner(f, j) \in DOMAIN zones
      BY DEF Filled
    <2>2. CASE f # file
      BY <1>5, <1>6, <2>1, <2>2
    <2>3. CASE f = file
      <3>1. Read(f)' = k /\ Read(f) = line
        BY <1>3, <1>4, <1>7, <2>3 DEF Read
      <3> QED BY <1>5, <1>8, <2>1, <2>3, <3>1
    <2> QED BY <2>2, <2>3
  <1>11. ASSUME NEW n \in Seq(STRING), NEW t \in Types
         PROVE  Held(n, t)' = Kept(t, Gathered(n, t)')
    <2> DEFINE W == Whole(file - 1, n, t)
               P == Part(file, line, n, t)
    <2>1. W \in Seq(Data)
      <3>1. file - 1 \in Nat /\ file - 1 < Len(Config)
        BY <1>4, ConfigLength
      <3> QED BY <3>1, WholeMore
    <2>2. /\ P \in Seq(Data)
          /\ Part(file, line + 1, n, t) = Cat(P, Said(file, line + 1, n, t))
      <3>1. line < Len(Config[file].lines)
        BY <1>3, <1>4
      <3> QED BY <1>4, <3>1, PartMore
    <2>3. Gathered(n, t) = Cat(W, P) /\ Gathered(n, t)' = Cat(W, Part(file, line + 1, n, t))
      BY <1>3, <1>4 DEF Gathered
    <2> HIDE DEF W, P
    <2>4. Held(n, t) = Kept(t, Cat(W, P)) /\ Cat(W, P) \in Seq(Data)
      <3>1. Cat(W, P) \in Seq(Data)
        BY <2>1, <2>2 DEF Cat
      <3> QED BY <2>3, <3>1 DEF Filled
    <2>5. CASE n = o /\ l.type = t
      <3>1. Said(file, line + 1, n, t) = <<l.rdata>>
        BY <1>1, <1>2, <1>4, <2>5 DEF Said
      <3>2. l.rdata \in Data
        BY <1>4 DEF Line, Data
      <3>3. Gathered(n, t)' = Append(Cat(W, P), l.rdata)
        BY <2>1, <2>2, <2>3, <3>1, <3>2, CatFacts
      <3>4. Kept(t, Append(Cat(W, P), l.rdata))
              = IF t = "SOA" THEN <<l.rdata>> ELSE Append(Kept(t, Cat(W, P)), l.rdata)
        BY <2>4, <3>2, KeptAppend
      <3>5. PICK old \in Zone : /\ old = Old(zones, o)
                               /\ old.rrs[t] = Held(n, t)
        <4>1. NoRecords.rrs[t] = <<>>
          BY DEF NoRecords
        <4> QED BY <1>4, <2>5, <4>1, NoRecordsType DEF Held, Old
      <3>6. Held(n, t)' = Added(old, l).rrs[t]
        BY <1>5, <2>5, <3>5 DEF Held
      <3>7. Added(old, l).rrs[t] = IF t = "SOA" THEN <<l.rdata>> ELSE Append(Held(n, t), l.rdata)
        BY <1>4, <2>5, <3>5, AddedType
      <3> QED BY <2>4, <3>3, <3>4, <3>6, <3>7
    <2>6. CASE ~(n = o /\ l.type = t)
      <3>1. Said(file, line + 1, n, t) = <<>>
        BY <1>1, <1>2, <1>4, <2>6 DEF Said
      <3>2. Gathered(n, t)' = Cat(W, P)
        <4>1. Cat(P, <<>>) = P
          BY <2>2 DEF Cat
        <4> QED BY <2>2, <2>3, <3>1, <4>1
      <3>3. Held(n, t)' = Held(n, t)
        <4>1. CASE n # o
          BY <1>5, <4>1 DEF Held
        <4>2. CASE n = o
          <5>1. t # l.type
            BY <2>6, <4>2
          <5>2. NoRecords.rrs[t] = <<>>
            BY DEF NoRecords
          <5>3. PICK old \in Zone : /\ old = Old(zones, o)
                                   /\ old.rrs[t] = Held(n, t)
            BY <1>4, <4>2, <5>2, NoRecordsType DEF Held, Old
          <5>4. Added(old, l).rrs[t] = old.rrs[t]
            BY <1>4, <5>1, AddedType
          <5> QED BY <1>5, <4>2, <5>3, <5>4 DEF Held
        <4> QED BY <4>1, <4>2
      <3> QED BY <2>4, <3>2, <3>3
    <2> QED BY <2>5, <2>6
  <1>12. cur_name' = Owner(file', line') /\ ~(line' = 0)
    BY <1>2, <1>3, <1>4
  <1> QED BY <1>3, <1>9, <1>10, <1>11, <1>12 DEF Filled

LEMMA FilledStep == WellWritten /\ TypeOK /\ Filled /\ [Next]_vars => Filled'
  <1> SUFFICES ASSUME WellWritten, TypeOK, Filled, [Next]_vars PROVE Filled'
    OBVIOUS
  <1>1. CASE UNCHANGED loadVars
    BY <1>1 DEF loadVars, Filled, Read, Gathered, Held
  <1>2. CASE NextZone
    BY <1>1, <1>2, FilledOpen DEF NextZone
  <1>3. CASE LoadLine
    BY <1>3, FilledLine
  <1> QED BY <1>1, <1>2, <1>3, Phases

(* When all is loaded, what is gathered is what the files say.             *)
LEMMA AllSaid ==
  ASSUME TypeOK, Rooted, Filled, pc # "load"
  PROVE  /\ DOMAIN zones = Names
         /\ \A n \in Names : zones[n].rrs = FileRecords[n]
  <1>1. /\ file = Len(Config) /\ line = Len(Lines) /\ DOMAIN Config = 1 .. file /\ file \in Nat
        /\ Config = [f \in 1 .. file |-> Config[f]]
    BY ConfigLength DEF Rooted
  <1>2. \A f \in 1 .. file : Read(f) = Len(Config[f].lines)
    BY <1>1 DEF Read, Lines
  <1>3. \A f \in 1 .. file : 1 .. Read(f) = DOMAIN Config[f].lines
    BY <1>1, <1>2, LinesLength
  <1>4. \A n : n \in Names <=>
          \E f \in DOMAIN Config : n = Config[f].root \/ \E k \in DOMAIN Config[f].lines : n = Owner(f, k)
    BY DEF Names
  <1>5. DOMAIN zones = Names
    <2>1. /\ \A n \in DOMAIN zones :
               \E f \in 1 .. file : n = Config[f].root \/ \E k \in 1 .. Read(f) : n = Owner(f, k)
          /\ \A f \in 1 .. file : /\ Config[f].root \in DOMAIN zones
                                  /\ \A k \in 1 .. Read(f) : Owner(f, k) \in DOMAIN zones
      BY DEF Filled
    <2>2. ASSUME NEW n \in DOMAIN zones
          PROVE  n \in Names
      <3>1. PICK f \in 1 .. file : n = Config[f].root \/ \E k \in 1 .. Read(f) : n = Owner(f, k)
        BY <2>1
      <3>2. f \in DOMAIN Config /\ 1 .. Read(f) = DOMAIN Config[f].lines
        BY <1>1, <1>3
      <3>3. n = Config[f].root \/ \E k \in DOMAIN Config[f].lines : n = Owner(f, k)
        BY <3>1, <3>2
      <3> QED BY ONLY <1>4, <3>2, <3>3
    <2>3. ASSUME NEW n \in Names
          PROVE  n \in DOMAIN zones
      <3>1. PICK f \in DOMAIN Config :
              n = Config[f].root \/ \E k \in DOMAIN Config[f].lines : n = Owner(f, k)
        BY <1>4
      <3>2. f \in 1 .. file /\ 1 .. Read(f) = DOMAIN Config[f].lines
        BY <1>1, <1>3
      <3>3. /\ Config[f].root \in DOMAIN zones
            /\ \A k \in DOMAIN Config[f].lines : Owner(f, k) \in DOMAIN zones
        BY <2>1, <3>2
      <3> QED BY ONLY <3>1, <3>3
    <2> QED BY <2>2, <2>3
  <1>6. ASSUME NEW n \in Names
        PROVE  zones[n].rrs = FileRecords[n]
    <2>1. n \in Seq(STRING) /\ zones[n] \in Zone
      BY <1>5 DEF TypeOK
    <2>2. zones[n].rrs = [t \in Types |-> zones[n].rrs[t]]
      BY <2>1 DEF Zone
    <2>3. ASSUME NEW t \in Types
          PROVE  zones[n].rrs[t] = FileRecords[n][t]
      <3>1. zones[n].rrs[t] = Kept(t, Gathered(n, t))
        BY <1>5, <2>1 DEF Filled, Held
      <3>2. Gathered(n, t) = Whole(Len(Config), n, t)
        <4>1. CASE file = 0
          BY <1>1, <4>1, UpToNone DEF Gathered, Whole
        <4>2. CASE file > 0
          <5>1. file - 1 \in Nat /\ file - 1 < Len(Config) /\ (file - 1) + 1 = file
            BY <1>1, <4>2
          <5>2. Whole(file, n, t) = Cat(Whole(file - 1, n, t), Part(file, Len(Config[file].lines), n, t))
            BY <5>1, WholeMore
          <5> QED BY <1>1, <4>2, <5>2 DEF Gathered, Lines
        <4> QED BY <1>1, <4>1, <4>2
      <3>3. Whole(Len(Config), n, t) = FlattenSeq(FilesSay(n, t))
        <4>1. PICK F : F = FilesSay(n, t)
          OBVIOUS
        <4>2. F = [f \in 1 .. file |-> F[f]]
          BY <1>1, <4>1 DEF FilesSay
        <4> QED BY <1>1, <4>1, <4>2 DEF Whole, UpTo
      <3>4. FileRecords[n][t] = Kept(t, FlattenSeq(FilesSay(n, t)))
        BY DEF FileRecords, Kept, FilesSay, FileSays, Said
      <3> QED BY <3>1, <3>2, <3>3, <3>4
    <2>4. FileRecords[n] = [t \in Types |-> FileRecords[n][t]]
      BY DEF FileRecords
    <2> QED BY <2>2, <2>3, <2>4
  <1> QED BY <1>5, <1>6

(* The nodes are the names that the files define, with their records in    *)
(* the files' order, the last SOA only.  (server.cpp:50-73, 554)           *)
THEOREM LoadedAsWritten == Spec => []Loaded
  <1> DEFINE Inv == TypeOK /\ Rooted /\ (WellWritten => Filled)
  <1>1. Init => Inv
    BY TypeInit, RootedInit, FilledInit
  <1>2. Inv /\ [Next]_vars => Inv'
    BY TypeStep, RootedStep, FilledStep
  <1>3. Inv => Loaded
    <2> SUFFICES ASSUME Inv, pc # "load", WellWritten
                 PROVE  [n \in DOMAIN zones |-> zones[n].rrs] = FileRecords
      BY DEF Loaded
    <2>1. DOMAIN zones = Names /\ \A n \in Names : zones[n].rrs = FileRecords[n]
      BY AllSaid
    <2>2. FileRecords = [n \in Names |-> FileRecords[n]]
      BY DEF FileRecords
    <2> QED BY <2>1, <2>2
  <1> QED BY <1>1, <1>2, <1>3, PTL DEF Spec

-----------------------------------------------------------------------------
(***************************************************************************)
(* What a reply says.  The header's counts divide the records of a packet  *)
(* into the sections that it was made of, and each section was made of     *)
(* what the nodes hold, that is of what the files say.                     *)
(***************************************************************************)
Rec == [owner : Seq(STRING), type : Types, rdata : Seq(STRING), sized : BOOLEAN]
Strip(s) == {[owner |-> x.owner, type |-> x.type, rdata |-> x.rdata] : x \in ToSet(s)}
Sound(s) == \A x \in ToSet(s) : Given(x.owner, "CNAME") = {} => x.sized

LEMMA Slice ==
  ASSUME NEW S, NEW s \in Seq(S), NEW b \in Seq(S), NEW d \in Nat,
         \A i \in 1 .. Len(b) : d + i <= Len(s) /\ s[d + i] = b[i], NEW e, e = d + Len(b)
  PROVE  SubSeq(s, d + 1, e) = b
  <1>0. Len(b) \in Nat /\ Len(s) \in Nat /\ e \in Nat
    OBVIOUS
  <1>1. CASE Len(b) = 0
    <2>1. SubSeq(s, d + 1, e) = <<>>
      BY <1>0, <1>1, SubSeqEmpty
    <2>2. b = <<>>
      BY <1>1
    <2> QED BY <2>1, <2>2
  <1>2. CASE Len(b) > 0
    <2>1. Len(b) \in 1 .. Len(b) /\ e <= Len(s) /\ d + 1 >= 1 /\ d + 1 <= e
      BY <1>0, <1>2
    <2>2. /\ SubSeq(s, d + 1, e) \in Seq(S) /\ Len(SubSeq(s, d + 1, e)) = Len(b)
          /\ \A i \in 1 .. Len(b) : SubSeq(s, d + 1, e)[i] = s[d + i]
      BY <1>0, <2>1
    <2>3. PICK c \in Seq(S) : c = SubSeq(s, d + 1, e)
      BY <2>2
    <2>4. Len(c) = Len(b) /\ \A i \in 1 .. Len(b) : c[i] = b[i]
      BY <2>2, <2>3
    <2>5. c = b
      BY <2>4, SeqEqual
    <2> QED BY <2>3, <2>5
  <1> QED BY <1>0, <1>1, <1>2

(* Where the sections are.                                                 *)
LEMMA SectionAt ==
  ASSUME NEW p
  PROVE  /\ Section(p, 1) = Strip(SubSeq(p.records, 1 + 0 + 0, (1 + 0 + 0) + p.counts[1] - 1))
         /\ Section(p, 2) = Strip(SubSeq(p.records, 1 + p.counts[1] + 0,
                                         (1 + p.counts[1] + 0) + p.counts[2] - 1))
         /\ Section(p, 3) = Strip(SubSeq(p.records, 1 + p.counts[1] + p.counts[2],
                                         (1 + p.counts[1] + p.counts[2]) + p.counts[3] - 1))
  <1>1. Section(p, 1) = Strip(SubSeq(p.records, 1 + 0 + 0, (1 + 0 + 0) + p.counts[1] - 1))
    <2>1. (IF 1 > 1 THEN 1 ELSE 0) = 0 /\ (IF 1 > 2 THEN 2 ELSE 0) = 0
      OBVIOUS
    <2> DEFINE A == SubSeq(p.records, 1 + 0 + 0, (1 + 0 + 0) + p.counts[1] - 1)
    <2>2. Section(p, 1) = Strip(A)
      BY <2>1 DEF Section, Strip
    <2> QED BY <2>2
  <1>2. Section(p, 2) = Strip(SubSeq(p.records, 1 + p.counts[1] + 0, (1 + p.counts[1] + 0) + p.counts[2] - 1))
    <2>1. (IF 2 > 1 THEN 1 ELSE 0) = 1 /\ (IF 2 > 2 THEN 2 ELSE 0) = 0
      OBVIOUS
    <2> DEFINE A == SubSeq(p.records, 1 + p.counts[1] + 0, (1 + p.counts[1] + 0) + p.counts[2] - 1)
    <2>2. Section(p, 2) = Strip(A)
      BY <2>1 DEF Section, Strip
    <2> QED BY <2>2
  <1>3. Section(p, 3) = Strip(SubSeq(p.records, 1 + p.counts[1] + p.counts[2], (1 + p.counts[1] + p.counts[2]) + p.counts[3] - 1))
    <2>1. (IF 3 > 1 THEN 1 ELSE 0) = 1 /\ (IF 3 > 2 THEN 2 ELSE 0) = 2
      OBVIOUS
    <2> DEFINE A == SubSeq(p.records, 1 + p.counts[1] + p.counts[2], (1 + p.counts[1] + p.counts[2]) + p.counts[3] - 1)
    <2>2. Section(p, 3) = Strip(A)
      BY <2>1 DEF Section, Strip
    <2> QED BY <2>2
  <1> QED BY <1>1, <1>2, <1>3

(* The header divides the packet into the sections that it was made of.    *)
LEMMA Sections ==
  ASSUME NEW a \in Seq(Rec), NEW b \in Seq(Rec), NEW c \in Seq(Rec), NEW p, p = Packet(a, b, c)
  PROVE  /\ Section(p, 1) = Strip(a) /\ Section(p, 2) = Strip(b) /\ Section(p, 3) = Strip(c)
         /\ ToSet(p.records) = ToSet(a) \cup ToSet(b) \cup ToSet(c)
  <1> DEFINE s == a \o b \o c
  <1>1. PICK x \in Nat, y \in Nat, z \in Nat : x = Len(a) /\ y = Len(b) /\ z = Len(c)
    OBVIOUS
  <1>2. p.records = s /\ p.counts = <<x, y, z>>
    BY <1>1 DEF Packet, Header
  <1>3. /\ a \o b \in Seq(Rec) /\ Len(a \o b) = x + y
        /\ \A i \in 1 .. x : (a \o b)[i] = a[i]
        /\ \A i \in 1 .. y : (a \o b)[x + i] = b[i]
    BY <1>1
  <1>4. PICK ab \in Seq(Rec) : ab = a \o b
    BY <1>3
  <1>5. /\ s \in Seq(Rec) /\ Len(s) = (x + y) + z
        /\ \A i \in 1 .. x + y : s[i] = ab[i]
        /\ \A i \in 1 .. z : s[(x + y) + i] = c[i]
    BY <1>1, <1>3, <1>4
  <1>6. ToSet(s) = ToSet(a) \cup ToSet(b) \cup ToSet(c)
    <2>1. ToSet(ab) = ToSet(a) \cup ToSet(b)
      BY <1>4, ConcatElements
    <2>2. ToSet(ab \o c) = ToSet(ab) \cup ToSet(c)
      BY ConcatElements
    <2> QED BY <1>4, <2>1, <2>2
  <1> HIDE DEF s
  <1>7. SubSeq(s, 1, x) = a
    <2>1. \A i \in 1 .. Len(a) : 0 + i <= Len(s) /\ s[0 + i] = a[i]
      BY <1>1, <1>3, <1>4, <1>5
    <2>2. x = 0 + Len(a) /\ 0 + 1 = 1
      BY <1>1
    <2>3. SubSeq(s, 0 + 1, x) = a
      BY <1>5, <2>1, <2>2, Slice
    <2> QED BY <2>2, <2>3
  <1>8. SubSeq(s, x + 1, x + y) = b
    <2>1. \A i \in 1 .. Len(b) : x + i <= Len(s) /\ s[x + i] = b[i]
      <3>1. ASSUME NEW i \in 1 .. Len(b)
            PROVE  x + i <= Len(s) /\ s[x + i] = b[i]
        <4>1. x + i \in 1 .. x + y
          BY <1>1
        <4>2. s[x + i] = ab[x + i]
          BY <1>5, <4>1
        <4>3. i \in 1 .. y /\ ab[x + i] = b[i]
          BY <1>1, <1>3, <1>4
        <4>4. x + i <= Len(s)
          BY <1>5, <4>1
        <4> QED BY <4>2, <4>3, <4>4
      <3> QED BY <3>1
    <2>2. x + y = x + Len(b)
      BY <1>1
    <2> QED BY <1>5, <2>1, <2>2, Slice
  <1>9. SubSeq(s, (x + y) + 1, (x + y) + z) = c
    <2>1. \A i \in 1 .. Len(c) : (x + y) + i <= Len(s) /\ s[(x + y) + i] = c[i]
      <3>1. \A i \in 1 .. z : (x + y) + i <= Len(s)
        BY <1>5
      <3> QED BY <1>1, <1>5, <3>1
    <2>2. (x + y) + z = (x + y) + Len(c) /\ x + y \in Nat
      BY <1>1
    <2> QED BY <1>5, <2>1, <2>2, Slice
  <1>10. /\ Section(p, 1) = Strip(SubSeq(p.records, 1, x))
         /\ Section(p, 2) = Strip(SubSeq(p.records, x + 1, x + y))
         /\ Section(p, 3) = Strip(SubSeq(p.records, (x + y) + 1, (x + y) + z))
    <2>1. p.counts[1] = x /\ p.counts[2] = y /\ p.counts[3] = z
      BY <1>2
    <2>2. /\ 1 + 0 + 0 = 1 /\ (1 + 0 + 0) + x - 1 = x
          /\ 1 + x + 0 = x + 1 /\ (1 + x + 0) + y - 1 = x + y
          /\ 1 + x + y = (x + y) + 1 /\ (1 + x + y) + z - 1 = (x + y) + z
      OBVIOUS
    <2>3. Section(p, 1) = Strip(SubSeq(p.records, 1, x))
      BY <2>1, <2>2, SectionAt
    <2>4. Section(p, 2) = Strip(SubSeq(p.records, x + 1, x + y))
      BY <2>1, <2>2, SectionAt
    <2>5. Section(p, 3) = Strip(SubSeq(p.records, (x + y) + 1, (x + y) + z))
      BY <2>1, <2>2, SectionAt
    <2> QED BY <2>3, <2>4, <2>5
  <1> QED BY <1>2, <1>6, <1>7, <1>8, <1>9, <1>10

(* Then a name is below one root.                                         *)
LEMMA OnlyRoot ==
  ASSUME Apart, NEW n \in Seq(STRING), NEW z \in RootsOf(n)
  PROVE  RootsOf(n) = {z}
  <1>1. ASSUME NEW y \in RootsOf(n)
        PROVE  y = z
    <2>1. PICK f \in DOMAIN Config : z = Config[f].root /\ EndsIn(n, z)
      BY RootsAre
    <2>2. PICK g \in DOMAIN Config : y = Config[g].root /\ EndsIn(n, y)
      BY RootsAre
    <2>3. z \in Seq(STRING) /\ y \in Seq(STRING)
      BY <2>1, <2>2, ConfigType
    <2>4. Len(z) <= Len(y) \/ Len(y) <= Len(z)
      BY <2>3
    <2>5. EndsIn(y, z) \/ EndsIn(z, y)
      BY <2>1, <2>2, <2>3, <2>4, Comparable
    <2> QED BY <2>1, <2>2, <2>5 DEF Apart
  <1> QED BY <1>1

LEMMA AppendNotEmpty ==
  ASSUME NEW S, NEW r \in Seq(S), NEW x \in S
  PROVE  Append(r, x) # <<>>
  <1>1. Len(r) \in Nat /\ Len(Append(r, x)) = Len(r) + 1
    OBVIOUS
  <1> QED BY <1>1

(* Only a node with a CNAME has its SOA's length spoilt.                   *)
Marked == \A n \in DOMAIN zones : zones[n].padded => zones[n].rrs["CNAME"] # <<>>

LEMMA MarkedInit == Init => Marked
  BY DEF Init, Marked

LEMMA MarkedStep == TypeOK /\ Marked /\ [Next]_vars => Marked'
  <1> SUFFICES ASSUME TypeOK, Marked, [Next]_vars PROVE Marked'
    OBVIOUS
  <1>0. \A m \in DOMAIN zones : zones[m] \in Zone
    BY DEF TypeOK
  <1>1. CASE UNCHANGED loadVars
    BY <1>1 DEF loadVars, Marked
  <1>2. CASE NextZone /\ ~ UNCHANGED loadVars
    <2>1. PICK n : n = cur_name'
      OBVIOUS
    <2>2. zones' = Node(zones, n)
      BY <1>2, <2>1 DEF NextZone
    <2>3. ~NoRecords.padded
      BY DEF NoRecords
    <2>4. /\ DOMAIN zones' = DOMAIN zones \cup {n}
          /\ \A m \in DOMAIN zones : zones'[m] = zones[m]
          /\ n \notin DOMAIN zones => zones'[n] = NoRecords
      <3>1. /\ DOMAIN Node(zones, n) = DOMAIN zones \cup {n}
            /\ \A m \in DOMAIN zones : Node(zones, n)[m] = zones[m]
            /\ n \notin DOMAIN zones => Node(zones, n)[n] = NoRecords
        BY <1>0, NodeType
      <3> QED BY <2>2, <3>1
    <2>5. ASSUME NEW m \in DOMAIN zones', zones'[m].padded
          PROVE  zones'[m].rrs["CNAME"] # <<>>
      <3>1. CASE m \in DOMAIN zones
        BY <2>4, <2>5, <3>1 DEF Marked
      <3>2. CASE m \notin DOMAIN zones
        BY <2>3, <2>4, <2>5, <3>2
      <3> QED BY <3>1, <3>2
    <2> QED BY <2>5 DEF Marked
  <1>3. CASE LoadLine
    <2>1. PICK n, l : n = cur_name' /\ l = Lines[line + 1]
      OBVIOUS
    <2>2. l \in Line /\ zones' = UpdateInfo(zones, n, l)
      BY <1>3, <2>1, Reading DEF LoadLine, TypeOK
    <2>3. PICK old \in Zone : old = Old(zones, n)
      BY <1>0, <2>2, UpdatedIs
    <2>4. /\ DOMAIN zones' = DOMAIN zones \cup {n}
          /\ \A m \in DOMAIN zones \ {n} : zones'[m] = zones[m]
          /\ zones'[n] = Added(old, l)
      <3>1. /\ DOMAIN UpdateInfo(zones, n, l) = DOMAIN zones \cup {n}
            /\ \A m \in DOMAIN zones \ {n} : UpdateInfo(zones, n, l)[m] = zones[m]
        BY <1>0, <2>2, Updated
      <3>2. UpdateInfo(zones, n, l)[n] = Added(Old(zones, n), l)
        BY <1>0, <2>2, UpdatedNode
      <3> QED BY <2>2, <2>3, <3>1, <3>2
    <2>5. old.padded => old.rrs["CNAME"] # <<>>
      BY <2>3 DEF Old, Marked, NoRecords
    <2>6. /\ Added(old, l).rrs[l.type] = IF l.type = "SOA" THEN <<l.rdata>>
                                         ELSE Append(old.rrs[l.type], l.rdata)
          /\ \A t \in Types \ {l.type} : Added(old, l).rrs[t] = old.rrs[t]
      BY <2>2, AddedType
    <2>7. Added(old, l).padded => (old.padded \/ l.type = "CNAME") /\ l.type # "SOA"
      BY DEF Added
    <2>8. l.type = "CNAME" => Added(old, l).rrs["CNAME"] # <<>>
      <3>1. \A t \in Types : old.rrs[t] \in Seq(Seq(STRING))
        BY DEF Zone
      <3>2. l.type \in Types /\ l.rdata \in Seq(STRING)
        BY <2>2 DEF Line
      <3>3. PICK r \in Seq(Seq(STRING)) : r = old.rrs[l.type]
        BY <3>1, <3>2
      <3>4. Append(r, l.rdata) # <<>>
        <4>1. PICK x \in Seq(STRING) : x = l.rdata
          BY <3>2
        <4> QED BY <3>3, <4>1, AppendNotEmpty
      <3> QED BY <2>6, <3>2, <3>3, <3>4
    <2>9. Added(old, l).padded => Added(old, l).rrs["CNAME"] # <<>>
      BY <2>5, <2>6, <2>7, <2>8 DEF Types
    <2> QED BY <2>4, <2>9 DEF Marked
  <1> QED BY <1>1, <1>2, <1>3, Phases

LEMMA NoElements ==
  ASSUME NEW S, NEW s \in Seq(S)
  PROVE  s = <<>> <=> ToSet(s) = {}
  <1>1. s = <<>> <=> DOMAIN s = {}
    OBVIOUS
  <1>2. ToSet(s) = {} <=> DOMAIN s = {}
    BY DEF ToSet
  <1> QED BY <1>1, <1>2

(* The zones when they are loaded.                                         *)
Ready == /\ TypeOK /\ Marked /\ DOMAIN zones = Names
         /\ \A n \in Names : zones[n].rrs = FileRecords[n]

LEMMA HeldType ==
  ASSUME Ready, NEW n \in DOMAIN zones, NEW t
  PROVE  /\ OfType(n, t) \in Seq(Data)
         /\ t \in Types => OfType(n, t) = FileRecords[n][t]
         /\ t \notin Types => OfType(n, t) = <<>>
         /\ n \in Seq(STRING) /\ n \in Names
  <1>1. zones[n] \in Zone /\ n \in Seq(STRING) /\ n \in Names /\ zones[n].rrs = FileRecords[n]
    BY DEF Ready, TypeOK
  <1>2. zones[n].rrs \in [Types -> Seq(Data)]
    BY <1>1 DEF Zone, Data
  <1>3. t \in Types => OfType(n, t) = FileRecords[n][t] /\ OfType(n, t) \in Seq(Data)
    BY <1>1, <1>2 DEF OfType
  <1>4. t \notin Types => OfType(n, t) = <<>>
    BY DEF OfType
  <1>5. <<>> \in Seq(Data)
    OBVIOUS
  <1> QED BY <1>1, <1>3, <1>4, <1>5

LEMMA SizedType ==
  ASSUME Ready, NEW n \in DOMAIN zones, NEW t
  PROVE  Sized(n, t) \in BOOLEAN
  <1>1. zones[n].padded \in BOOLEAN
    BY DEF Ready, TypeOK, Zone
  <1> QED BY <1>1 DEF Sized

(* A record for each datum.                                                *)
OneRecord(n, t, d) == [owner |-> n, type |-> t, rdata |-> d, sized |-> Sized(n, t)]

LEMMA RecordsAre ==
  ASSUME Ready, NEW n \in DOMAIN zones, NEW t
  PROVE  /\ Records(n, t) \in Seq(Rec)
         /\ \A x : x \in ToSet(Records(n, t)) <=>
                     \E d \in ToSet(OfType(n, t)) : x = OneRecord(n, t, d)
         /\ Records(n, t) = <<>> <=> ToSet(OfType(n, t)) = {}
  <1>1. PICK v \in Seq(Data) : v = OfType(n, t)
    BY HeldType
  <1>2. Records(n, t) = [k \in DOMAIN v |-> OneRecord(n, t, v[k])]
    BY <1>1 DEF Records, OneRecord
  <1>3. PICK r : r = [k \in DOMAIN v |-> OneRecord(n, t, v[k])]
    OBVIOUS
  <1>4. DOMAIN r = DOMAIN v /\ \A k \in DOMAIN v : r[k] = OneRecord(n, t, v[k])
    BY <1>3
  <1>5. Len(v) \in Nat /\ DOMAIN v = 1 .. Len(v) /\ \A k \in DOMAIN v : v[k] \in Data
    BY <1>1
  <1>6. ASSUME NEW k \in DOMAIN v
        PROVE  OneRecord(n, t, v[k]) \in Rec
    <2>1. t \in Types
      BY <1>1, <1>5, <1>6, HeldType
    <2> QED BY <1>5, <2>1, HeldType, SizedType DEF OneRecord, Rec, Data
  <1>7. r \in Seq(Rec)
    <2> HIDE DEF Rec, OneRecord
    <2> QED BY <1>3, <1>5, <1>6
  <1>8. \A x : x \in ToSet(r) <=> \E d \in ToSet(v) : x = OneRecord(n, t, d)
    BY <1>4 DEF ToSet
  <1>9. r = <<>> <=> ToSet(v) = {}
    <2>1. v = <<>> <=> r = <<>>
      BY <1>4, <1>5, <1>7
    <2> QED BY <2>1, NoElements
  <1> QED BY <1>1, <1>2, <1>3, <1>7, <1>8, <1>9

LEMMA GivenIs ==
  ASSUME Ready, NEW n \in DOMAIN zones, NEW t
  PROVE  Given(n, t) = {[owner |-> n, type |-> t, rdata |-> d] : d \in ToSet(OfType(n, t))}
  <1>1. t \notin Types => ToSet(OfType(n, t)) = {}
    BY HeldType DEF ToSet
  <1> QED BY <1>1, HeldType DEF Given

LEMMA RecordsRight ==
  ASSUME Ready, NEW n \in DOMAIN zones, NEW t
  PROVE  /\ Records(n, t) \in Seq(Rec)
         /\ Strip(Records(n, t)) = Given(n, t)
         /\ Records(n, t) = <<>> <=> Given(n, t) = {}
         /\ Sound(Records(n, t))
  <1>1. PICK D : D = ToSet(OfType(n, t))
    OBVIOUS
  <1>2. Given(n, t) = {[owner |-> n, type |-> t, rdata |-> d] : d \in D}
    BY <1>1, GivenIs
  <1>3. PICK X : X = ToSet(Records(n, t))
    OBVIOUS
  <1>4. \A x : x \in X <=> \E d \in D : x = OneRecord(n, t, d)
    BY <1>1, <1>3, RecordsAre
  <1>5. Strip(Records(n, t)) = Given(n, t)
    <2>1. Strip(Records(n, t)) = {[owner |-> x.owner, type |-> x.type, rdata |-> x.rdata] : x \in X}
      BY <1>3 DEF Strip
    <2>3. \A d : /\ OneRecord(n, t, d).owner = n /\ OneRecord(n, t, d).type = t
                 /\ OneRecord(n, t, d).rdata = d
      BY DEF OneRecord
    <2>4. {[owner |-> x.owner, type |-> x.type, rdata |-> x.rdata] : x \in X}
            = {[owner |-> n, type |-> t, rdata |-> d] : d \in D}
      <3>1. \A y : (\E x \in X : y = [owner |-> x.owner, type |-> x.type, rdata |-> x.rdata])
                     <=> \E d \in D : y = [owner |-> n, type |-> t, rdata |-> d]
        BY <1>4, <2>3
      <3> QED BY <3>1, Zenon
    <2> QED BY <1>2, <2>1, <2>4
  <1>6. Sound(Records(n, t))
    <2> SUFFICES ASSUME NEW x \in X, Given(x.owner, "CNAME") = {} PROVE x.sized
      BY <1>3 DEF Sound
    <2>1. PICK d \in D : x = OneRecord(n, t, d)
      BY <1>4
    <2>2. x.owner = n /\ x.sized = Sized(n, t)
      BY <2>1 DEF OneRecord
    <2>3. Given(n, "CNAME") = {}
      BY <2>2
    <2>4. ToSet(OfType(n, "CNAME")) = {}
      <3>1. PICK E : E = ToSet(OfType(n, "CNAME"))
        OBVIOUS
      <3>2. Given(n, "CNAME") = {[owner |-> n, type |-> "CNAME", rdata |-> v] : v \in E}
        BY <3>1, GivenIs
      <3>3. E = {}
        BY <2>3, <3>2
      <3> QED BY <3>1, <3>3
    <2>5. t # "CNAME"
      BY <1>1, <2>1, <2>4
    <2>6. OfType(n, "CNAME") = <<>>
      <3>1. OfType(n, "CNAME") \in Seq(Data)
        BY HeldType
      <3> QED BY <2>4, <3>1, NoElements
    <2>7. zones[n].rrs["CNAME"] = <<>>
      BY <2>6 DEF OfType, Types
    <2>8. ~zones[n].padded
      BY <2>7 DEF Ready, Marked
    <2> QED BY <2>2, <2>5, <2>8 DEF Sized
  <1>7. Given(n, t) = {} <=> D = {}
    BY <1>2
  <1> QED BY <1>1, <1>5, <1>6, <1>7, RecordsAre

(* Strip and Sound look at the elements only.                              *)
LEMMA StripJoin ==
  ASSUME NEW a, NEW b, NEW s, ToSet(s) = ToSet(a) \cup ToSet(b)
  PROVE  /\ Strip(s) = Strip(a) \cup Strip(b)
         /\ Sound(a) /\ Sound(b) => Sound(s)
  <1>1. \A x : x \in ToSet(s) <=> x \in ToSet(a) \/ x \in ToSet(b)
    OBVIOUS
  <1>2. Strip(s) = Strip(a) \cup Strip(b)
    BY <1>1 DEF Strip
  <1> QED BY <1>1, <1>2 DEF Sound

LEMMA StripAll ==
  ASSUME NEW I, NEW F, NEW s, ToSet(s) = UNION {ToSet(F[i]) : i \in I}
  PROVE  /\ Strip(s) = UNION {Strip(F[i]) : i \in I}
         /\ (\A i \in I : Sound(F[i])) => Sound(s)
  <1>1. \A x : x \in ToSet(s) <=> \E i \in I : x \in ToSet(F[i])
    OBVIOUS
  <1>2. Strip(s) = UNION {Strip(F[i]) : i \in I}
    <2>1. \A y : y \in Strip(s) <=> \E x : x \in ToSet(s) /\ y = [owner |-> x.owner, type |-> x.type, rdata |-> x.rdata]
      BY DEF Strip
    <2>2. \A y, i : y \in Strip(F[i]) <=> \E x : x \in ToSet(F[i]) /\ y = [owner |-> x.owner, type |-> x.type, rdata |-> x.rdata]
      BY DEF Strip
    <2>3. ASSUME NEW y \in Strip(s)
          PROVE  \E i \in I : y \in Strip(F[i])
      <3>1. PICK x : x \in ToSet(s) /\ y = [owner |-> x.owner, type |-> x.type, rdata |-> x.rdata]
        BY <2>1
      <3>2. PICK i \in I : x \in ToSet(F[i])
        BY <1>1, <3>1
      <3>3. y \in Strip(F[i])
        BY <2>2, <3>1, <3>2
      <3> QED BY <3>3
    <2>4. ASSUME NEW i \in I, NEW y \in Strip(F[i])
          PROVE  y \in Strip(s)
      <3>1. PICK x : x \in ToSet(F[i]) /\ y = [owner |-> x.owner, type |-> x.type, rdata |-> x.rdata]
        BY <2>2
      <3>2. x \in ToSet(s)
        BY <1>1, <3>1
      <3> QED BY <2>1, <3>1, <3>2
    <2> QED BY <2>3, <2>4
  <1> QED BY <1>1, <1>2 DEF Sound

(* The addresses of the targets, which are nodes all.                      *)
Addresses(m) == Given(m, "A") \cup Given(m, "AAAA")

LEMMA AdditionalRight ==
  ASSUME Ready, NEW T, NEW n \in Nat, DOMAIN T = 1 .. n, \A k \in 1 .. n : T[k] \in DOMAIN zones
  PROVE  /\ GetAdditional(T) \in Seq(Rec)
         /\ Strip(GetAdditional(T)) = UNION {Addresses(T[k]) : k \in 1 .. n}
         /\ Sound(GetAdditional(T))
  <1> DEFINE F == [k \in DOMAIN T |-> Records(T[k], "A") \o Records(T[k], "AAAA")]
  <1>1. ASSUME NEW k \in 1 .. n
        PROVE  F[k] \in Seq(Rec) /\ Strip(F[k]) = Addresses(T[k]) /\ Sound(F[k])
    <2>1. PICK a \in Seq(Rec) : a = Records(T[k], "A")
      BY RecordsRight
    <2>2. PICK b \in Seq(Rec) : b = Records(T[k], "AAAA")
      BY RecordsRight
    <2>3. F[k] = a \o b
      BY <2>1, <2>2
    <2> HIDE DEF F
    <2>4. F[k] \in Seq(Rec) /\ ToSet(F[k]) = ToSet(a) \cup ToSet(b)
      BY <2>3, ConcatElements
    <2>5. Strip(F[k]) = Strip(a) \cup Strip(b) /\ (Sound(a) /\ Sound(b) => Sound(F[k]))
      BY <2>4, StripJoin
    <2>6. Strip(a) = Given(T[k], "A") /\ Sound(a) /\ Strip(b) = Given(T[k], "AAAA") /\ Sound(b)
      BY <2>1, <2>2, RecordsRight
    <2> QED BY <2>4, <2>5, <2>6 DEF Addresses
  <1>2. F = [k \in 1 .. n |-> F[k]] /\ GetAdditional(T) = FlattenSeq(F)
    BY DEF GetAdditional
  <1> HIDE DEF F
  <1>3. F \in Seq(Seq(Rec)) /\ DOMAIN F = 1 .. n
    BY <1>1, <1>2
  <1>4. PICK s : s = FlattenSeq(F)
    OBVIOUS
  <1>5. s \in Seq(Rec) /\ ToSet(s) = UNION {ToSet(F[i]) : i \in 1 .. n}
    BY <1>3, <1>4, FlattenElements
  <1>6. /\ Strip(s) = UNION {Strip(F[i]) : i \in 1 .. n}
        /\ (\A i \in 1 .. n : Sound(F[i])) => Sound(s)
    <2>1. PICK I : I = 1 .. n
      OBVIOUS
    <2>2. ToSet(s) = UNION {ToSet(F[i]) : i \in I}
      BY <1>5, <2>1
    <2>3. /\ Strip(s) = UNION {Strip(F[i]) : i \in I}
          /\ (\A i \in I : Sound(F[i])) => Sound(s)
      BY ONLY <2>2, StripAll
    <2> QED BY <2>1, <2>3
  <1>7. UNION {Strip(F[i]) : i \in 1 .. n} = UNION {Addresses(T[i]) : i \in 1 .. n}
    BY <1>1
  <1> QED BY <1>1, <1>2, <1>4, <1>5, <1>6, <1>7

(* What is not a node has no records in the files.                         *)
LEMMA AnswerRight ==
  ASSUME Ready, NEW n, NEW t
  PROVE  /\ GetAnswer(n, t) \in Seq(Rec)
         /\ Strip(GetAnswer(n, t)) = Given(n, t)
         /\ GetAnswer(n, t) = <<>> <=> Given(n, t) = {}
         /\ Sound(GetAnswer(n, t))
  <1>1. CASE n \in DOMAIN zones
    BY <1>1, RecordsRight DEF GetAnswer
  <1>2. CASE n \notin DOMAIN zones
    <2>1. GetAnswer(n, t) = <<>> /\ Given(n, t) = {}
      BY <1>2 DEF GetAnswer, Given, Ready
    <2>2. PICK s \in Seq(Rec) : s = <<>>
      <3> HIDE DEF Rec
      <3>1. <<>> \in Seq(Rec)
        OBVIOUS
      <3> QED BY <3>1
    <2>3. ToSet(s) = {}
      BY <2>2, NoElements
    <2>4. Strip(s) = {} /\ Sound(s)
      BY <2>3 DEF Strip, Sound
    <2> QED BY <2>1, <2>2, <2>4
  <1> QED BY <1>1, <1>2

LEMMA QueryRight ==
  ASSUME Ready, Rooted, pc # "load", RootsLong, Apart, NEW n \in Seq(STRING), NEW t,
         ~IsAddress(n), StartFromRoot(n) # None, ~Dangling(n, t), NEW p, p = StartQuery(n, t)
  PROVE  Right(n, t, p)
  <1>1. PICK z : z = StartFromRoot(n)
    OBVIOUS
  <1>2. z \in RootsOf(n) /\ RootsOf(n) = {z}
    <2>1. TypeOK
      BY DEF Ready
    <2>2. z \in RootsOf(n)
      BY <1>1, <2>1, Search
    <2> QED BY <2>2, OnlyRoot
  <1>3. z \in DOMAIN zones
    <2>1. PICK f \in DOMAIN Config : z = Config[f].root
      BY <1>2, RootsAre
    <2> QED BY <2>1, ConfigLength DEF Rooted
  <1>4. PICK a \in Seq(Rec) : a = GetAnswer(n, t)
    BY AnswerRight
  <1>5. Strip(a) = Given(n, t) /\ (a = <<>> <=> Given(n, t) = {}) /\ Sound(a)
    BY <1>4, AnswerRight
  <1>6. PICK e \in Seq(Rec) : e = <<>> /\ Strip(e) = {} /\ Sound(e)
    <2>1. <<>> \in Seq(Rec)
      <3> HIDE DEF Rec
      <3> QED OBVIOUS
    <2>2. PICK e \in Seq(Rec) : e = <<>>
      BY <2>1
    <2>3. ToSet(e) = {}
      BY <2>2, NoElements
    <2> QED BY <2>2, <2>3 DEF Strip, Sound
  <1>7. PICK b \in Seq(Rec) :
          /\ b = GetAuthority(z, a, t)
          /\ Strip(b) = IF a # <<>> /\ t = "NS" THEN {}
                        ELSE Given(z, IF a = <<>> THEN "SOA" ELSE "NS")
          /\ Sound(b)
    <2>1. CASE a = <<>>
      BY <1>3, <2>1, RecordsRight DEF GetAuthority
    <2>2. CASE a # <<>> /\ t # "NS"
      BY <1>3, <2>2, RecordsRight DEF GetAuthority
    <2>3. CASE a # <<>> /\ t = "NS"
      BY <1>6, <2>3 DEF GetAuthority
    <2> QED BY <2>1, <2>2, <2>3
  <1>8. PICK T : T = Targets(a, t)
    OBVIOUS
  <1>9. PICK c \in Seq(Rec) :
          /\ c = GetAdditional(T)
          /\ Strip(c) = IF t \in {"NS", "MX"} THEN UNION {Addresses(r.rdata) : r \in Given(n, t)} ELSE {}
          /\ Sound(c)
    <2>1. PICK k \in Nat : k = Len(a) /\ DOMAIN a = 1 .. k
      <3> HIDE DEF Rec
      <3> QED OBVIOUS
    <2>2. CASE t \in {"NS", "MX"}
      <3>1. DOMAIN T = 1 .. k /\ \A i \in 1 .. k : T[i] = a[i].rdata
        BY <1>8, <2>1, <2>2 DEF Targets
      <3>2. \A i \in 1 .. k : T[i] \in DOMAIN zones
        BY <1>4, <1>8, <3>1 DEF Dangling
      <3>3. /\ GetAdditional(T) \in Seq(Rec) /\ Sound(GetAdditional(T))
            /\ Strip(GetAdditional(T)) = UNION {Addresses(T[i]) : i \in 1 .. k}
        BY <2>1, <3>1, <3>2, AdditionalRight
      <3>4. \A y : (\E i \in 1 .. k : y = T[i]) <=> \E r \in Given(n, t) : y = r.rdata
        <4>1. \A x : x \in ToSet(a) <=> \E i \in 1 .. k : x = a[i]
          BY <2>1 DEF ToSet
        <4>2. \A r : r \in Given(n, t) <=>
                \E x \in ToSet(a) : r = [owner |-> x.owner, type |-> x.type, rdata |-> x.rdata]
          BY <1>5 DEF Strip
        <4>3. ASSUME NEW i \in 1 .. k
              PROVE  \E r \in Given(n, t) : T[i] = r.rdata
          <5>1. PICK r : r = [owner |-> a[i].owner, type |-> a[i].type, rdata |-> a[i].rdata]
            OBVIOUS
          <5>2. r \in Given(n, t) /\ r.rdata = T[i]
            BY <3>1, <4>1, <4>2, <5>1
          <5> QED BY <5>2
        <4>4. ASSUME NEW r \in Given(n, t)
              PROVE  \E i \in 1 .. k : T[i] = r.rdata
          <5>1. PICK x \in ToSet(a) : r = [owner |-> x.owner, type |-> x.type, rdata |-> x.rdata]
            BY <4>2
          <5>2. PICK i \in 1 .. k : x = a[i]
            BY <4>1
          <5> QED BY <3>1, <5>1, <5>2
        <4> QED BY <4>3, <4>4
      <3>5. UNION {Addresses(T[i]) : i \in 1 .. k} = UNION {Addresses(r.rdata) : r \in Given(n, t)}
        BY <3>4
      <3> QED BY <2>2, <3>3, <3>5
    <2>3. CASE t \notin {"NS", "MX"}
      <3>1. T = <<>> /\ DOMAIN T = 1 .. 0 /\ 0 \in Nat
        BY <1>8, <2>3 DEF Targets
      <3>2. /\ GetAdditional(T) \in Seq(Rec) /\ Sound(GetAdditional(T))
            /\ Strip(GetAdditional(T)) = UNION {Addresses(T[i]) : i \in 1 .. 0}
        <4>1. PICK m \in Nat : m = 0 /\ DOMAIN T = 1 .. m
          BY <3>1
        <4>2. \A i \in 1 .. m : T[i] \in DOMAIN zones
          BY <4>1
        <4>3. /\ GetAdditional(T) \in Seq(Rec) /\ Sound(GetAdditional(T))
              /\ Strip(GetAdditional(T)) = UNION {Addresses(T[i]) : i \in 1 .. m}
          BY <4>1, <4>2, AdditionalRight
        <4> QED BY <4>1, <4>3
      <3> QED BY <2>3, <3>2
    <2> QED BY <2>2, <2>3
  <1>10. p = Packet(a, b, c)
    BY <1>1, <1>4, <1>7, <1>8, <1>9 DEF StartQuery
  <1>11. /\ Section(p, 1) = Strip(a) /\ Section(p, 2) = Strip(b) /\ Section(p, 3) = Strip(c)
         /\ ToSet(p.records) = ToSet(a) \cup ToSet(b) \cup ToSet(c)
    BY <1>10, Sections
  <1>12. \A k \in DOMAIN p.records :
           Given(p.records[k].owner, "CNAME") = {} => p.records[k].sized
    <2>1. \A x \in ToSet(p.records) : Given(x.owner, "CNAME") = {} => x.sized
      BY <1>5, <1>7, <1>9, <1>11 DEF Sound
    <2> QED BY <2>1 DEF ToSet
  <1>13. Section(p, 2) = IF Given(n, t) # {} /\ t = "NS" THEN {}
           ELSE UNION {Given(y, IF Given(n, t) = {} THEN "SOA" ELSE "NS") : y \in RootsOf(n)}
    <2>1. UNION {Given(y, IF Given(n, t) = {} THEN "SOA" ELSE "NS") : y \in RootsOf(n)}
            = Given(z, IF Given(n, t) = {} THEN "SOA" ELSE "NS")
      BY <1>2
    <2> QED BY <1>5, <1>7, <1>11, <2>1
  <1>14. Section(p, 3) = IF t \in {"NS", "MX"}
           THEN UNION {Given(r.rdata, "A") \cup Given(r.rdata, "AAAA") : r \in Given(n, t)} ELSE {}
    BY <1>9, <1>11 DEF Addresses
  <1> QED BY <1>5, <1>11, <1>12, <1>13, <1>14 DEF Right

LEMMA RightInit == Init => AnswersRight
  BY DEF Init, AnswersRight

LEMMA RightStep ==
  /\ RootsLong /\ Apart /\ TypeOK /\ Exchange /\ Rooted /\ (WellWritten => Filled) /\ Marked
  /\ AnswersRight /\ [Next]_vars
  => AnswersRight'
  <1> SUFFICES ASSUME RootsLong, Apart, TypeOK, Exchange, Rooted, WellWritten => Filled, Marked,
                      AnswersRight, [Next]_vars
               PROVE  AnswersRight'
    OBVIOUS
  <1>1. CASE UNCHANGED <<asked, sent>>
    BY <1>1 DEF AnswersRight
  <1>2. CASE Answer
    <2>1. PICK q : q = Head(inbox)
      OBVIOUS
    <2>2. PICK p : p = StartQuery(q.name, q.type)
      OBVIOUS
    <2>3. Recv /\ pc = "recv" /\ q.name # <<>> /\ UNCHANGED asked
      BY <1>2, <2>1 DEF Answer, RecvQuery, Recv
    <2>4. q \in Query /\ q.name \in Seq(STRING) /\ asked[q.id] = q
      BY <2>1, <2>3, Departure, QueryType DEF Exchange
    <2>5. /\ StartFromRoot(q.name) # None
          /\ \/ UNCHANGED sent
             \/ /\ ~Dangling(q.name, q.type)
                /\ sent' = sent \cup {[to |-> q.from, id |-> q.id, own |-> TRUE, packet |-> p]}
      <3>1. /\ StartFromRoot(Head(inbox).name) # None
            /\ \/ UNCHANGED sent
               \/ /\ ~Dangling(Head(inbox).name, Head(inbox).type)
                  /\ Reply(Head(inbox).from, Head(inbox).id, TRUE,
                           StartQuery(Head(inbox).name, Head(inbox).type))
        BY <1>2, Zenon DEF Answer
      <3> QED BY <2>1, <2>2, <3>1 DEF Reply
    <2>6. ASSUME ~Dangling(q.name, q.type), ~IsAddress(q.name), WellWritten
          PROVE  Right(q.name, q.type, p)
      <3>1. DOMAIN zones = Names /\ \A n \in Names : zones[n].rrs = FileRecords[n]
        BY <2>3, <2>6, AllSaid
      <3> QED BY <2>2, <2>3, <2>4, <2>5, <2>6, <3>1, QueryRight DEF Ready
    <2>7. ASSUME NEW r \in sent', r.own, ~IsAddress(asked[r.id].name), WellWritten
          PROVE  Right(asked[r.id].name, asked[r.id].type, r.packet)
      <3>1. CASE r \in sent
        BY <2>7, <3>1 DEF AnswersRight
      <3>2. CASE r \notin sent
        <4>1. ~Dangling(q.name, q.type) /\ r.id = q.id /\ r.packet = p
          BY <2>5, <3>2
        <4> QED BY <2>4, <2>6, <2>7, <4>1
      <3> QED BY <3>1, <3>2
    <2> QED BY <2>3, <2>7 DEF AnswersRight
  <1>3. CASE Relay
    <2>1. UNCHANGED asked /\ \A r \in sent' : r \in sent \/ ~r.own
      BY <1>3 DEF Relay, Reply
    <2> QED BY <2>1 DEF AnswersRight
  <1>4. ASSUME NEW c \in Client, Ask(c) PROVE AnswersRight'
    <2>1. UNCHANGED sent
      BY <1>4 DEF Ask
    <2>2. \A r \in sent : asked'[r.id] = asked[r.id]
      <3>1. \A r \in sent : r.id \in 1 .. Taken
        BY DEF Exchange, TypeOK, Taken
      <3> QED BY <1>4, <3>1, Arrival DEF Exchange
    <2> QED BY <2>1, <2>2 DEF AnswersRight
  <1>5. [Next]_vars => UNCHANGED <<asked, sent>> \/ Answer \/ Relay \/ \E c \in Client : Ask(c)
    BY DEF Next, Server, NextZone, LoadLine, RecvEmpty, RecvRoot, Forward, OtherReplies, Lose,
           vars, serveVars
  <1> QED BY <1>1, <1>2, <1>3, <1>4, <1>5

(* Every reply of the server's own says what the zone files say.           *)
(* (server.cpp:162-249, 584)                                               *)
THEOREM AnswersAsWritten == RootsLong /\ Apart => (Spec => []AnswersRight)
  <1> SUFFICES ASSUME RootsLong, Apart PROVE Spec => []AnswersRight
    OBVIOUS
  <1> DEFINE Inv == TypeOK /\ Exchange /\ Rooted /\ (WellWritten => Filled) /\ Marked /\ AnswersRight
  <1>1. Init => Inv
    BY TypeInit, ExchangeInit, RootedInit, FilledInit, MarkedInit, RightInit
  <1>2. Inv /\ [Next]_vars => Inv'
    BY TypeStep, ExchangeStep, RootedStep, FilledStep, MarkedStep, RightStep
  <1>3. Inv => AnswersRight
    OBVIOUS
  <1> QED BY <1>1, <1>2, <1>3, PTL DEF Spec

-----------------------------------------------------------------------------
(***************************************************************************)
(* What EachAnswered needs beside fairness: no query is forgotten.  Each   *)
(* one taken is answered, or it is the one that the server waits for, or   *)
(* the one that ended the program, or as many queries before it as there   *)
(* are sockets were foreign: a socket is used for each of them.            *)
(***************************************************************************)
Passed(j) == {k \in 1 .. j : Foreign(k)}
SocketsUsed == Cardinality(Passed(Taken)) >= Sockets - free

Settled(j) == \/ Answered(j) \/ NoSocketFor(j)
              \/ pc = "wait" /\ query.id = j
              \/ pc \in Ended /\ Lethal(asked[j])
Accounted == \A j \in 1 .. Taken : Settled(j)

LEMMA TakenType == TypeOK /\ Numbered => Taken \in Nat
  <1> SUFFICES ASSUME TypeOK, Numbered PROVE Taken \in Nat
    OBVIOUS
  <1>1. Len(asked) \in Nat /\ Len(inbox) \in Nat
    BY DEF TypeOK
  <1> QED BY <1>1 DEF Taken, Numbered

LEMMA PassedFinite ==
  ASSUME NEW j \in Nat
  PROVE  IsFiniteSet(Passed(j)) /\ Cardinality(Passed(j)) \in Nat
  <1>1. IsFiniteSet(1 .. j)
    BY FS_Interval
  <1>2. IsFiniteSet(Passed(j))
    BY <1>1, FS_Subset DEF Passed
  <1> QED BY <1>2, FS_CardinalityType

LEMMA PassedMore ==
  ASSUME NEW j \in Nat
  PROVE  /\ Cardinality(Passed(j + 1)) >= Cardinality(Passed(j))
         /\ Foreign(j + 1) => Cardinality(Passed(j + 1)) = Cardinality(Passed(j)) + 1
  <1>1. Passed(j) \subseteq Passed(j + 1)
    BY DEF Passed
  <1>2. Cardinality(Passed(j)) <= Cardinality(Passed(j + 1))
    BY <1>1, PassedFinite, FS_Subset
  <1>3. Foreign(j + 1) => Passed(j + 1) = Passed(j) \cup {j + 1} /\ j + 1 \notin Passed(j)
    BY DEF Passed
  <1>4. Foreign(j + 1) => Cardinality(Passed(j + 1)) = Cardinality(Passed(j)) + 1
    BY <1>3, PassedFinite, FS_AddElement
  <1> QED BY <1>2, <1>4, PassedFinite

(* What was asked before does not change.                                  *)
LEMMA PassedSame ==
  ASSUME NEW j \in Nat, \A k \in 1 .. j : asked'[k] = asked[k]
  PROVE  Passed(j)' = Passed(j) /\ \A k \in 1 .. j : Foreign(k)' = Foreign(k)
  <1>1. \A k \in 1 .. j : Foreign(k)' = Foreign(k)
    BY DEF Foreign
  <1> QED BY <1>1 DEF Passed

(* do_forward_query is called for a foreign name.                          *)
LEMMA ForwardsForeign ==
  ASSUME RootsLong, TypeOK, Exchange, Rooted, Forward
  PROVE  /\ Foreign(Taken + 1)
         /\ UNCHANGED <<asked, sent>>
         /\ \/ free = 0 /\ UNCHANGED <<free, pc>>
            \/ free > 0 /\ free' = free - 1 /\ query' = Head(inbox) /\ pc' = "wait"
  <1>1. PICK q : q = Head(inbox)
    OBVIOUS
  <1>2. Recv /\ pc = "recv" /\ q.name # <<>> /\ StartFromRoot(q.name) = None
        /\ UNCHANGED <<asked, sent>>
        /\ \/ free = 0 /\ UNCHANGED <<free, pc>>
           \/ free > 0 /\ free' = free - 1 /\ query' = q /\ pc' = "wait"
    BY <1>1 DEF Forward, RecvQuery, Recv
  <1>3. q \in Query /\ asked[Taken + 1] = q
    BY <1>1, <1>2, Departure DEF Exchange
  <1>4. RootsOf(q.name) = {}
    BY <1>2, <1>3, QueryType, Search
  <1> QED BY <1>1, <1>2, <1>3, <1>4 DEF Foreign

LEMMA SocketsInit == Init => SocketsUsed
  <1> SUFFICES ASSUME Init PROVE SocketsUsed
    OBVIOUS
  <1>1. Taken = 0 /\ free = Sockets /\ 0 \in Nat
    BY DEF Init, Taken
  <1> QED BY <1>1, PassedFinite, BoundsAssumption DEF SocketsUsed

LEMMA SocketsStep ==
  RootsLong /\ TypeOK /\ Exchange /\ Rooted /\ SocketsUsed /\ [Next]_vars => SocketsUsed'
  <1> SUFFICES ASSUME RootsLong, TypeOK, Exchange, Rooted, SocketsUsed, [Next]_vars
               PROVE  SocketsUsed'
    OBVIOUS
  <1>0. Sockets \in Nat /\ free \in 0 .. Sockets
    BY BoundsAssumption DEF TypeOK
  <1>1. CASE UNCHANGED <<asked, inbox, free>>
    BY <1>1 DEF SocketsUsed, Passed, Foreign, Taken
  <1>2. CASE Recv /\ UNCHANGED asked /\ (UNCHANGED free \/ (Foreign(Taken + 1) /\ free' = free - 1))
    <2>1. Taken \in Nat /\ Taken' = Taken + 1
      BY <1>2, Departure DEF Exchange
    <2>2. Passed(Taken)' = Passed(Taken + 1)
      BY <1>2, <2>1 DEF Passed, Foreign
    <2>3. Cardinality(Passed(Taken)) \in Nat /\ Cardinality(Passed(Taken + 1)) \in Nat
      BY <2>1, PassedFinite
    <2> QED BY <1>0, <1>2, <2>1, <2>2, <2>3, PassedMore DEF SocketsUsed
  <1>3. ASSUME NEW c \in Client, Ask(c) PROVE SocketsUsed'
    <2>1. Taken' = Taken /\ Taken \in Nat /\ \A k \in 1 .. Taken : asked'[k] = asked[k]
      BY <1>3, Arrival, TakenType DEF Exchange
    <2>2. Passed(Taken)' = Passed(Taken)
      BY <2>1, PassedSame DEF Passed
    <2> QED BY <1>3, <2>1, <2>2 DEF SocketsUsed, Ask
  <1>4. Forward => Recv /\ UNCHANGED asked
                   /\ (UNCHANGED free \/ (Foreign(Taken + 1) /\ free' = free - 1))
    BY ForwardsForeign DEF Forward, RecvQuery
  <1>5. [Next]_vars => \/ UNCHANGED <<asked, inbox, free>>
                      \/ (Recv /\ UNCHANGED <<asked, free>>)
                      \/ Forward \/ \E c \in Client : Ask(c)
    BY DEF Next, Server, NextZone, LoadLine, RecvEmpty, RecvRoot, Answer, RecvQuery, Relay,
           OtherReplies, Lose, vars, serveVars
  <1> QED BY <1>1, <1>2, <1>3, <1>4, <1>5

(* A record that names a host without a node ends the program, and the     *)
(* files say so.                                                           *)
LEMMA DanglesByFiles ==
  ASSUME Ready, NEW n, NEW t, Dangling(n, t)
  PROVE  /\ t \in {"NS", "MX"} /\ ~IsAddress(n)
         /\ \E r \in Given(n, t) : r.rdata \notin Names
  <1>1. PICK a \in Seq(Rec) : a = GetAnswer(n, t)
    BY AnswerRight
  <1>2. PICK k \in DOMAIN Targets(a, t) : Targets(a, t)[k] \notin DOMAIN zones
    BY <1>1 DEF Dangling
  <1>3. t \in {"NS", "MX"}
    BY <1>2 DEF Targets
  <1>4. k \in DOMAIN a /\ a[k].rdata \notin Names
    BY <1>2, <1>3 DEF Targets, Ready
  <1>5. PICK r : r = [owner |-> a[k].owner, type |-> a[k].type, rdata |-> a[k].rdata]
    OBVIOUS
  <1>6. r \in Strip(a)
    <2>1. a[k] \in ToSet(a)
      BY <1>4 DEF ToSet
    <2> QED BY <1>5, <2>1 DEF Strip
  <1>7. r \in Given(n, t) /\ r.rdata \notin Names
    BY <1>1, <1>4, <1>5, <1>6, AnswerRight
  <1> QED BY <1>3, <1>7 DEF Dangling

LEMMA AccountedInit == Init => Accounted
  BY DEF Init, Accounted, Taken

(* The one that is taken is settled, and so are those before it.           *)
LEMMA Settling ==
  ASSUME TypeOK, Exchange, Accounted, Recv, UNCHANGED asked, sent \subseteq sent',
         NEW i, i = Taken + 1, Settled(i)'
  PROVE  Accounted'
  <1>1. Taken \in Nat /\ Taken' = Taken + 1
    BY Departure DEF Exchange
  <1>2. ASSUME NEW j \in 1 .. Taken
        PROVE  Settled(j)'
    <2>1. Answered(j) \/ NoSocketFor(j)
      BY DEF Accounted, Settled, Recv, Ended
    <2>2. Answered(j) => Answered(j)'
      BY DEF Answered
    <2>3. NoSocketFor(j) => NoSocketFor(j)'
      BY DEF NoSocketFor, Foreign
    <2> QED BY <2>1, <2>2, <2>3 DEF Settled
  <1>3. \A j \in 1 .. Taken + 1 : j \in 1 .. Taken \/ j = i
    BY <1>1
  <1> QED BY <1>1, <1>2, <1>3 DEF Accounted

LEMMA AccountedStep ==
  /\ RootsLong /\ WellWritten /\ TypeOK /\ Exchange /\ Rooted /\ Filled /\ Marked
  /\ SocketsUsed /\ Accounted /\ [Next]_vars
  => Accounted'
  <1> SUFFICES ASSUME RootsLong, WellWritten, TypeOK, Exchange, Rooted, Filled, Marked,
                      SocketsUsed, Accounted, [Next]_vars
               PROVE  Accounted'
    OBVIOUS
  <1>1. CASE UNCHANGED <<asked, inbox, query, sent>> /\ (pc' = pc \/ pc = "load")
    BY <1>1 DEF Accounted, Settled, Answered, NoSocketFor, Foreign, Taken, Ended
  <1>2. CASE RecvEmpty \/ RecvRoot
    <2>1. Recv /\ UNCHANGED <<asked, sent>> /\ pc' \in Ended
      BY <1>2 DEF RecvEmpty, RecvRoot, Ended
    <2>2. Head(inbox).name = <<>>
      <3>1. Head(inbox) = Empty \/ Head(inbox).name = <<>>
        BY <1>2 DEF RecvEmpty, RecvRoot
      <3>2. Empty.name = <<>>
        BY DEF Empty
      <3> QED BY <3>1, <3>2
    <2>3. PICK i : i = Taken + 1
      OBVIOUS
    <2>4. asked'[i].name = <<>>
      BY <2>1, <2>2, <2>3, Departure DEF Exchange
    <2>5. Settled(i)'
      BY <2>1, <2>4 DEF Settled, Lethal
    <2> QED BY <2>1, <2>3, <2>5, Settling
  <1>3. CASE Answer
    <2>1. PICK q : q = Head(inbox)
      OBVIOUS
    <2>2. Recv /\ pc = "recv" /\ q.name # <<>> /\ UNCHANGED asked
      BY <1>3, <2>1 DEF Answer, RecvQuery, Recv
    <2>3. q.id = Taken + 1 /\ q = asked[q.id]
      BY <2>1, <2>2, Departure DEF Exchange
    <2>4. PICK p : p = StartQuery(q.name, q.type)
      OBVIOUS
    <2>5. \/ Dangling(q.name, q.type) /\ pc' \in Ended /\ UNCHANGED sent
          \/ Reply(q.from, q.id, TRUE, p)
      BY <1>3, <2>1, <2>4 DEF Answer, Ended
    <2>6. CASE Dangling(q.name, q.type) /\ pc' \in Ended /\ UNCHANGED sent
      <3>1. Ready
        BY <2>2, AllSaid DEF Ready
      <3>2. Lethal(q)
        BY <2>6, <3>1, DanglesByFiles DEF Lethal
      <3>3. Settled(q.id)'
        BY <2>2, <2>3, <2>6, <3>2 DEF Settled
      <3> QED BY <2>2, <2>3, <2>6, <3>3, Settling
    <2>7. CASE Reply(q.from, q.id, TRUE, p)
      <3>1. PICK n : n = [to |-> q.from, id |-> q.id, own |-> TRUE, packet |-> p]
        OBVIOUS
      <3>2. n.id = q.id /\ sent' = sent \cup {n}
        BY <2>7, <3>1 DEF Reply
      <3>3. Settled(q.id)'
        BY <3>2 DEF Settled, Answered
      <3> QED BY <2>2, <2>3, <3>2, <3>3, Settling
    <2> QED BY <2>5, <2>6, <2>7
  <1>4. CASE Forward
    <2>1. Recv /\ UNCHANGED <<asked, sent>>
      BY <1>4 DEF Forward, RecvQuery
    <2>2. PICK i : i = Taken + 1
      OBVIOUS
    <2>3. Taken \in Nat /\ i \in Nat /\ i - 1 = Taken /\ Foreign(i)
      BY <1>4, <2>1, <2>2, Departure, ForwardsForeign DEF Exchange
    <2>4. CASE free = 0 /\ UNCHANGED <<free, pc>>
      <3>1. Cardinality(Passed(Taken)) >= Sockets
        BY <2>3, <2>4, PassedFinite, BoundsAssumption DEF SocketsUsed
      <3>2. NoSocketFor(i)
        BY <2>3, <3>1 DEF NoSocketFor, Passed
      <3>3. NoSocketFor(i)'
        BY <2>1, <3>2 DEF NoSocketFor, Foreign
      <3> QED BY <2>1, <2>2, <3>3, Settling DEF Settled
    <2>5. CASE query' = Head(inbox) /\ pc' = "wait"
      <3>1. Head(inbox).id = i
        <4>1. Head(inbox).name # <<>>
          BY <1>4 DEF Forward, RecvQuery
        <4> QED BY <2>1, <2>2, <4>1, Departure DEF Exchange
      <3>2. Settled(i)'
        BY <2>5, <3>1 DEF Settled
      <3> QED BY <2>1, <2>2, <3>2, Settling
    <2> QED BY <1>4, <2>4, <2>5, ForwardsForeign
  <1>5. CASE Relay
    <2>1. pc = "wait" /\ UNCHANGED <<asked, inbox, query, free, other, replies>>
      BY <1>5 DEF Relay
    <2>2. PICK q \in replies : q[1] = free + 1 /\ Reply(query.from, q[2].id, FALSE, q[2])
      BY <1>5 DEF Relay
    <2>3. q[2] = query
      BY <2>1, <2>2 DEF Exchange, Forwarded
    <2>4. sent \subseteq sent' /\ \E r \in sent' : r.id = query.id
      <3>1. PICK n : n = [to |-> query.from, id |-> q[2].id, own |-> FALSE, packet |-> q[2]]
        OBVIOUS
      <3>2. n.id = query.id
        BY <2>3, <3>1
      <3>3. sent' = sent \cup {n}
        BY <2>2, <3>1 DEF Reply
      <3> QED BY <3>2, <3>3
    <2> QED BY <2>1, <2>4 DEF Accounted, Settled, Answered, NoSocketFor, Foreign, Taken, Ended
  <1>6. ASSUME NEW c \in Client, Ask(c) PROVE Accounted'
    <2>1. UNCHANGED <<pc, query, sent>>
      BY <1>6 DEF Ask
    <2>2. Taken' = Taken /\ Taken \in Nat /\ \A j \in 1 .. Taken : asked'[j] = asked[j]
      BY <1>6, Arrival, TakenType DEF Exchange
    <2>3. ASSUME NEW j \in 1 .. Taken
          PROVE  NoSocketFor(j) => NoSocketFor(j)'
      <3>1. Passed(j - 1)' = Passed(j - 1)
        BY <2>2, <2>3, PassedSame DEF Passed
      <3>2. Foreign(j)' = Foreign(j)
        BY <2>2 DEF Foreign
      <3> QED BY <3>1, <3>2 DEF NoSocketFor, Passed
    <2> QED BY <2>1, <2>2, <2>3 DEF Accounted, Settled, Answered
  <1>7. [Next]_vars =>
          \/ UNCHANGED <<asked, inbox, query, sent>> /\ (pc' = pc \/ pc = "load")
          \/ RecvEmpty \/ RecvRoot \/ Answer \/ Forward \/ Relay \/ \E c \in Client : Ask(c)
    BY DEF Next, Server, NextZone, LoadLine, OtherReplies, Lose, vars, serveVars
  <1> QED BY <1>1, <1>2, <1>3, <1>4, <1>5, <1>6, <1>7

(* No query that was taken is forgotten: until it is answered the server   *)
(* waits for it, unless it ended the program, or came after as many        *)
(* foreign ones as there are sockets.  (server.cpp:253, 264-276, 287)      *)
THEOREM NoQueryForgotten == RootsLong /\ WellWritten => (Spec => []Accounted)
  <1> SUFFICES ASSUME RootsLong, WellWritten PROVE Spec => []Accounted
    OBVIOUS
  <1> DEFINE Inv == /\ TypeOK /\ Exchange /\ Rooted /\ Filled /\ Marked
                    /\ SocketsUsed /\ Accounted
  <1>1. Init => Inv
    BY TypeInit, ExchangeInit, RootedInit, FilledInit, MarkedInit, SocketsInit, AccountedInit
  <1>2. Inv /\ [Next]_vars => Inv'
    BY TypeStep, ExchangeStep, RootedStep, FilledStep, MarkedStep, SocketsStep, AccountedStep
  <1>3. Inv => Accounted
    OBVIOUS
  <1> QED BY <1>1, <1>2, <1>3, PTL DEF Spec

=============================================================================
