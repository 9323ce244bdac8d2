-------------------------- MODULE ChatServerProofs --------------------------
(***************************************************************************)
(* Theorems about ChatServer for any number of entries and connections,    *)
(* any commands, characters and lines.  What ties the properties together  *)
(* is that maxi covers every entry in use (Covered), and that nready is    *)
(* what is left of the round at each of its steps, the accept included     *)
(* (Round).                                                                *)
(***************************************************************************)
EXTENDS ChatServer, SequenceTheorems, FiniteSetTheorems, WellFoundedInduction, TLAPS

Text == Char \cup {Nul}
States == {"none", "up", "fin", "reset", "timedout", "over"}

Covered == \A k \in Live : k <= maxi

Round ==
  fate = "running" =>
    /\ pc # "scan" => scan = 1
    /\ pc = "accept" => /\ revents \subseteq Live
                        /\ nready = Cardinality(revents) + 1
                        /\ \A k \in revents : Readable(k)

IInv == TypeOK /\ Covered /\ ViewCurrent /\ CountDrift /\ NameBegins
        /\ Round /\ RoundComplete

-----------------------------------------------------------------------------
(***************************************************************************)
(* Strings in arrays.                                                      *)
(***************************************************************************)
LEMMA Least ==
  ASSUME NEW T, T \subseteq Nat, T # {}
  PROVE  \E x \in T : \A y \in T : x <= y
<1>1. PICK x \in T : \A y \in T : ~ (<<y, x>> \in OpToRel(<, Nat))
  BY WFMin, NatLessThanWellFounded, Zenon
<1>2. ASSUME NEW y \in T, y < x
      PROVE  FALSE
  <2>1. y \in Nat /\ x \in Nat
    OBVIOUS
  <2> QED
    BY <1>1, <1>2, <2>1, Zenon DEF OpToRel
<1>3. \A y \in T : x <= y
  BY <1>2
<1> QED
  BY <1>3

(* The string in an array ends at the first Nul or at the array's end.     *)
LEMMA StrLenFacts ==
  ASSUME NEW b \in Seq(Text)
  PROVE  /\ StrLen(b) \in 0 .. Len(b)
         /\ StrLen(b) < Len(b) => b[StrLen(b) + 1] = Nul
         /\ \A m \in 1 .. StrLen(b) : b[m] # Nul
<1> DEFINE Nuls == {n \in Nat : n < Len(b) /\ b[n + 1] = Nul}
<1>0. Len(b) \in Nat
  BY LenProperties
<1>1. \E n \in 0 .. Len(b) : /\ n < Len(b) => b[n + 1] = Nul
                             /\ \A m \in 1 .. n : b[m] # Nul
  <2>1. CASE Nuls = {}
    <3>1. \A m \in 1 .. Len(b) : b[m] # Nul
      <4> SUFFICES ASSUME NEW m \in 1 .. Len(b), b[m] = Nul
                   PROVE  FALSE
        OBVIOUS
      <4>1. m - 1 \in Nat /\ m - 1 < Len(b) /\ (m - 1) + 1 = m
        BY <1>0
      <4> QED
        BY <2>1, <4>1
    <3> QED
      BY <1>0, <3>1
  <2>2. CASE Nuls # {}
    <3>1. PICK n \in Nuls : \A y \in Nuls : n <= y
      BY <2>2, Least
    <3>2. \A m \in 1 .. n : b[m] # Nul
      <4> SUFFICES ASSUME NEW m \in 1 .. n, b[m] = Nul
                   PROVE  FALSE
        OBVIOUS
      <4>1. m - 1 \in Nat /\ m - 1 < Len(b) /\ (m - 1) + 1 = m /\ ~ (n <= m - 1)
        BY <1>0, <3>1
      <4> QED
        BY <3>1, <4>1
    <3>3. n \in 0 .. Len(b) /\ b[n + 1] = Nul
      BY <1>0, <3>1
    <3> QED
      BY <3>2, <3>3
  <2> QED
    BY <2>1, <2>2
<1> QED
  BY <1>1 DEF StrLen

LEMMA OverFacts ==
  ASSUME NEW b \in Seq(Text), NEW t \in Seq(Text)
  PROVE  /\ Over(b, t) \in Seq(Text)
         /\ Len(Over(b, t)) >= Len(t)
         /\ \A m \in 1 .. Len(t) : Over(b, t)[m] = t[m]
<1> DEFINE rest == SubSeq(b, Len(t) + 1, Len(b))
<1>1. Len(b) \in Nat /\ Len(t) \in Nat
  BY LenProperties
<1>2. \A m \in Len(t) + 1 .. Len(b) : b[m] \in Text
  BY <1>1, ElementOfSeq
<1>3. rest \in Seq(Text) /\ Len(rest) \in Nat
  BY <1>1, <1>2, SubSeqProperties, LenProperties
<1> HIDE DEF rest
<1>4. /\ t \o rest \in Seq(Text) /\ Len(t \o rest) = Len(t) + Len(rest)
      /\ \A m \in 1 .. Len(t) : (t \o rest)[m] = t[m]
  BY <1>1, <1>3, ConcatProperties
<1> QED
  BY <1>1, <1>3, <1>4 DEF Over, rest

LEMMA CutFacts ==
  ASSUME NEW b \in Seq(Text), NEW n \in 1 .. Len(b)
  PROVE  /\ Cut(b, n) \in Seq(Text) /\ Len(Cut(b, n)) = Len(b)
         /\ Cut(b, n)[n] = Nul
         /\ \A m \in 1 .. Len(b) : m # n => Cut(b, n)[m] = b[m]
BY ExceptSeq DEF Cut, Text

(* A string that holds no Nul in its first n places is n long at least.    *)
LEMMA StrLenAtLeast ==
  ASSUME NEW b \in Seq(Text), NEW n \in Nat, n <= Len(b),
         \A m \in 1 .. n : b[m] # Nul
  PROVE  StrLen(b) >= n
<1>1. Len(b) \in Nat
  BY LenProperties
<1>2. SUFFICES ASSUME StrLen(b) < n
               PROVE  FALSE
  BY <1>1, StrLenFacts
<1>3. StrLen(b) + 1 \in 1 .. n /\ StrLen(b) < Len(b)
  BY <1>1, <1>2, StrLenFacts
<1> QED
  BY <1>3, StrLenFacts

(* What the array holds up to its Nul is text with no Nul.                    *)
LEMMA StringIsText ==
  ASSUME NEW b \in Seq(Text), NEW m \in Nat \ {0}
  PROVE  /\ SubSeq(b, m, StrLen(b)) \in Seq(Char)
         /\ Len(SubSeq(b, m, StrLen(b))) = IF m <= StrLen(b) THEN StrLen(b) - m + 1 ELSE 0
         /\ \A k \in 1 .. StrLen(b) - m + 1 : SubSeq(b, m, StrLen(b))[k] = b[m + k - 1]
<1>1. StrLen(b) \in Nat /\ StrLen(b) <= Len(b) /\ Len(b) \in Nat
  BY StrLenFacts, LenProperties
<1>2. \A k \in m .. StrLen(b) : b[k] \in Char
  <2> TAKE k \in m .. StrLen(b)
  <2>1. k \in 1 .. Len(b) /\ k \in 1 .. StrLen(b)
    BY <1>1
  <2> QED
    BY <2>1, ElementOfSeq, StrLenFacts DEF Text
<1> QED
  BY <1>1, <1>2, SubSeqProperties

-----------------------------------------------------------------------------
(***************************************************************************)
(* A line that was read, and the name made of it.                          *)
(***************************************************************************)
LEMMA LineRead ==
  ASSUME NEW t \in Seq(Char), t # <<>>, NEW a \in Seq(Text)
  PROVE  /\ Len(t) \in Nat \ {0}
         /\ Over(a, t) \in Seq(Text) /\ Len(Over(a, t)) >= Len(t)
         /\ \A m \in 1 .. Len(t) : Over(a, t)[m] = t[m]
         /\ StrLen(Over(a, t)) >= Len(t)
<1>1. Len(t) \in Nat \ {0} /\ t \in Seq(Text)
  BY EmptySeq, SeqMonotonic DEF Text
<1>2. /\ Over(a, t) \in Seq(Text) /\ Len(Over(a, t)) >= Len(t)
      /\ \A m \in 1 .. Len(t) : Over(a, t)[m] = t[m]
  BY <1>1, OverFacts
<1>3. \A m \in 1 .. Len(t) : Over(a, t)[m] # Nul
  BY <1>2, ElementOfSeq, CharsAssumption
<1> QED
  BY <1>1, <1>2, <1>3, StrLenAtLeast

LEMMA NameLength == Len(Name) \in Nat
<1>1. Name \in Seq(Char \ {NL})
  BY CharsAssumption
<1> QED
  BY <1>1, LenProperties

LEMMA ArgumentFacts ==
  ASSUME NEW t \in Seq(Char), t # <<>>
  PROVE  /\ Argument(t) \in Seq(Char)
         /\ Len(Argument(t)) \in Nat
         /\ Argument(t) # <<>> => Len(Argument(t)) + Len(Name) + 2 <= Len(t)
         /\ \A m \in 1 .. Len(Argument(t)) : Argument(t)[m] = t[m + Len(Name) + 1]
<1> DEFINE from == Len(Name) + 2
           ends == {n \in from .. Len(t) : t[n] = NL}
<1>0. Len(t) \in Nat /\ Len(Name) \in Nat
  BY LenProperties, NameLength
<1>1. CASE ends = {} \/ t[from - 1] = NL
  BY <1>1, EmptySeq DEF Argument
<1>2. CASE ends # {} /\ t[from - 1] # NL
  <2> DEFINE e == CHOOSE n \in ends : \A m \in ends : n <= m
  <2>1. e \in ends
    <3>0. ends \subseteq Nat
      BY <1>0
    <3>1. \E n \in ends : \A m \in ends : n <= m
      BY <1>2, <3>0, Least
    <3> QED
      BY <3>1
  <2>2. Argument(t) = SubSeq(t, from, e - 1)
    BY <1>2 DEF Argument
  <2>3. e \in from .. Len(t)
    BY <2>1
  <2> HIDE DEF e
  <2>4. \A k \in from .. e - 1 : t[k] \in Char
    BY <1>0, <2>3, ElementOfSeq
  <2>5. /\ SubSeq(t, from, e - 1) \in Seq(Char)
        /\ Len(SubSeq(t, from, e - 1)) = IF from <= e - 1 THEN e - 1 - from + 1 ELSE 0
        /\ \A k \in 1 .. e - 1 - from + 1 : SubSeq(t, from, e - 1)[k] = t[from + k - 1]
    BY <1>0, <2>3, <2>4, SubSeqProperties
  <2>6. Len(Argument(t)) = e - from
    BY <1>0, <2>2, <2>3, <2>5
  <2>7. \A k \in 1 .. e - from : Argument(t)[k] = t[k + Len(Name) + 1]
    <3> TAKE k \in 1 .. e - from
    <3>1. k \in 1 .. e - 1 - from + 1 /\ from + k - 1 = k + Len(Name) + 1
      BY <1>0, <2>3
    <3> QED
      BY <2>2, <2>5, <3>1
  <2> QED
    BY <1>0, <2>2, <2>3, <2>5, <2>6, <2>7
<1> QED
  BY <1>1, <1>2

(* A complete name is never cut: what follows it in the line is cut.       *)
LEMMA RenameFacts ==
  ASSUME TypeOK, NEW i \in Slot, NEW t \in Seq(Char), t # <<>>,
         NEW b, b = Over(buf, t), Rename(i, t, b)
  PROVE  /\ newname' \in Seq(Text)
         /\ nameStr' \in [Slot -> Seq(Char)]
         /\ asked' \in [Slot -> Seq(Char)]
         /\ \A k \in Slot \ {i} : nameStr'[k] = nameStr[k] /\ asked'[k] = asked[k]
         /\ SubSeq(nameStr'[i], 1, Len(asked'[i])) = asked'[i]
<1> DEFINE c == Len(Name)
           src == Source(b)
           arg == Argument(t)
           n == StrLen(Renamed(b))
<1>0. c \in Nat
  BY NameLength
<1> HIDE DEF c
<1>1. /\ newname \in Seq(Text) /\ buf \in Seq(Text)
      /\ nameStr \in [Slot -> Seq(Char)] /\ asked \in [Slot -> Seq(Char)]
  BY DEF TypeOK, Text
<1>2. /\ newname' = IF n = 0 THEN newname ELSE Cut(Renamed(b), n)
      /\ nameStr' = [nameStr EXCEPT ![i] = SubSeq(newname', 1, StrLen(newname'))]
      /\ asked' = [asked EXCEPT ![i] = arg]
  BY DEF Rename
<1>3. /\ Len(t) \in Nat \ {0} /\ b \in Seq(Text) /\ Len(b) >= Len(t)
      /\ \A m \in 1 .. Len(t) : b[m] = t[m]
      /\ StrLen(b) >= Len(t) /\ StrLen(b) \in Nat
  BY <1>1, LineRead, StrLenFacts
<1>4. /\ src \in Seq(Char) /\ Len(src) \in Nat
      /\ StrLen(b) >= c + 2 => Len(src) = StrLen(b) - (c + 1)
      /\ \A k \in 1 .. StrLen(b) - (c + 1) : src[k] = b[k + c + 1]
  <2>1. /\ SubSeq(b, c + 2, StrLen(b)) \in Seq(Char)
        /\ Len(SubSeq(b, c + 2, StrLen(b))) = IF c + 2 <= StrLen(b) THEN StrLen(b) - (c + 2) + 1 ELSE 0
        /\ \A k \in 1 .. StrLen(b) - (c + 2) + 1 : SubSeq(b, c + 2, StrLen(b))[k] = b[c + 2 + k - 1]
    <3>1. b \in Seq(Text) /\ c + 2 \in Nat \ {0}
      BY <1>0, <1>3
    <3> HIDE DEF Text
    <3> QED
      BY ONLY <3>1, StringIsText
  <2>2. \A k \in 1 .. StrLen(b) - (c + 1) : src[k] = b[k + c + 1]
    <3> TAKE k \in 1 .. StrLen(b) - (c + 1)
    <3>1. k \in 1 .. StrLen(b) - (c + 2) + 1 /\ c + 2 + k - 1 = k + c + 1
      BY <1>0, <1>3
    <3> QED
      BY <2>1, <3>1 DEF Source, c
  <2> QED
    BY <1>0, <1>3, <2>1, <2>2, LenProperties DEF Source, c
<1> HIDE DEF src
<1>5. /\ Renamed(b) \in Seq(Text) /\ Len(Renamed(b)) >= Len(src)
      /\ Len(Renamed(b)) \in Nat
      /\ \A m \in 1 .. Len(src) : Renamed(b)[m] = src[m]
  <2>1. src \in Seq(Text)
    BY <1>4, SeqMonotonic DEF Text
  <2> QED
    BY <1>1, <2>1, OverFacts, LenProperties DEF Renamed, src
<1>6. n \in 0 .. Len(Renamed(b)) /\ n >= Len(src)
  <2>1. \A m \in 1 .. Len(src) : Renamed(b)[m] # Nul
    BY <1>4, <1>5, ElementOfSeq, CharsAssumption
  <2> QED
    BY <1>4, <1>5, <2>1, StrLenFacts, StrLenAtLeast
<1> HIDE DEF n
<1>7. /\ newname' \in Seq(Text)
      /\ n # 0 => /\ Len(newname') = Len(Renamed(b))
                  /\ \A m \in 1 .. n - 1 : newname'[m] = Renamed(b)[m]
  <2>1. CASE n = 0
    BY <1>1, <1>2, <2>1
  <2>2. CASE n # 0
    <3>1. n \in 1 .. Len(Renamed(b)) /\ newname' = Cut(Renamed(b), n)
      BY <1>2, <1>5, <1>6, <2>2
    <3>2. /\ newname' \in Seq(Text) /\ Len(newname') = Len(Renamed(b))
          /\ \A m \in 1 .. Len(Renamed(b)) : m # n => newname'[m] = Renamed(b)[m]
      BY <1>5, <3>1, CutFacts
    <3>3. \A m \in 1 .. n - 1 : m \in 1 .. Len(Renamed(b)) /\ m # n
      BY <1>5, <3>1
    <3> QED
      BY <3>2, <3>3
  <2> QED
    BY <2>1, <2>2
<1>8. /\ SubSeq(newname', 1, StrLen(newname')) \in Seq(Char)
      /\ Len(SubSeq(newname', 1, StrLen(newname'))) = StrLen(newname')
      /\ \A k \in 1 .. StrLen(newname') :
           SubSeq(newname', 1, StrLen(newname'))[k] = newname'[k]
  <2>1. StrLen(newname') \in Nat
    BY <1>7, StrLenFacts
  <2>2. /\ SubSeq(newname', 1, StrLen(newname')) \in Seq(Char)
        /\ Len(SubSeq(newname', 1, StrLen(newname')))
             = IF 1 <= StrLen(newname') THEN StrLen(newname') - 1 + 1 ELSE 0
        /\ \A k \in 1 .. StrLen(newname') - 1 + 1 :
             SubSeq(newname', 1, StrLen(newname'))[k] = newname'[1 + k - 1]
    BY <1>7, StringIsText
  <2>3. \A k \in 1 .. StrLen(newname') :
           SubSeq(newname', 1, StrLen(newname'))[k] = newname'[k]
    <3> TAKE k \in 1 .. StrLen(newname')
    <3>1. k \in 1 .. StrLen(newname') - 1 + 1 /\ 1 + k - 1 = k
      BY <2>1
    <3> QED
      BY <2>2, <3>1
  <2> QED
    BY <2>1, <2>2, <2>3
<1>9. /\ arg \in Seq(Char) /\ Len(arg) \in Nat
      /\ arg # <<>> => Len(arg) + c + 2 <= Len(t)
      /\ \A m \in 1 .. Len(arg) : arg[m] = t[m + c + 1]
  BY ArgumentFacts DEF c
<1> HIDE DEF arg
<1>10. SubSeq(nameStr'[i], 1, Len(arg)) = arg
  <2> DEFINE new == SubSeq(newname', 1, StrLen(newname'))
  <2>0. nameStr'[i] = new
    BY <1>1, <1>2
  <2>1. CASE arg = <<>>
    BY <2>1, <2>0, <1>8, SubSeqEmpty, EmptySeq
  <2>2. CASE arg # <<>>
    <3>1. Len(arg) + 1 <= Len(src) /\ n # 0 /\ Len(arg) <= n - 1
      BY <2>2, <1>0, <1>3, <1>4, <1>6, <1>9
    <3>2. \A m \in 1 .. Len(arg) : newname'[m] = arg[m]
      <4> TAKE m \in 1 .. Len(arg)
      <4>1. /\ m \in 1 .. n - 1 /\ m \in 1 .. Len(src) /\ m \in 1 .. StrLen(b) - (c + 1)
            /\ m + c + 1 \in 1 .. Len(t)
        BY <2>2, <3>1, <1>0, <1>3, <1>4, <1>6, <1>9
      <4> QED
        BY <4>1, <1>3, <1>4, <1>5, <1>7, <1>9, <3>1
    <3>3. \A m \in 1 .. Len(arg) : newname'[m] # Nul
      BY <3>2, <1>9, ElementOfSeq, CharsAssumption
    <3>4. Len(arg) <= StrLen(newname') /\ StrLen(newname') \in Nat
      BY <3>1, <3>3, <1>5, <1>6, <1>7, <1>9, StrLenAtLeast, StrLenFacts
    <3> HIDE DEF new
    <3>5. \A m \in 1 .. Len(arg) : new[m] = arg[m] /\ new[m] \in Char
      <4> TAKE m \in 1 .. Len(arg)
      <4>1. m \in 1 .. StrLen(newname')
        BY <3>4, <1>9
      <4> QED
        BY <4>1, <1>8, <1>9, <3>2, ElementOfSeq DEF new
    <3>6. /\ SubSeq(new, 1, Len(arg)) \in Seq(Char)
          /\ Len(SubSeq(new, 1, Len(arg))) = IF 1 <= Len(arg) THEN Len(arg) - 1 + 1 ELSE 0
          /\ \A k \in 1 .. Len(arg) - 1 + 1 : SubSeq(new, 1, Len(arg))[k] = new[1 + k - 1]
      BY <3>5, <1>9, SubSeqProperties
    <3>7. \A k \in 1 .. Len(arg) : SubSeq(new, 1, Len(arg))[k] = arg[k]
      <4> TAKE k \in 1 .. Len(arg)
      <4>1. k \in 1 .. Len(arg) - 1 + 1 /\ 1 + k - 1 = k
        BY <1>9
      <4> QED
        BY <4>1, <3>5, <3>6
    <3>8. Len(SubSeq(new, 1, Len(arg))) = Len(arg)
      BY <1>9, <3>6
    <3>9. SubSeq(new, 1, Len(arg)) = arg
      BY <1>9, <3>6, <3>7, <3>8, SeqEqual
    <3> QED
      BY <2>0, <3>9
  <2> QED
    BY <2>1, <2>2
<1> QED
  BY <1>1, <1>2, <1>7, <1>8, <1>9, <1>10

-----------------------------------------------------------------------------
(***************************************************************************)
(* Who is there, after each step.                                          *)
(***************************************************************************)
LEMMA TellFacts ==
  ASSUME NEW S, NEW p \in [Slot -> States]
  PROVE  /\ Tell(S, p) \in [Slot -> States]
         /\ \A k \in Slot : /\ Tell(S, p)[k] = "none" <=> p[k] = "none"
                            /\ p[k] = "up" <=> Tell(S, p)[k] = "up"
BY DEF Tell, States

Command(i, t, b) == \/ Rename(i, t, b) \/ RenameOverflows(b)
                    \/ ListNames(i, b) \/ WrongCommand(i, t, b) \/ Chat(i, t, b)

LEMMA CommandFacts ==
  ASSUME TypeOK, NEW i \in Slot, NEW t \in Seq(Char), t # <<>>,
         NEW b, b = Over(buf, t), Command(i, t, b)
  PROVE  /\ \/ peer' = peer
            \/ \E S : peer' = Tell(S, peer)
         /\ fate' \in {fate, "overflow"}
         /\ stalled' = stalled
         /\ newname' \in Seq(Text) /\ buf' \in Seq(Text)
         /\ nameStr' \in [Slot -> Seq(Char)] /\ asked' \in [Slot -> Seq(Char)]
         /\ \A k \in Slot : \/ nameStr'[k] = nameStr[k] /\ asked'[k] = asked[k]
                            \/ SubSeq(nameStr'[k], 1, Len(asked'[k])) = asked'[k]
<1>0. /\ newname \in Seq(Text) /\ buf \in Seq(Text)
      /\ nameStr \in [Slot -> Seq(Char)] /\ asked \in [Slot -> Seq(Char)]
  BY DEF TypeOK, Text
<1>1. b \in Seq(Text) /\ Cut(b, Len(t)) \in Seq(Text)
  <2>1. b \in Seq(Text) /\ Len(t) \in 1 .. Len(b)
    BY <1>0, LineRead, LenProperties
  <2> QED
    BY <2>1, CutFacts
<1>2. CASE Rename(i, t, b)
  <2>1. /\ newname' \in Seq(Text)
        /\ nameStr' \in [Slot -> Seq(Char)]
        /\ asked' \in [Slot -> Seq(Char)]
        /\ \A k \in Slot \ {i} : nameStr'[k] = nameStr[k] /\ asked'[k] = asked[k]
        /\ SubSeq(nameStr'[i], 1, Len(asked'[i])) = asked'[i]
    BY <1>2, RenameFacts
  <2>2. buf' = b /\ peer' = Tell(Audience(i) \cup {i}, peer) /\ fate' = fate
        /\ stalled' = stalled
    BY <1>2 DEF Rename, Room
  <2> QED
    BY <1>1, <2>1, <2>2
<1>3. CASE RenameOverflows(b)
  BY <1>0, <1>3 DEF RenameOverflows, names
<1>4. CASE ListNames(i, b)
  BY <1>0, <1>1, <1>4 DEF ListNames, Room
<1>5. CASE WrongCommand(i, t, b) \/ Chat(i, t, b)
  BY <1>0, <1>1, <1>5 DEF WrongCommand, Chat, Room
<1> QED
  BY <1>2, <1>3, <1>4, <1>5 DEF Command

(* ReadLine with its parts named.                                          *)
LEMMA ReadLineFacts ==
  ASSUME TypeOK, NEW i \in Slot, ReadLine(i)
  PROVE  /\ fate = "running" /\ pc = "scan" /\ Turn(i) /\ Served(i)
         /\ peer' \in [Slot -> States]
         /\ \A k \in Slot : peer'[k] = "none" <=> peer[k] = "none"
         /\ \A k \in Slot : peer[k] # "up" /\ peer[k] # "none"
                            => peer'[k] # "up" /\ peer'[k] # "none"
         /\ fate' \in {fate, "overflow"}
         /\ stalled' = stalled
         /\ newname' \in Seq(Text) /\ buf' \in Seq(Text)
         /\ nameStr' \in [Slot -> Seq(Char)] /\ asked' \in [Slot -> Seq(Char)]
         /\ \A k \in Slot : \/ nameStr'[k] = nameStr[k] /\ asked'[k] = asked[k]
                            \/ SubSeq(nameStr'[k], 1, Len(asked'[k])) = asked'[k]
         /\ unread' = [unread EXCEPT ![i] = <<>>]
         /\ UNCHANGED <<backlog, conns, sent, people>>
<1>1. unread[i] \in Seq(Char) /\ unread[i] # <<>> /\ peer \in [Slot -> States]
  BY DEF TypeOK, ReadLine, States
<1>2. Command(i, unread[i], Over(buf, unread[i]))
  BY DEF ReadLine, Command
<1>3. /\ \/ peer' = peer
         \/ \E S : peer' = Tell(S, peer)
      /\ fate' \in {fate, "overflow"}
      /\ stalled' = stalled
      /\ newname' \in Seq(Text) /\ buf' \in Seq(Text)
      /\ nameStr' \in [Slot -> Seq(Char)] /\ asked' \in [Slot -> Seq(Char)]
      /\ \A k \in Slot : \/ nameStr'[k] = nameStr[k] /\ asked'[k] = asked[k]
                         \/ SubSeq(nameStr'[k], 1, Len(asked'[k])) = asked'[k]
  BY <1>1, <1>2, CommandFacts
<1>4. /\ peer' \in [Slot -> States]
      /\ \A k \in Slot : /\ peer'[k] = "none" <=> peer[k] = "none"
                         /\ peer[k] = "up" <=> peer'[k] = "up"
  <2>1. CASE peer' = peer
    BY <1>1, <2>1
  <2>2. CASE \E S : peer' = Tell(S, peer)
    <3>1. PICK S : peer' = Tell(S, peer)
      BY <2>2
    <3> QED
      BY <1>1, <3>1, TellFacts
  <2> QED
    BY <1>3, <2>1, <2>2
<1> QED
  BY <1>3, <1>4 DEF ReadLine

LEMMA SlotSets ==
  ASSUME NEW S, S \subseteq Slot
  PROVE  IsFiniteSet(S) /\ Cardinality(S) \in Nat
<1>1. IsFiniteSet(Slot)
  BY FS_Interval, SizesAssumption DEF Slot
<1> QED
  BY <1>1, FS_Subset, FS_CardinalityType

LEMMA TypeInit == Init => TypeOK
BY EmptySeq, SizesAssumption DEF Init, TypeOK

(* An accept with its entry named.                                         *)
LEMMA AcceptFacts ==
  ASSUME TypeOK, AcceptClient
  PROVE  \E i \in Slot :
           /\ i \notin Live /\ Live' = Live \cup {i}
           /\ peer' \in [Slot -> States]
           /\ \A k \in Slot \ {i} : peer[k] # "up" /\ peer[k] # "none" => peer'[k] # "up"
           /\ Raise(i) /\ howManyUsers' = howManyUsers + 1
           /\ nameStr' = [nameStr EXCEPT ![i] = Default]
           /\ asked' = [asked EXCEPT ![i] = Default]
           /\ view' = [k \in Slot |-> IF k = i THEN Live
                                      ELSE IF k \in Audience(i) THEN view[k] \cup {i}
                                      ELSE view[k]]
           /\ dropped' = dropped \ {i} /\ resets' = resets
<1>1. PICK i \in Slot : /\ Seated(i) /\ Raise(i) /\ Arrive(i)
                        /\ nameStr' = [nameStr EXCEPT ![i] = Default]
                        /\ asked' = [asked EXCEPT ![i] = Default]
  BY DEF AcceptClient
<1>2. peer \in [Slot -> States]
  BY DEF TypeOK, States
<1>3. /\ Tell(Audience(i), peer) \in [Slot -> States]
      /\ \A k \in Slot : /\ Tell(Audience(i), peer)[k] = "none" <=> peer[k] = "none"
                         /\ peer[k] = "up" <=> Tell(Audience(i), peer)[k] = "up"
  BY <1>2, TellFacts
<1>4. peer' = [Tell(Audience(i), peer) EXCEPT ![i] = "up"]
  BY <1>1 DEF Arrive
<1>5. peer' \in [Slot -> States] /\ peer'[i] = "up"
      /\ \A k \in Slot \ {i} : peer'[k] = Tell(Audience(i), peer)[k]
  BY <1>3, <1>4 DEF States
<1>6. i \notin Live /\ Live' = Live \cup {i}
  BY <1>1, <1>3, <1>5 DEF Seated, Live
<1> QED
  BY <1>1, <1>3, <1>5, <1>6 DEF Arrive

(* The end of a file: LEAVE is sent and the entry freed.                   *)
LEMMA EofFacts ==
  ASSUME TypeOK, NEW i \in Slot, ReadEof(i)
  PROVE  /\ i \in Live /\ Live' = Live \ {i}
         /\ peer' \in [Slot -> States]
         /\ \A k \in Slot \ {i} : peer[k] # "up" /\ peer[k] # "none" => peer'[k] # "up"
<1>2. peer \in [Slot -> States]
  BY DEF TypeOK, States
<1>3. /\ Tell(Audience(i), peer) \in [Slot -> States]
      /\ \A k \in Slot : /\ Tell(Audience(i), peer)[k] = "none" <=> peer[k] = "none"
                         /\ peer[k] = "up" <=> Tell(Audience(i), peer)[k] = "up"
  BY <1>2, TellFacts
<1>4. peer' = [Tell(Audience(i), peer) EXCEPT ![i] = "none"] /\ peer[i] # "none"
  BY DEF ReadEof
<1>5. peer' \in [Slot -> States] /\ peer'[i] = "none"
      /\ \A k \in Slot \ {i} : peer'[k] = Tell(Audience(i), peer)[k]
  BY <1>3, <1>4 DEF States
<1> QED
  BY <1>3, <1>4, <1>5 DEF Live

LEMMA ServedType ==
  ASSUME TypeOK, NEW i \in Slot, Served(i)
  PROVE  /\ pc' \in {"poll", "scan"} /\ scan' \in Nat \ {0}
         /\ nready' \in Int /\ revents' = revents /\ maxi' = maxi
BY SizesAssumption DEF TypeOK, Served, Slot

LEMMA TypeStep ==
  ASSUME TypeOK, RoundComplete, [Next]_vars
  PROVE  TypeOK'
<1>1. CASE MyPoll
  <2>1. Cardinality(Ready) \in Nat /\ Ready \subseteq Slot
    BY SlotSets DEF Ready, Live
  <2> QED
    BY <1>1, <2>1 DEF TypeOK, MyPoll, names, net, people
<1>2. CASE AcceptClient
  <2>1. PICK i \in Slot :
           /\ peer' \in [Slot -> States]
           /\ Raise(i) /\ howManyUsers' = howManyUsers + 1
           /\ nameStr' = [nameStr EXCEPT ![i] = Default]
           /\ asked' = [asked EXCEPT ![i] = Default]
           /\ view' = [k \in Slot |-> IF k = i THEN Live
                                      ELSE IF k \in Audience(i) THEN view[k] \cup {i}
                                      ELSE view[k]]
           /\ dropped' = dropped \ {i} /\ resets' = resets
    BY <1>2, AcceptFacts
  <2>2. view' \in [Slot -> SUBSET Slot]
    BY <2>1 DEF TypeOK, Live
  <2>3. /\ nameStr' \in [Slot -> Seq(Char)] /\ asked' \in [Slot -> Seq(Char)]
        /\ maxi' \in {0} \cup Slot
    BY <2>1, CharsAssumption DEF TypeOK, Raise
  <2>4. /\ pc' \in {"poll", "scan"} /\ nready' \in Int
        /\ UNCHANGED <<fate, scan, revents, newname, buf, unread, conns, sent, stalled>>
    BY <1>2 DEF AcceptClient, Accepted, Room, TypeOK
  <2>5. backlog' \in Nat
    BY <1>2 DEF AcceptClient, RoundComplete, TypeOK
  <2> QED
    BY <2>1, <2>2, <2>3, <2>4, <2>5 DEF TypeOK, States
<1>3. CASE TooMany
  BY <1>3 DEF TooMany, TypeOK, loop, names, net, people
<1>4. ASSUME NEW i \in Slot, ReadLine(i)
      PROVE  TypeOK'
  <2>1. unread' \in [Slot -> Seq(Char)]
    <3>1. unread' = [unread EXCEPT ![i] = <<>>]
      BY <1>4, ReadLineFacts
    <3>2. <<>> \in Seq(Char) /\ unread \in [Slot -> Seq(Char)]
      BY EmptySeq DEF TypeOK
    <3> QED
      BY <3>1, <3>2
  <2>2. UNCHANGED <<backlog, conns, sent, howManyUsers, view, dropped, resets, stalled>>
    BY <1>4, ReadLineFacts DEF people
  <2>3. /\ peer' \in [Slot -> States] /\ fate' \in {fate, "overflow"}
        /\ newname' \in Seq(Text) /\ buf' \in Seq(Text)
        /\ nameStr' \in [Slot -> Seq(Char)] /\ asked' \in [Slot -> Seq(Char)]
        /\ Served(i)
    BY <1>4, ReadLineFacts
  <2> QED
    BY <2>1, <2>2, <2>3, ServedType DEF TypeOK, States, Text
<1>5. ASSUME NEW i \in Slot, ReadEof(i)
      PROVE  TypeOK'
  <2>1. /\ Served(i) /\ howManyUsers' = howManyUsers - 1
        /\ view' = [k \in Slot |-> IF k \in Audience(i) THEN view[k] \ {i} ELSE view[k]]
        /\ UNCHANGED <<fate, names, backlog, unread, conns, sent, dropped, resets>>
        /\ stalled' = stalled \ {i}
    BY <1>5 DEF ReadEof
  <2>2. peer' \in [Slot -> States]
    BY <1>5, EofFacts
  <2> QED
    BY <2>1, <2>2, ServedType DEF TypeOK, States, names
<1>6. ASSUME NEW i \in Slot, ReadReset(i)
      PROVE  TypeOK'
  <2>1. Served(i)
    BY <1>6 DEF ReadReset
  <2> QED
    BY <1>6, <2>1, ServedType DEF ReadReset, TypeOK, names
<1>7. ASSUME NEW i \in Slot, ReadError(i)
      PROVE  TypeOK'
  BY <1>7 DEF ReadError, TypeOK, loop, names, net, people
<1>8. CASE Connect
  BY <1>8 DEF Connect, TypeOK, loop, names, people
<1>9. ASSUME NEW k \in Slot, Depart(k)
      PROVE  TypeOK'
  BY <1>9 DEF Depart, TypeOK, loop, names, people
<1>10. ASSUME NEW k \in Slot, NEW t \in Lines, Send(k, t)
       PROVE  TypeOK'
  <2>1. unread[k] \o t \in Seq(Char)
    BY CharsAssumption, ConcatProperties DEF TypeOK
  <2> QED
    BY <1>10, <2>1 DEF Send, TypeOK, loop, names, people
<1>11. ASSUME NEW k \in Slot, Stall(k) \/ Drain(k)
       PROVE  TypeOK'
  BY <1>11 DEF Stall, Drain, TypeOK, loop, names, net, people
<1>12. CASE UNCHANGED vars
  BY <1>12 DEF vars, TypeOK, loop, names, net, people
<1> QED
  BY <1>1, <1>2, <1>3, <1>4, <1>5, <1>6, <1>7, <1>8, <1>9, <1>10, <1>11, <1>12,
     BoundsAssumption
  DEF Next, Server, Clients

-----------------------------------------------------------------------------
(***************************************************************************)
(* The steps that neither bring nor remove a client.                       *)
(***************************************************************************)
Stays == /\ Live' = Live /\ UNCHANGED <<maxi, people>>
         /\ \A k \in Slot : \/ nameStr'[k] = nameStr[k] /\ asked'[k] = asked[k]
                            \/ SubSeq(nameStr'[k], 1, Len(asked'[k])) = asked'[k]

LEMMA StaysStep ==
  ASSUME TypeOK, Covered, ViewCurrent, CountDrift, NameBegins, Stays
  PROVE  Covered' /\ ViewCurrent' /\ CountDrift' /\ NameBegins'
<1>1. Live \subseteq Slot
  BY DEF Live
<1>2. Covered' /\ CountDrift'
  BY DEF Stays, Covered, CountDrift, people
<1>3. ViewCurrent'
  BY DEF Stays, ViewCurrent, people
<1>4. NameBegins'
  BY <1>1 DEF Stays, NameBegins
<1> QED
  BY <1>2, <1>3, <1>4

(* Every step stays, or is an arrival or one of the two departures.        *)
LEMMA StepKinds ==
  ASSUME TypeOK, [Next]_vars
  PROVE  \/ Stays \/ AcceptClient
         \/ \E i \in Slot : ReadEof(i) \/ ReadReset(i)
<1>1. CASE MyPoll
  BY <1>1 DEF MyPoll, Stays, Live, names, net
<1>2. CASE TooMany
  BY <1>2 DEF TooMany, Stays, Live, names, net, loop
<1>3. ASSUME NEW i \in Slot, ReadLine(i)
      PROVE  Stays
  <2>1. Live' = Live
    BY <1>3, ReadLineFacts DEF Live
  <2>2. maxi' = maxi /\ UNCHANGED people
    BY <1>3, ReadLineFacts DEF Served
  <2> QED
    BY <1>3, <2>1, <2>2, ReadLineFacts DEF Stays
<1>4. ASSUME NEW i \in Slot, ReadError(i)
      PROVE  Stays
  BY <1>4 DEF ReadError, Stays, Live, names, net, loop
<1>5. CASE Connect
  BY <1>5 DEF Connect, Stays, Live, names, loop
<1>6. ASSUME NEW k \in Slot, Depart(k)
      PROVE  Stays
  <2>1. \A j \in Slot : peer'[j] = "none" <=> peer[j] = "none"
    BY <1>6 DEF Depart, TypeOK
  <2> QED
    BY <1>6, <2>1 DEF Depart, Stays, Live, names, loop
<1>7. ASSUME NEW k \in Slot, NEW t \in Lines, Send(k, t)
      PROVE  Stays
  BY <1>7 DEF Send, Stays, Live, names, loop
<1>8. ASSUME NEW k \in Slot, Stall(k) \/ Drain(k)
      PROVE  Stays
  BY <1>8 DEF Stall, Drain, Stays, Live, names, net, loop
<1>9. CASE UNCHANGED vars
  BY <1>9 DEF vars, Stays, Live, names, net, loop
<1> QED
  BY <1>1, <1>2, <1>3, <1>4, <1>5, <1>6, <1>7, <1>8, <1>9, BoundsAssumption
  DEF Next, Server, Clients

LEMMA AcceptStep ==
  ASSUME TypeOK, Covered, ViewCurrent, CountDrift, NameBegins, AcceptClient
  PROVE  Covered' /\ ViewCurrent' /\ CountDrift' /\ NameBegins'
<1>1. PICK i \in Slot :
           /\ i \notin Live /\ Live' = Live \cup {i}
           /\ Raise(i) /\ howManyUsers' = howManyUsers + 1
           /\ nameStr' = [nameStr EXCEPT ![i] = Default]
           /\ asked' = [asked EXCEPT ![i] = Default]
           /\ view' = [k \in Slot |-> IF k = i THEN Live
                                      ELSE IF k \in Audience(i) THEN view[k] \cup {i}
                                      ELSE view[k]]
           /\ dropped' = dropped \ {i} /\ resets' = resets
  BY AcceptFacts
<1>2. Live \subseteq Slot
  BY DEF Live
<1>3. Audience(i) = Live
  BY <1>1, <1>2 DEF Audience, Covered
<1>4. Covered'
  BY <1>1, <1>2, SizesAssumption DEF Covered, Raise, TypeOK, Slot
<1>5. ViewCurrent'
  <2> SUFFICES ASSUME NEW k \in Live'
               PROVE  /\ Live' \ {k} \subseteq view'[k]
                      /\ view'[k] \subseteq (Live' \ {k}) \cup dropped'
    BY DEF ViewCurrent
  <2>1. CASE k = i
    BY <1>1, <2>1
  <2>2. CASE k # i
    <3>1. k \in Live /\ view'[k] = view[k] \cup {i}
      BY <1>1, <1>2, <1>3, <2>2
    <3>2. Live \ {k} \subseteq view[k] /\ view[k] \subseteq (Live \ {k}) \cup dropped
      BY <3>1 DEF ViewCurrent
    <3> QED
      BY <1>1, <2>2, <3>1, <3>2
  <2> QED
    BY <2>1, <2>2
<1>6. CountDrift'
  <2>1. IsFiniteSet(Live) /\ Cardinality(Live) \in Nat
    BY <1>2, SlotSets
  <2>2. Cardinality(Live') = Cardinality(Live) + 1
    BY <1>1, <2>1, FS_AddElement
  <2> QED
    BY <1>1, <2>1, <2>2 DEF CountDrift, TypeOK
<1>7. NameBegins'
  <2> SUFFICES ASSUME NEW k \in Live'
               PROVE  SubSeq(nameStr'[k], 1, Len(asked'[k])) = asked'[k]
    BY DEF NameBegins
  <2>1. CASE k = i
    <3>1. nameStr'[k] = Default /\ asked'[k] = Default
      BY <1>1, <2>1 DEF TypeOK
    <3> QED
      BY <3>1, CharsAssumption, SubSeqFull
  <2>2. CASE k # i
    <3>1. nameStr'[k] = nameStr[k] /\ asked'[k] = asked[k] /\ k \in Live
      BY <1>1, <1>2, <2>2 DEF TypeOK
    <3> QED
      BY <3>1 DEF NameBegins
  <2> QED
    BY <2>1, <2>2
<1> QED
  BY <1>4, <1>5, <1>6, <1>7

LEMMA DepartureStep ==
  ASSUME TypeOK, Covered, ViewCurrent, CountDrift, NameBegins,
         NEW i \in Slot, ReadEof(i) \/ ReadReset(i)
  PROVE  Covered' /\ ViewCurrent' /\ CountDrift' /\ NameBegins'
<1>1. Live \subseteq Slot /\ IsFiniteSet(Live) /\ Cardinality(Live) \in Nat
  BY SlotSets DEF Live
<1>2. i \in Live /\ Live' = Live \ {i} /\ maxi' = maxi /\ UNCHANGED names
  <2>1. CASE ReadEof(i)
    BY <2>1, EofFacts DEF ReadEof, Served
  <2>2. CASE ReadReset(i)
    BY <2>2 DEF ReadReset, Served, Live, TypeOK
  <2> QED
    BY <2>1, <2>2
<1>3. Cardinality(Live') = Cardinality(Live) - 1
  BY <1>1, <1>2, FS_RemoveElement
<1>4. Covered' /\ NameBegins'
  BY <1>2 DEF Covered, NameBegins, names
<1>5. CASE ReadEof(i)
  <2>1. /\ view' = [k \in Slot |-> IF k \in Audience(i) THEN view[k] \ {i} ELSE view[k]]
        /\ howManyUsers' = howManyUsers - 1 /\ UNCHANGED <<dropped, resets>>
    BY <1>5 DEF ReadEof
  <2>2. Audience(i) = Live \ {i}
    BY <1>1 DEF Audience, Covered
  <2>3. ViewCurrent'
    BY <1>1, <1>2, <2>1, <2>2 DEF ViewCurrent
  <2>4. CountDrift'
    BY <1>1, <1>3, <2>1 DEF CountDrift, TypeOK
  <2> QED
    BY <1>4, <2>3, <2>4
<1>6. CASE ReadReset(i)
  <2>1. /\ dropped' = dropped \cup {i} /\ resets' = resets + 1
        /\ UNCHANGED <<howManyUsers, view>>
    BY <1>6 DEF ReadReset
  <2>2. ViewCurrent'
    BY <1>1, <1>2, <2>1 DEF ViewCurrent
  <2>3. CountDrift'
    BY <1>1, <1>3, <2>1 DEF CountDrift, TypeOK
  <2> QED
    BY <1>4, <2>2, <2>3
<1> QED
  BY <1>5, <1>6

-----------------------------------------------------------------------------
(***************************************************************************)
(* The count of what is left of a round.                                   *)
(***************************************************************************)
LEMMA ServedRound ==
  ASSUME TypeOK, Round, RoundComplete, NEW i \in Slot,
         fate = "running", pc = "scan", Turn(i), Served(i),
         Live' \ {i} = Live \ {i},
         \A k \in Live \ {i} : Readable(k) => Readable(k)'
  PROVE  Round' /\ RoundComplete'
<1>1. /\ i \in Pending(scan) /\ \A j \in Pending(scan) : i <= j
      /\ nready = Cardinality(Pending(scan))
      /\ \A k \in Pending(scan) : Readable(k)
  BY DEF Turn, RoundComplete
<1>2. /\ Slot \subseteq Nat /\ Pending(scan) \subseteq Slot /\ scan \in Nat
      /\ revents \subseteq Slot /\ Live \subseteq Slot
  BY SizesAssumption DEF Slot, Pending, Live, TypeOK
<1>3. Pending(i + 1) = Pending(scan) \ {i}
  <2>1. \A j \in Slot : j >= i + 1 <=> (j >= i /\ j # i)
    BY <1>2
  <2>2. i >= scan /\ i \in Nat
    BY <1>1, <1>2 DEF Pending
  <2>3. \A j \in Slot : j >= i => j >= scan
    BY <1>2, <2>2
  <2>4. \A j \in Pending(scan) : j >= i
    BY <1>1, <1>2, <2>2
  <2>5. Pending(i + 1) = {j \in Live \cap revents : j >= i + 1}
        /\ Pending(scan) = {j \in Live \cap revents : j >= scan}
    BY DEF Pending
  <2>6. ASSUME NEW j \in Slot
        PROVE  j \in Pending(i + 1) <=> (j \in Pending(scan) /\ j # i)
    BY <2>1, <2>3, <2>4, <2>5
  <2>7. Pending(i + 1) \subseteq Slot
    BY <1>2, <2>5
  <2> QED
    BY <1>2, <2>6, <2>7
<1>4. /\ nready' = nready - 1 /\ revents' = revents
      /\ \/ pc' = "scan" /\ scan' = i + 1
         \/ pc' = "poll" /\ scan' = 1
  BY DEF Served
<1>5. Round'
  BY <1>4 DEF Round
<1>6. RoundComplete'
  <2>1. CASE pc' = "scan" /\ scan' = i + 1
    <3>1. Pending(scan)' = Pending(i + 1)
      <4>1. Pending(scan)' = {j \in Live' \cap revents : j >= i + 1}
        BY <1>4, <2>1 DEF Pending
      <4>2. \A j \in Slot : j >= i + 1 => j # i
        BY <1>2
      <4>3. Live' \subseteq Slot
        BY DEF Live
      <4> QED
        BY <4>1, <4>2, <4>3, <1>2 DEF Pending
    <3>2. Cardinality(Pending(scan) \ {i}) = Cardinality(Pending(scan)) - 1
      BY <1>1, <1>2, SlotSets, FS_RemoveElement
    <3>3. nready' = Cardinality(Pending(scan)')
      BY <1>1, <1>3, <1>4, <3>1, <3>2
    <3>4. \A k \in Pending(scan)' : Readable(k)'
      <4> TAKE k \in Pending(scan)'
      <4>1. k \in Pending(scan) /\ k # i /\ k \in Live \ {i}
        BY <3>1, <1>3 DEF Pending
      <4> QED
        BY <4>1, <1>1
    <3> QED
      BY <2>1, <3>3, <3>4 DEF RoundComplete
  <2>2. CASE pc' = "poll"
    BY <2>2 DEF RoundComplete
  <2> QED
    BY <1>4, <2>1, <2>2
<1> QED
  BY <1>5, <1>6

LEMMA ClientRound ==
  ASSUME TypeOK, Round, RoundComplete, UNCHANGED <<fate, loop>>, Live' = Live,
         backlog' >= backlog, backlog' \in Nat,
         \A k \in Slot : Readable(k) => Readable(k)'
  PROVE  Round' /\ RoundComplete'
<1>1. Pending(scan)' = Pending(scan) /\ Pending(scan) \subseteq Slot /\ revents \subseteq Slot
  BY DEF Pending, loop, Live, TypeOK
<1>2. backlog \in Nat
  BY DEF TypeOK
<1>3. Round'
  BY <1>1 DEF Round, loop
<1>4. RoundComplete'
  BY <1>1, <1>2 DEF RoundComplete, loop
<1> QED
  BY <1>3, <1>4

LEMMA RoundStep ==
  ASSUME TypeOK, Round, RoundComplete, [Next]_vars
  PROVE  Round' /\ RoundComplete'
<1>0. peer \in [Slot -> States] /\ Live \subseteq Slot
  BY DEF TypeOK, States, Live
<1>1. CASE MyPoll
  <2>1. /\ scan' = 1 /\ revents' = Ready /\ backlog' = backlog /\ Live' = Live
        /\ \A k \in Slot : Readable(k)' <=> Readable(k)
    BY <1>1 DEF MyPoll, Round, net, Live, Readable
  <2>2. Ready \subseteq Live /\ \A k \in Ready : Readable(k)
    BY DEF Ready
  <2>3. Cardinality(Ready) \in Nat /\ backlog \in Nat
    BY <1>0, <2>2, SlotSets DEF TypeOK
  <2>4. CASE backlog > 0
    <3>1. pc' = "accept" /\ nready' = Cardinality(Ready) + 1
      BY <1>1, <2>4 DEF MyPoll
    <3> QED
      BY <1>0, <2>1, <2>2, <2>4, <3>1 DEF Round, RoundComplete
  <2>5. CASE ~ (backlog > 0)
    <3>1. pc' = "scan" /\ nready' = Cardinality(Ready)
      BY <1>1, <2>3, <2>5 DEF MyPoll
    <3>2. Pending(scan)' = Ready
      <4>1. Pending(scan)' = {j \in Live \cap Ready : j >= 1}
        BY <2>1 DEF Pending
      <4>2. \A j \in Slot : j >= 1
        BY SizesAssumption DEF Slot
      <4> QED
        BY <4>1, <4>2, <1>0, <2>2
    <3> QED
      BY <1>0, <2>1, <2>2, <3>1, <3>2 DEF Round, RoundComplete
  <2> QED
    BY <2>4, <2>5
<1>2. CASE AcceptClient
  <2>1. PICK i \in Slot :
           /\ i \notin Live /\ Live' = Live \cup {i}
           /\ peer' \in [Slot -> States]
           /\ \A k \in Slot \ {i} : peer[k] # "up" /\ peer[k] # "none" => peer'[k] # "up"
    BY <1>2, AcceptFacts
  <2>2. /\ scan = 1 /\ revents \subseteq Live /\ nready = Cardinality(revents) + 1
        /\ \A k \in revents : Readable(k)
    BY <1>2 DEF AcceptClient, Round
  <2>3. /\ nready' = nready - 1 /\ scan' = scan /\ revents' = revents
        /\ unread' = unread /\ pc' \in {"scan", "poll"}
    BY <1>2 DEF AcceptClient, Accepted
  <2>4. Round'
    BY <2>2, <2>3 DEF Round
  <2>5. Pending(scan)' = revents
    <3>1. Pending(scan)' = {j \in Live' \cap revents : j >= 1}
      BY <2>2, <2>3 DEF Pending
    <3>2. \A j \in Slot : j >= 1
      BY SizesAssumption DEF Slot
    <3> QED
      BY <3>1, <3>2, <1>0, <2>1, <2>2
  <2>6. \A k \in revents : Readable(k)'
    <3> TAKE k \in revents
    <3>1. k \in Live /\ k # i /\ k \in Slot /\ k \in Live' /\ Readable(k)
      BY <1>0, <2>1, <2>2
    <3>2. CASE unread[k] # <<>>
      BY <2>3, <3>2 DEF Readable
    <3>3. CASE peer[k] \in {"fin", "reset", "timedout", "over"}
      <4>1. peer'[k] # "up" /\ peer'[k] # "none" /\ peer'[k] \in States
        BY <2>1, <3>1, <3>3 DEF Live
      <4> QED
        BY <4>1 DEF Readable, States
    <3> QED
      BY <3>1, <3>2, <3>3 DEF Readable
  <2>7. Cardinality(revents) \in Nat
    BY <1>0, <2>2, SlotSets
  <2>8. RoundComplete'
    BY <2>2, <2>3, <2>5, <2>6, <2>7 DEF RoundComplete
  <2> QED
    BY <2>4, <2>8
<1>3. CASE TooMany
  BY <1>3 DEF TooMany, Round, RoundComplete
<1>4. ASSUME NEW i \in Slot, ReadLine(i)
      PROVE  Round' /\ RoundComplete'
  <2>1. Live' = Live /\ fate = "running" /\ pc = "scan" /\ Turn(i) /\ Served(i)
    BY <1>4, ReadLineFacts DEF Live
  <2>2. ASSUME NEW k \in Live \ {i}, Readable(k)
        PROVE  Readable(k)'
    <3>1. unread'[k] = unread[k] /\ k \in Slot
      BY <1>0, <1>4, <2>2, ReadLineFacts DEF TypeOK
    <3>2. /\ peer'[k] \in States
          /\ peer[k] # "up" /\ peer[k] # "none" => peer'[k] # "up" /\ peer'[k] # "none"
      BY <1>4, <3>1, ReadLineFacts
    <3> QED
      BY <2>2, <3>1, <3>2 DEF Readable, States
  <2> QED
    BY <2>1, <2>2, ServedRound
<1>5. ASSUME NEW i \in Slot, ReadEof(i)
      PROVE  Round' /\ RoundComplete'
  <2>1. /\ fate = "running" /\ pc = "scan" /\ Turn(i) /\ Served(i) /\ unread' = unread
    BY <1>5 DEF ReadEof
  <2>2. Live' \ {i} = Live \ {i} /\ Live' \subseteq Slot
    BY <1>5, EofFacts DEF Live
  <2>3. ASSUME NEW k \in Live \ {i}, Readable(k)
        PROVE  Readable(k)'
    <3>1. k \in Slot /\ k \in Live'
      BY <1>0, <2>2
    <3>2. /\ peer'[k] \in States /\ peer'[k] # "none"
          /\ peer[k] # "up" /\ peer[k] # "none" => peer'[k] # "up"
      BY <1>5, <3>1, EofFacts DEF Live
    <3> QED
      BY <2>1, <2>3, <3>1, <3>2 DEF Readable, States
  <2> QED
    BY <2>1, <2>2, <2>3, ServedRound
<1>6. ASSUME NEW i \in Slot, ReadReset(i)
      PROVE  Round' /\ RoundComplete'
  <2>1. /\ fate = "running" /\ pc = "scan" /\ Turn(i) /\ Served(i) /\ unread' = unread
        /\ peer' = [peer EXCEPT ![i] = "none"]
    BY <1>6 DEF ReadReset
  <2>2. Live' \ {i} = Live \ {i}
    BY <1>0, <2>1 DEF Live
  <2>3. ASSUME NEW k \in Live \ {i}, Readable(k)
        PROVE  Readable(k)'
    BY <1>0, <2>1, <2>3 DEF Readable
  <2> QED
    BY <2>1, <2>2, <2>3, ServedRound
<1>7. ASSUME NEW i \in Slot, ReadError(i)
      PROVE  Round' /\ RoundComplete'
  BY <1>7 DEF ReadError, Round, RoundComplete
<1>8. CASE Connect
  <2>1. /\ UNCHANGED <<fate, loop>> /\ Live' = Live /\ backlog' = backlog + 1
        /\ \A k \in Slot : Readable(k) => Readable(k)'
    BY <1>8 DEF Connect, Live, Readable
  <2> QED
    BY <2>1, ClientRound DEF TypeOK
<1>9. ASSUME NEW k \in Slot, Depart(k)
      PROVE  Round' /\ RoundComplete'
  <2>1. UNCHANGED <<fate, loop>> /\ backlog' = backlog /\ unread' = unread
    BY <1>9 DEF Depart
  <2>2. \A j \in Slot : /\ peer'[j] = "none" <=> peer[j] = "none"
                        /\ peer[j] # "up" => peer'[j] = peer[j]
    BY <1>0, <1>9 DEF Depart
  <2>3. Live' = Live /\ \A j \in Slot : Readable(j) => Readable(j)'
    BY <2>1, <2>2 DEF Live, Readable
  <2> QED
    BY <2>1, <2>3, ClientRound DEF TypeOK
<1>10. ASSUME NEW k \in Slot, NEW t \in Lines, Send(k, t)
       PROVE  Round' /\ RoundComplete'
  <2>1. UNCHANGED <<fate, loop>> /\ backlog' = backlog /\ peer' = peer
        /\ unread' = [unread EXCEPT ![k] = unread[k] \o t]
    BY <1>10 DEF Send
  <2>2. t \in Seq(Char) /\ t # <<>> /\ unread[k] \in Seq(Char)
    BY CharsAssumption DEF TypeOK
  <2>3. unread[k] \o t # <<>>
    BY <2>2, ConcatEqualIffEmpty
  <2>4. Live' = Live /\ \A j \in Slot : Readable(j) => Readable(j)'
    BY <2>1, <2>3 DEF Live, Readable, TypeOK
  <2> QED
    BY <2>1, <2>4, ClientRound DEF TypeOK
<1>11. CASE UNCHANGED vars \/ \E k \in Slot : Stall(k) \/ Drain(k)
  <2>1. UNCHANGED <<fate, loop, backlog, peer, unread>>
    BY <1>11 DEF vars, net, Stall, Drain
  <2>2. Live' = Live /\ \A j \in Slot : Readable(j) => Readable(j)'
    BY <2>1 DEF Live, Readable
  <2> QED
    BY <2>1, <2>2, ClientRound DEF TypeOK
<1> QED
  BY <1>1, <1>2, <1>3, <1>4, <1>5, <1>6, <1>7, <1>8, <1>9, <1>10, <1>11,
     BoundsAssumption
  DEF Next, Server, Clients

-----------------------------------------------------------------------------
LEMMA InvInit == Init => IInv
<1> SUFFICES ASSUME Init
             PROVE  IInv
  OBVIOUS
<1>1. TypeOK
  BY TypeInit
<1>2. Live = {} /\ Cardinality({}) = 0
  BY FS_EmptySet DEF Init, Live
<1>3. Covered /\ ViewCurrent /\ NameBegins
  BY <1>2 DEF Covered, ViewCurrent, NameBegins
<1>4. CountDrift
  BY <1>2 DEF CountDrift, Init
<1>5. Round /\ RoundComplete
  BY DEF Init, Round, RoundComplete
<1> QED
  BY <1>1, <1>3, <1>4, <1>5 DEF IInv

LEMMA InvStep == IInv /\ [Next]_vars => IInv'
<1> SUFFICES ASSUME IInv, [Next]_vars
             PROVE  IInv'
  OBVIOUS
<1>1. TypeOK' /\ Round' /\ RoundComplete'
  BY TypeStep, RoundStep DEF IInv
<1>2. Covered' /\ ViewCurrent' /\ CountDrift' /\ NameBegins'
  <2>1. CASE Stays
    BY <2>1, StaysStep DEF IInv
  <2>2. CASE AcceptClient
    BY <2>2, AcceptStep DEF IInv
  <2>3. CASE \E i \in Slot : ReadEof(i) \/ ReadReset(i)
    BY <2>3, DepartureStep DEF IInv
  <2> QED
    BY <2>1, <2>2, <2>3, StepKinds DEF IInv
<1> QED
  BY <1>1, <1>2 DEF IInv

LEMMA Invariant == Spec => []IInv
BY InvInit, InvStep, PTL DEF Spec

(* Every variable keeps its type; no text with a Nul in it becomes a name. *)
(* (lab05-1.cpp:100-104)                                                   *)
THEOREM TypeCorrect == Spec => []TypeOK
BY Invariant, PTL DEF IInv

(* Whoever follows the announcements knows who is there, but for clients   *)
(* that were reset.  (lab05-1.cpp:42-59)                                   *)
THEOREM ViewsCurrent == Spec => []ViewCurrent
BY Invariant, PTL DEF IInv

(* The number of users announced is that of the clients there and of those *)
(* ever reset.  (lab05-1.cpp:141, 175)                                     *)
THEOREM CountIsOffByResets == Spec => []CountDrift
BY Invariant, PTL DEF IInv

(* A name begins with what its client asked for, if the command and its    *)
(* argument had come whole, whatever the two arrays held before.  (Of a    *)
(* line that ends inside the command nothing is promised: it may rename.)  *)
(* (lab05-1.cpp:98-105)                                                    *)
THEOREM NamesBegin == Spec => []NameBegins
BY Invariant, PTL DEF IInv

(* nready is what is left of the round, and no read of it blocks.          *)
(* (lab05-1.cpp:153, 186)                                                  *)
THEOREM RoundsComplete == Spec => []RoundComplete
BY Invariant, PTL DEF IInv
=============================================================================
