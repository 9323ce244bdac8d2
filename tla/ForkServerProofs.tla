-------------------------- MODULE ForkServerProofs --------------------------
(***************************************************************************)
(* Theorems about ForkServer for any connections, whichever of their       *)
(* programs end.  Isolated is inductive because it says what the server    *)
(* has at each of its steps: what a child inherits at the fork is exactly  *)
(* the connection that was just accepted.                                  *)
(***************************************************************************)
EXTENDS ForkServer, SequenceTheorems, TLAPS

IInv == TypeOK /\ Isolated /\ SignalOwed

LEMMA InvInit == Init => IInv
<1> SUFFICES ASSUME Init
             PROVE  IInv
  OBVIOUS
<1>1. <<>> \in Seq({})
  BY EmptySeq
<1>2. TypeOK
  BY <1>1 DEF Init, TypeOK, Process
<1>3. Isolated /\ SignalOwed
  BY NamesAssumption DEF Init, Isolated, SignalOwed, Process, Alive
<1> QED
  BY <1>2, <1>3 DEF IInv

LEMMA TypeStep == TypeOK /\ [Next]_vars => TypeOK'
<1> SUFFICES ASSUME TypeOK, [Next]_vars
             PROVE  TypeOK'
  OBVIOUS
<1> USE DEF TypeOK
<1>1. CASE Accept
  <2>1. Head(backlog) \in came /\ Tail(backlog) \in Seq(came)
    BY <1>1, HeadTailProperties DEF Accept
  <2> QED
    BY <1>1, <2>1 DEF Accept, signals
<1>2. CASE Fork
  BY <1>2 DEF Fork, signals, clients, Process
<1>3. CASE ForkFails
  BY <1>3 DEF ForkFails, signals, clients
<1>4. CASE CloseConn
  BY <1>4 DEF CloseConn, signals, clients
<1>5. CASE Deliver
  BY <1>5 DEF Deliver, main, clients, files
<1>6. ASSUME NEW c \in Conn, Reap(c)
      PROVE  TypeOK'
  BY <1>6 DEF Reap, main, signals, clients, files
<1>7. CASE Return
  BY <1>7 DEF Return, main, clients, files
<1>8. ASSUME NEW c \in Conn, Exec(c)
      PROVE  TypeOK'
  BY <1>8 DEF Exec, main, signals, clients
<1>9. ASSUME NEW c \in Conn, Exit(c)
      PROVE  TypeOK'
  BY <1>9 DEF Exit, main, clients
<1>10. ASSUME NEW c \in Conn, Connect(c)
       PROVE  TypeOK'
  <2>1. backlog \in Seq(came \cup {c})
    BY SeqDef, LenProperties, ElementOfSeq
  <2>2. Append(backlog, c) \in Seq(came \cup {c})
    BY <2>1, AppendProperties
  <2> QED
    BY <1>10, <2>2 DEF Connect, main, signals, files
<1>11. CASE UNCHANGED vars
  BY <1>11 DEF vars, main, signals, clients, files
<1> QED
  BY <1>1, <1>2, <1>3, <1>4, <1>5, <1>6, <1>7, <1>8, <1>9, <1>10, <1>11
  DEF Next, Main, Handler

LEMMA InvStep == IInv /\ [Next]_vars => IInv'
<1> SUFFICES ASSUME IInv, [Next]_vars
             PROVE  IInv'
  OBVIOUS
<1>1. TypeOK' /\ TypeOK
  BY TypeStep DEF IInv
<1>2. Isolated /\ SignalOwed
  BY DEF IInv
<1>3. Server \notin Conn /\ NoConn \notin Conn
  BY NamesAssumption
<1> USE DEF IInv, Isolated, SignalOwed, Process
<1>4. CASE Accept
  <2>1. fds[Server] = {}
    BY <1>1, <1>2, <1>3, <1>4 DEF Accept, TypeOK
  <2>2. /\ fds' = [fds EXCEPT ![Server] = {connfd'}] /\ pc' = "fork"
        /\ UNCHANGED <<fate, pending, handling, child, listeners>>
    BY <1>4, <2>1 DEF Accept, signals
  <2>3. fds'[Server] = {connfd'} /\ fate' = "running"
    BY <1>1, <1>4, <2>2 DEF Accept, AtWork, TypeOK
  <2>4. \A c \in Conn : fds'[c] = fds[c] /\ Alive(c)' = Alive(c)
    BY <1>1, <1>3, <2>2 DEF Alive, TypeOK
  <2> QED
    BY <1>1, <1>2, <2>2, <2>3, <2>4
<1>5. CASE Fork
  <2>1. connfd \in Conn /\ fds[Server] = {connfd} /\ fds' = [fds EXCEPT ![connfd] = {connfd}]
    BY <1>1, <1>2, <1>5 DEF Fork, AtWork, TypeOK
  <2>2. /\ child' = [child EXCEPT ![connfd] = "setup"]
        /\ listeners' = listeners \cup {connfd} /\ pc' = "close"
        /\ UNCHANGED <<fate, connfd, pending, handling>>
    BY <1>5 DEF Fork, signals
  <2>3. Isolated'
    <3>1. \A c \in Conn : /\ fds'[c] = IF Alive(c)' THEN {c} ELSE {}
                          /\ c \in listeners' => child'[c] = "setup"
      BY <1>1, <1>2, <2>1, <2>2 DEF Alive, TypeOK
    <3>2. fds'[Server] = {connfd'} /\ fate' = "running" /\ pc' = "close"
      BY <1>1, <1>3, <1>5, <2>1, <2>2 DEF Fork, AtWork, TypeOK
    <3> QED
      BY <3>1, <3>2
  <2>4. SignalOwed'
    BY <1>1, <1>2, <2>1, <2>2 DEF TypeOK
  <2> QED
    BY <1>1, <2>3, <2>4
<1>6. CASE ForkFails
  BY <1>1, <1>2, <1>3, <1>6 DEF ForkFails, signals, clients, Alive, TypeOK
<1>7. CASE CloseConn
  <2>1. /\ fds' = [fds EXCEPT ![Server] = @ \ {connfd}] /\ pc' = "accept"
        /\ UNCHANGED <<fate, connfd, pending, handling, child, listeners>>
    BY <1>7 DEF CloseConn, signals
  <2>2. fds[Server] = {connfd}
    BY <1>2, <1>7 DEF CloseConn, AtWork
  <2>3. fds'[Server] = {}
    BY <1>1, <2>1, <2>2 DEF TypeOK
  <2>4. \A c \in Conn : fds'[c] = fds[c] /\ Alive(c)' = Alive(c)
    BY <1>1, <1>3, <2>1 DEF Alive, TypeOK
  <2> QED
    BY <1>1, <1>2, <2>1, <2>3, <2>4
<1>8. CASE Deliver
  BY <1>1, <1>2, <1>8 DEF Deliver, main, clients, files, Alive
<1>9. ASSUME NEW c \in Conn, Reap(c)
      PROVE  IInv'
  BY <1>1, <1>2, <1>9 DEF Reap, main, signals, clients, files, Alive, TypeOK
<1>10. CASE Return
  BY <1>1, <1>2, <1>10 DEF Return, Unreaped, main, clients, files, Alive
<1>11. ASSUME NEW c \in Conn, Exec(c)
       PROVE  IInv'
  BY <1>1, <1>2, <1>3, <1>11 DEF Exec, main, signals, clients, Alive, TypeOK
<1>12. ASSUME NEW c \in Conn, Exit(c)
       PROVE  IInv'
  <2>1. /\ child'[c] \in {"zombie", "reaped"} /\ fds' = [fds EXCEPT ![c] = {}]
        /\ \A d \in Conn \ {c} : child'[d] = child[d]
        /\ listeners' = listeners \ {c}
        /\ UNCHANGED <<fate, pc, connfd, handling>>
    BY <1>1, <1>12 DEF Exit, main, TypeOK
  <2>2. Isolated'
    BY <1>1, <1>2, <1>3, <2>1 DEF Alive, TypeOK
  <2>3. SignalOwed'
    BY <1>1, <1>2, <1>12 DEF Exit, main, TypeOK
  <2> QED
    BY <1>1, <2>2, <2>3
<1>13. ASSUME NEW c \in Conn, Connect(c)
       PROVE  IInv'
  BY <1>1, <1>2, <1>13 DEF Connect, main, signals, files, Alive
<1>14. CASE UNCHANGED vars
  BY <1>1, <1>2, <1>14 DEF vars, main, signals, clients, files, Alive
<1> QED
  BY <1>4, <1>5, <1>6, <1>7, <1>8, <1>9, <1>10, <1>11, <1>12, <1>13, <1>14
  DEF Next, Main, Handler

LEMMA Invariant == Spec => []IInv
BY InvInit, InvStep, PTL DEF Spec

(* Every variable keeps its type.                                          *)
THEOREM TypeCorrect == Spec => []TypeOK
BY Invariant, PTL DEF IInv

(* A program has its own connection and neither another nor the listening  *)
(* socket; the server has the connection it deals with, and none while it  *)
(* waits for the next.  (lab04-1.cpp:43-46, 54)                            *)
THEOREM ProgramsIsolated == Spec => []Isolated
BY Invariant, PTL DEF IInv

(* Of a child that ended, the server has been told or is looking for it,   *)
(* however many signals were merged.  (lab04-1.cpp:15, 28)                 *)
THEOREM NoneForgotten == Spec => []SignalOwed
BY Invariant, PTL DEF IInv
=============================================================================
