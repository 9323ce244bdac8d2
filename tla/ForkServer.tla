----------------------------- MODULE ForkServer -----------------------------
(***************************************************************************)
(* lab04: lab04-1.cpp runs a program for every connection.  The server     *)
(* accepts, forks and closes its own descriptor; the child makes the       *)
(* connection its standard input and output and becomes the program.       *)
(*                                                                         *)
(* sighandler interrupts the server between any two of its steps, an       *)
(* accept that blocks included (signal() restarts it), and does not return *)
(* before waitpid has no child left: meanwhile the server does nothing     *)
(* else.  A SIGCHLD that comes while one is handled or pending is          *)
(* not counted: it is only pending.                                        *)
(*                                                                         *)
(* The child of a connection c is called c.  Its own duplicates of the     *)
(* descriptor are one with it.                                             *)
(***************************************************************************)
EXTENDS Integers, Sequences

CONSTANTS
  Conn,        \* connections that may be made
  Endless,     \* those whose program does not end by itself
  Server,      \* the process of main
  NoConn       \* connfd before the first accept

Process == Conn \cup {Server}

ASSUME NamesAssumption ==
  Server \notin Conn /\ NoConn \notin Conn /\ Endless \subseteq Conn

VARIABLES
  fate,        \* "running" or "ended"
  pc, connfd,  \* where main is, and the connection it deals with
  pending,     \* a SIGCHLD waits for delivery
  handling,    \* the server is inside sighandler
  came, backlog,  \* connections made; those not accepted yet
  child,       \* per connection, its child
  fds,         \* per process, the connections it has a descriptor of
  listeners    \* the processes with a descriptor of the listening socket

main == <<fate, pc, connfd>>
signals == <<pending, handling>>
clients == <<came, backlog>>
files == <<fds, listeners>>
vars == <<main, signals, clients, child, files>>

Alive(c) == child[c] \in {"setup", "running"}
Unreaped(c) == Alive(c) \/ child[c] = "zombie"

-----------------------------------------------------------------------------
(***************************************************************************)
(* main.                                                                   *)
(***************************************************************************)
AtWork == fate = "running" /\ ~handling

MutantAccept ==                \* does not wait, and what it returns is not looked at
  /\ AtWork /\ pc = "accept"
  /\ IF backlog = <<>>
     THEN connfd' = NoConn /\ UNCHANGED <<backlog, fds>>
     ELSE /\ connfd' = Head(backlog) /\ backlog' = Tail(backlog)
          /\ fds' = [fds EXCEPT ![Server] = @ \cup {Head(backlog)}]
  /\ pc' = "fork"
  /\ UNCHANGED <<fate, signals, came, child, listeners>>

Accept ==
  /\ AtWork /\ pc = "accept" /\ backlog # <<>>
  /\ connfd' = Head(backlog) /\ backlog' = Tail(backlog)
  /\ fds' = [fds EXCEPT ![Server] = @ \cup {Head(backlog)}]
  /\ pc' = "fork"
  /\ UNCHANGED <<fate, signals, came, child, listeners>>

(* The child has what the server has.                                      *)
Fork ==
  /\ AtWork /\ pc = "fork"
  /\ child' = [child EXCEPT ![connfd] = "setup"]
  /\ fds' = [fds EXCEPT ![connfd] = fds[Server]]
  /\ listeners' = listeners \cup {connfd}
  /\ pc' = "close"
  /\ UNCHANGED <<fate, connfd, signals, clients>>

(* The server ends; init inherits its children.                            *)
ForkFails ==
  /\ AtWork /\ pc = "fork"
  /\ fate' = "ended"
  /\ fds' = [fds EXCEPT ![Server] = {}] /\ listeners' = listeners \ {Server}
  /\ child' = [c \in Conn |-> IF child[c] = "zombie" THEN "reaped" ELSE child[c]]
  /\ UNCHANGED <<pc, connfd, signals, clients>>

MutantKeepOpen ==              \* Close(connfd) is missing
  /\ AtWork /\ pc = "close"
  /\ pc' = "accept"
  /\ UNCHANGED <<fate, connfd, signals, clients, child, files>>

(* connfd keeps the number.                                                *)
CloseConn ==
  /\ AtWork /\ pc = "close"
  /\ fds' = [fds EXCEPT ![Server] = @ \ {connfd}]
  /\ pc' = "accept"
  /\ UNCHANGED <<fate, connfd, signals, clients, child, listeners>>

Main == Accept \/ Fork \/ ForkFails \/ CloseConn

-----------------------------------------------------------------------------
(***************************************************************************)
(* sighandler.                                                             *)
(***************************************************************************)
Deliver ==
  /\ AtWork /\ pending
  /\ handling' = TRUE /\ pending' = FALSE
  /\ UNCHANGED <<main, clients, child, files>>

MutantReap(c) ==               \* if, not while
  /\ fate = "running" /\ handling /\ child[c] = "zombie"
  /\ child' = [child EXCEPT ![c] = "reaped"]
  /\ handling' = FALSE
  /\ UNCHANGED <<main, pending, clients, files>>

(* waitpid returns one of the children that ended; the loop goes on.       *)
Reap(c) ==
  /\ fate = "running" /\ handling /\ child[c] = "zombie"
  /\ child' = [child EXCEPT ![c] = "reaped"]
  /\ UNCHANGED <<main, signals, clients, files>>

MutantReturn ==                \* while (... != 0)
  /\ fate = "running" /\ handling /\ \A c \in Conn : ~Unreaped(c)
  /\ UNCHANGED vars

(* waitpid fails when there is no child left, and only then.               *)
Return ==
  /\ fate = "running" /\ handling /\ \A c \in Conn : ~Unreaped(c)
  /\ handling' = FALSE
  /\ UNCHANGED <<main, pending, clients, child, files>>

Handler == Return \/ \E c \in Conn : Reap(c)

-----------------------------------------------------------------------------
(***************************************************************************)
(* A child.                                                                *)
(***************************************************************************)
Exec(c) ==
  /\ child[c] = "setup"
  /\ child' = [child EXCEPT ![c] = "running"]
  /\ listeners' = listeners \ {c}
  /\ UNCHANGED <<main, signals, clients, fds>>

(* dup2 or execvp fails, or the program comes to its end.                  *)
Exit(c) ==
  /\ Alive(c)
  /\ fds' = [fds EXCEPT ![c] = {}] /\ listeners' = listeners \ {c}
  /\ \/ /\ fate = "running"
        /\ child' = [child EXCEPT ![c] = "zombie"] /\ pending' = TRUE
     \/ /\ fate = "ended"
        /\ child' = [child EXCEPT ![c] = "reaped"] /\ UNCHANGED pending
  /\ UNCHANGED <<main, handling, clients>>

Connect(c) ==
  /\ fate = "running" /\ c \notin came
  /\ came' = came \cup {c} /\ backlog' = Append(backlog, c)
  /\ UNCHANGED <<main, signals, child, files>>

Init ==
  /\ fate = "running" /\ pc = "accept" /\ connfd = NoConn
  /\ pending = FALSE /\ handling = FALSE
  /\ came = {} /\ backlog = <<>>
  /\ child = [c \in Conn |-> "none"]
  /\ fds = [p \in Process |-> {}] /\ listeners = {Server}

Next == \/ Main \/ Deliver \/ Handler
        \/ \E c \in Conn : Exec(c) \/ Exit(c) \/ Connect(c)

Spec == Init /\ [][Next]_vars

(* The processes run, signals are delivered, and programs end except for   *)
(* those of Endless, which may run for ever.                               *)
FairSpec ==
  /\ Spec
  /\ WF_vars(Main) /\ WF_vars(Deliver) /\ WF_vars(Handler)
  /\ \A c \in Conn : WF_vars(Exec(c))
  /\ \A c \in Conn \ Endless : WF_vars(Exit(c))

-----------------------------------------------------------------------------
TypeOK ==
  /\ fate \in {"running", "ended"} /\ pc \in {"accept", "fork", "close"}
  /\ connfd \in Conn \cup {NoConn} /\ (pc # "accept" => connfd \in Conn)
  /\ pending \in BOOLEAN /\ handling \in BOOLEAN
  /\ came \subseteq Conn /\ backlog \in Seq(came)
  /\ child \in [Conn -> {"none", "setup", "running", "zombie", "reaped"}]
  /\ fds \in [Process -> SUBSET Conn] /\ listeners \subseteq Process

(* A program has its own connection and no other, so that no client waits  *)
(* for the program of another, and not the listening socket; the server    *)
(* has the connection it deals with, and none while it waits for the next. *)
(* (lines 43-46, 54)                                                       *)
Isolated ==
  /\ \A c \in Conn : /\ fds[c] = IF Alive(c) THEN {c} ELSE {}
                     /\ c \in listeners => child[c] = "setup"
  /\ fds[Server] = IF fate = "running" /\ pc # "accept" THEN {connfd} ELSE {}

(* Signals of children that end together are merged into one, and none is  *)
(* forgotten.  (line 15)                                                   *)
Reaped ==
  \A c \in Conn : child[c] = "zombie" ~> (child[c] = "reaped" \/ fate = "ended")

(* A program that does not end, while the handler waits for it.            *)
Stuck == \E c \in Endless : Alive(c)

(* The client of a program that ended sees the end of its connection,      *)
(* although the handler may keep the server from closing it - unless some  *)
(* other program does not end.  (lines 15, 54)                             *)
Released ==
  \A c \in Conn :
    (child[c] = "zombie") ~> ((\A p \in Process : c \notin fds[p]) \/ Stuck)

(* Why Reaped holds: the server has been told of every child that ended,   *)
(* or is looking for them.                                                 *)
SignalOwed ==
  (\E c \in Conn : child[c] = "zombie") => pending \/ handling
=============================================================================
