----------------------------- MODULE WebChecker -----------------------------
(***************************************************************************)
(* lab07: webcrawler_question3.cpp.  The main thread queues requests that  *)
(* its user types; detached workers take them from the queue under a mutex *)
(* and a condition variable, look the server up, and fetch its page.       *)
(*                                                                         *)
(* What is done while holding the mutex is one step.  gethostbyname2       *)
(* returns a pointer to one result for all threads: host is what it holds, *)
(* and every worker reads it again whenever it looks at its own pointer.   *)
(***************************************************************************)
EXTENDS Integers, Sequences, FiniteSets

CONSTANTS
  Worker,       \* 0 .. WORKERS-1
  Target,       \* the servers a user may ask for
  Malformed,    \* those without <server>/<port>
  Unknown,      \* those gethostbyname2 does not resolve
  Barred,       \* those with a private, local or null address
  Silent,       \* those that accept a connection and never answer
  MAX_ATTEMPTS

ASSUME TargetAssumption ==
  /\ Malformed \subseteq Target /\ Unknown \subseteq Target
  /\ Barred \subseteq Target /\ Silent \subseteq Target
ASSUME WorkerAssumption == IsFiniteSet(Worker) /\ MAX_ATTEMPTS \in Nat

VARIABLES
  main,         \* the main thread
  asked,        \* the requests so far; jcount is their number
  jobs,         \* the queue, of indices into asked
  pc, s,        \* each worker: where it is, and the request it has taken
  try,          \* loop variable i of do_job
  host,         \* what gethostbyname2 left, whoever called it
  peer,         \* sin: the server a worker connects to
  status        \* the request and the message a worker shows

worker == <<pc, s, try, host, peer, status>>
vars == <<main, asked, jobs, worker>>

NoJob == 0
Running == main # "exit"
Of(w) == asked[s[w]]

-----------------------------------------------------------------------------
(***************************************************************************)
(* The main thread: menu and add_job, which notifies after it unlocks.     *)
(***************************************************************************)
MutantAddJob(t) ==
  /\ main = "menu"
  /\ asked' = Append(asked, t)
  /\ jobs' = <<Len(asked')>> \o jobs
  /\ main' = IF Len(asked') > MAX_ATTEMPTS THEN "exit" ELSE "notify"
  /\ UNCHANGED worker

AddJob(t) ==
  /\ main = "menu"
  /\ asked' = Append(asked, t)
  /\ jobs' = Append(jobs, Len(asked'))
  /\ main' = IF Len(asked') > MAX_ATTEMPTS THEN "exit" ELSE "notify"
  /\ UNCHANGED worker

Waiting == {w \in Worker : pc[w] = "waiting"}

MutantNotify ==
  /\ main = "notify" /\ main' = "menu"
  /\ \/ (Len(jobs) # 1 \/ Waiting = {}) /\ UNCHANGED pc
     \/ Len(jobs) = 1 /\ \E w \in Waiting : pc' = [pc EXCEPT ![w] = "free"]
  /\ UNCHANGED <<asked, jobs, s, try, host, peer, status>>

Notify ==
  /\ main = "notify" /\ main' = "menu"
  /\ \/ Waiting = {} /\ UNCHANGED pc
     \/ \E w \in Waiting : pc' = [pc EXCEPT ![w] = "free"]
  /\ UNCHANGED <<asked, jobs, s, try, host, peer, status>>

(* _exit does not wait for the workers.                                    *)
Quit == main = "menu" /\ main' = "exit" /\ UNCHANGED <<asked, jobs, worker>>

Main == (\E t \in Target : AddJob(t)) \/ Notify \/ Quit

-----------------------------------------------------------------------------
(***************************************************************************)
(* A worker: the top of its loop.                                          *)
(***************************************************************************)
Take(w) ==
  /\ pc[w] = "free" /\ jobs # <<>>
  /\ s' = [s EXCEPT ![w] = Head(jobs)] /\ jobs' = Tail(jobs)
  /\ pc' = [pc EXCEPT ![w] = "resolve"]
  /\ UNCHANGED <<main, asked, try, host, peer, status>>

MutantWait(w) ==
  /\ pc[w] = "free"
  /\ pc' = [pc EXCEPT ![w] = "waiting"]
  /\ UNCHANGED <<main, asked, jobs, s, try, host, peer, status>>

Wait(w) ==
  /\ pc[w] = "free" /\ jobs = <<>>
  /\ pc' = [pc EXCEPT ![w] = "waiting"]
  /\ UNCHANGED <<main, asked, jobs, s, try, host, peer, status>>

(* A condition variable may wake a thread for no reason.                   *)
Spurious(w) ==
  /\ Running /\ pc[w] = "waiting"
  /\ pc' = [pc EXCEPT ![w] = "free"]
  /\ UNCHANGED <<main, asked, jobs, s, try, host, peer, status>>

(***************************************************************************)
(* do_job.  Report is update_status; it ends the job.                      *)
(***************************************************************************)
Shows(w, msg) == status' = [status EXCEPT ![w] = <<s[w], msg>>]
Report(w, msg) ==
  /\ Shows(w, msg)
  /\ pc' = [pc EXCEPT ![w] = "free"] /\ s' = [s EXCEPT ![w] = NoJob]

Resolve(w) ==
  /\ pc[w] = "resolve"
  /\ \/ /\ Of(w) \in Malformed \cup Unknown
        /\ Report(w, "error") /\ UNCHANGED host
     \/ /\ Of(w) \notin Malformed \cup Unknown
        /\ host' = Of(w) /\ pc' = [pc EXCEPT ![w] = "check"]
        /\ UNCHANGED <<s, status>>
  /\ UNCHANGED <<main, asked, jobs, try, peer>>

Check(w) ==
  /\ pc[w] = "check"
  /\ \/ /\ host \in Barred
        /\ Report(w, "error") /\ UNCHANGED try
     \/ /\ host \notin Barred
        /\ pc' = [pc EXCEPT ![w] = "connect"] /\ try' = [try EXCEPT ![w] = 0]
        /\ UNCHANGED <<s, status>>
  /\ UNCHANGED <<main, asked, jobs, host, peer>>

Connect(w) ==
  /\ pc[w] = "connect"
  /\ peer' = [peer EXCEPT ![w] = host]
  /\ pc' = [pc EXCEPT ![w] = "talk"]
  /\ Shows(w, "connecting")
  /\ UNCHANGED <<main, asked, jobs, s, try, host>>

Reply(w) ==
  /\ pc[w] = "talk" /\ peer[w] \notin Silent
  /\ Report(w, "reply")
  /\ UNCHANGED <<main, asked, jobs, try, host, peer>>

MutantFail(w) ==
  /\ pc[w] = "talk" /\ peer[w] \notin Silent
  /\ Shows(w, "error")
  /\ pc' = [pc EXCEPT ![w] = "connect"]
  /\ UNCHANGED <<main, asked, jobs, s, try, host, peer>>

MutantThird(w) ==
  /\ pc[w] = "talk" /\ peer[w] \notin Silent
  /\ try' = [try EXCEPT ![w] = @ + 1]
  /\ \/ try[w] <= 1 /\ Shows(w, "error") /\ pc' = [pc EXCEPT ![w] = "connect"]
        /\ UNCHANGED s
     \/ try[w] > 1 /\ Report(w, "error")
  /\ UNCHANGED <<main, asked, jobs, host, peer>>

(* socket, connect, write or read fails; a second attempt, then no more.   *)
Fail(w) ==
  /\ pc[w] = "talk" /\ peer[w] \notin Silent
  /\ try' = [try EXCEPT ![w] = @ + 1]
  /\ \/ try[w] = 0 /\ Shows(w, "error") /\ pc' = [pc EXCEPT ![w] = "connect"]
        /\ UNCHANGED s
     \/ try[w] > 0 /\ Report(w, "error")
  /\ UNCHANGED <<main, asked, jobs, host, peer>>

Work(w) ==
  /\ Running
  /\ \/ Take(w) \/ Wait(w) \/ Resolve(w) \/ Check(w) \/ Connect(w)
     \/ Reply(w) \/ Fail(w)

-----------------------------------------------------------------------------
Init ==
  /\ main = "menu" /\ asked = <<>> /\ jobs = <<>>
  /\ pc = [w \in Worker |-> "free"] /\ s = [w \in Worker |-> NoJob]
  /\ try = [w \in Worker |-> 0]
  /\ host \in Target /\ peer = [w \in Worker |-> host]
  /\ status = [w \in Worker |-> <<NoJob, "idle">>]

Next == Main \/ \E w \in Worker : Work(w) \/ Spurious(w)

Spec == Init /\ [][Next]_vars

(* Every thread is scheduled, and every fetch ends one way or the other.   *)
FairSpec == Spec /\ WF_vars(Notify) /\ \A w \in Worker : WF_vars(Work(w))

-----------------------------------------------------------------------------
TypeOK ==
  /\ main \in {"menu", "notify", "exit"}
  /\ asked \in Seq(Target) /\ Len(asked) <= MAX_ATTEMPTS + 1
  /\ Running => Len(asked) <= MAX_ATTEMPTS
  /\ jobs \in Seq(1 .. Len(asked))
  /\ pc \in [Worker -> {"free", "waiting", "resolve", "check", "connect", "talk"}]
  /\ s \in [Worker -> 0 .. Len(asked)] /\ try \in [Worker -> 0 .. 2]
  /\ \A w \in Worker : pc[w] \in {"connect", "talk"} => try[w] < 2
  /\ host \in Target /\ peer \in [Worker -> Target]
  /\ status \in [Worker -> (0 .. Len(asked))
                           \X {"idle", "connecting", "reply", "error"}]

Free == {w \in Worker : pc[w] = "free"}

(* No wakeup is lost: while a worker sleeps, as many are on their way to   *)
(* the queue as there are requests in it, although notify_one comes after  *)
(* the unlock and may find the request already taken.  (lines 115, 135)    *)
Prompt ==
  main = "menu" /\ Waiting # {} => Cardinality(Free) >= Len(jobs)

(* Requests are taken in the order they came, each by one worker.          *)
(* (lines 110, 128)                                                        *)
InOrder ==
  /\ \A k \in 1 .. Len(jobs) : jobs[k] = Len(asked) - Len(jobs) + k
  /\ \A w \in Worker :
       /\ s[w] <= Len(asked) - Len(jobs)
       /\ s[w] = NoJob <=> pc[w] \in {"free", "waiting"}
       /\ \A v \in Worker \ {w} : s[w] # NoJob => s[v] # s[w]

(* Every request is dealt with, unless the user quits first or asks once   *)
(* too often, or a server that stays silent holds a worker.  (lines 82,    *)
(* 115, 135)                                                               *)
Held == \E w \in Worker : pc[w] = "talk" /\ peer[w] \in Silent
Dealt(j) == /\ \A k \in 1 .. Len(jobs) : jobs[k] # j
            /\ \A w \in Worker : s[w] # j
EveryRequestEnds ==
  \A j \in 1 .. MAX_ATTEMPTS : (j <= Len(asked)) ~> (Dealt(j) \/ ~Running \/ Held)
=============================================================================
