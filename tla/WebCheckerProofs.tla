-------------------------- MODULE WebCheckerProofs --------------------------
(***************************************************************************)
(* Theorems about WebChecker for any number of workers, servers and        *)
(* requests.  Prompt is not inductive: between add_job's unlock and its    *)
(* notify_one there may be one request more than workers on their way.     *)
(***************************************************************************)
EXTENDS WebChecker, SequenceTheorems, FiniteSetTheorems, TLAPS

Owed == IF main = "notify" THEN 1 ELSE 0
Covered == Running /\ Waiting # {} => Cardinality(Free) + Owed >= Len(jobs)

IInv == TypeOK /\ InOrder /\ Covered

-----------------------------------------------------------------------------
(* What a worker does to the queue and the shared state.                   *)
LEMMA TypeInit == Init => TypeOK
BY WorkerAssumption, EmptySeq DEF Init, TypeOK, NoJob, Running

LEMMA AskFacts ==
  ASSUME TypeOK, NEW t \in Target
  PROVE  /\ Append(asked, t) \in Seq(Target)
         /\ Len(Append(asked, t)) = Len(asked) + 1
         /\ Len(asked) \in Nat
BY AppendProperties, LenProperties DEF TypeOK

LEMMA TypeStep ==
  ASSUME TypeOK, InOrder, [Next]_vars
  PROVE  TypeOK'
<1> USE DEF TypeOK, Running
<1>1. ASSUME NEW t \in Target, AddJob(t)
      PROVE  TypeOK'
  <2>1. asked' = Append(asked, t) /\ asked' \in Seq(Target)
        /\ Len(asked') = Len(asked) + 1 /\ Len(asked) \in Nat
    BY <1>1, AskFacts DEF AddJob
  <2>2. jobs' = Append(jobs, Len(asked'))
    BY <1>1 DEF AddJob
  <2>3. jobs \in Seq(1 .. Len(asked'))
    BY <2>1
  <2>4. jobs' \in Seq(1 .. Len(asked'))
    BY <2>1, <2>2, <2>3, AppendProperties
  <2>5. /\ s' \in [Worker -> 0 .. Len(asked')]
        /\ status' \in [Worker -> (0 .. Len(asked'))
                                  \X {"idle", "connecting", "reply", "error"}]
    BY <1>1, <2>1 DEF AddJob, worker
  <2> QED
    BY <1>1, <2>1, <2>4, <2>5, WorkerAssumption DEF AddJob, worker
<1>2. CASE Notify
  BY <1>2 DEF Notify, Waiting
<1>3. CASE Quit
  BY <1>3 DEF Quit, worker
<1>4. ASSUME NEW w \in Worker, Take(w)
      PROVE  TypeOK'
  <2>1. Head(jobs) \in 1 .. Len(asked) /\ Tail(jobs) \in Seq(1 .. Len(asked))
    BY <1>4, HeadTailProperties DEF Take
  <2> QED
    BY <1>4, <2>1 DEF Take
<1>5. ASSUME NEW w \in Worker, Wait(w) \/ Spurious(w)
      PROVE  TypeOK'
  BY <1>5 DEF Wait, Spurious
<1>6. ASSUME NEW w \in Worker, Resolve(w) \/ Check(w) \/ Connect(w) \/ Reply(w) \/ Fail(w)
      PROVE  TypeOK'
  <2>1. UNCHANGED <<main, asked, jobs>>
    BY <1>6 DEF Resolve, Check, Connect, Reply, Fail
  <2>2. /\ s[w] \in 1 .. Len(asked) /\ Of(w) \in Target
        /\ Len(asked) \in Nat
    <3>1. s[w] # NoJob /\ s[w] \in 0 .. Len(asked)
      BY <1>6 DEF InOrder, Resolve, Check, Connect, Reply, Fail
    <3>2. s[w] \in 1 .. Len(asked) /\ Len(asked) \in Nat
      BY <3>1, LenProperties DEF NoJob
    <3> QED
      BY <3>2, ElementOfSeq DEF Of
  <2>3. s' \in [Worker -> 0 .. Len(asked)]
    BY <1>6, <2>2 DEF Resolve, Check, Connect, Reply, Fail, Report, NoJob
  <2>4. status' \in [Worker -> (0 .. Len(asked))
                               \X {"idle", "connecting", "reply", "error"}]
    <3>1. ASSUME NEW msg \in {"idle", "connecting", "reply", "error"}, Shows(w, msg)
          PROVE  status' \in [Worker -> (0 .. Len(asked))
                               \X {"idle", "connecting", "reply", "error"}]
      <4>1. <<s[w], msg>> \in (0 .. Len(asked)) \X {"idle", "connecting", "reply", "error"}
        OBVIOUS
      <4> QED
        BY <3>1, <4>1 DEF Shows
    <3> QED
      BY <1>6, <3>1 DEF Resolve, Check, Connect, Reply, Fail, Report
  <2>5. pc' \in [Worker -> {"free", "waiting", "resolve", "check", "connect", "talk"}]
    BY <1>6 DEF Resolve, Check, Connect, Reply, Fail, Report
  <2>6. host' \in Target
    BY <1>6, <2>2 DEF Resolve, Check, Connect, Reply, Fail
  <2>7. peer' \in [Worker -> Target]
    BY <1>6 DEF Resolve, Check, Connect, Reply, Fail
  <2>8. try' \in [Worker -> 0 .. 2]
    <3>1. try \in [Worker -> 0 .. 2] /\ (pc[w] = "talk" => try[w] < 2)
      OBVIOUS
    <3>2. \/ UNCHANGED try
          \/ try' = [try EXCEPT ![w] = 0]
          \/ try' = [try EXCEPT ![w] = @ + 1] /\ pc[w] = "talk"
      BY <1>6 DEF Resolve, Check, Connect, Reply, Fail
    <3> QED
      <4> HIDE DEF TypeOK
      <4>1. try[w] \in 0 .. 2
        BY <3>1
      <4>2. pc[w] = "talk" => try[w] + 1 \in 0 .. 2
        BY <3>1, <4>1
      <4> QED
        BY <3>1, <3>2, <4>2
  <2>9. \A v \in Worker : pc'[v] \in {"connect", "talk"} => try'[v] < 2
    BY <1>6 DEF Resolve, Check, Connect, Reply, Fail, Report
  <2> QED
    BY <2>1, <2>3, <2>4, <2>5, <2>6, <2>7, <2>8, <2>9
<1>7. CASE UNCHANGED vars
  BY <1>7 DEF vars, worker
<1> QED
  BY <1>1, <1>2, <1>3, <1>4, <1>5, <1>6, <1>7 DEF Next, Main, Work

-----------------------------------------------------------------------------
(* The order of the queue.                                                 *)
LEMMA OrderStep ==
  ASSUME TypeOK, InOrder, [Next]_vars
  PROVE  InOrder'
<1> USE DEF TypeOK
<1> DEFINE Ask == Len(asked)
<1>0. Len(asked) \in Nat /\ Len(jobs) \in Nat
  BY LenProperties
<1>1. ASSUME NEW t \in Target, AddJob(t)
      PROVE  InOrder'
  <2>1. Len(asked') = Len(asked) + 1 /\ jobs' = Append(jobs, Len(asked'))
        /\ UNCHANGED <<pc, s>>
    BY <1>1, AskFacts DEF AddJob, worker
  <2>2. /\ Len(jobs') = Len(jobs) + 1
        /\ \A k \in 1 .. Len(jobs) : jobs'[k] = jobs[k]
        /\ jobs'[Len(jobs) + 1] = Len(asked')
    BY <2>1, AppendProperties
  <2>3. \A k \in 1 .. Len(jobs') : jobs'[k] = Len(asked') - Len(jobs') + k
    BY <1>0, <2>1, <2>2 DEF InOrder
  <2> QED
    BY <1>0, <2>1, <2>2, <2>3 DEF InOrder
<1>2. ASSUME NEW w \in Worker, Take(w)
      PROVE  InOrder'
  <2>1. /\ jobs # <<>> /\ jobs' = Tail(jobs) /\ asked' = asked
        /\ s' = [s EXCEPT ![w] = Head(jobs)] /\ pc' = [pc EXCEPT ![w] = "resolve"]
    BY <1>2 DEF Take
  <2>2. /\ Len(jobs) >= 1 /\ Len(jobs') = Len(jobs) - 1
        /\ \A k \in 1 .. Len(jobs') : jobs'[k] = jobs[k + 1]
        /\ Head(jobs) = jobs[1]
    BY <1>0, <2>1, HeadTailProperties, EmptySeq
  <2>3. Head(jobs) = Len(asked) - Len(jobs) + 1
    BY <2>2 DEF InOrder
  <2>4. Head(jobs) # NoJob
    BY <2>1, HeadTailProperties DEF NoJob
  <2>5. \A k \in 1 .. Len(jobs') : jobs'[k] = Len(asked') - Len(jobs') + k
    BY <1>0, <2>1, <2>2 DEF InOrder
  <2>6. ASSUME NEW u \in Worker
        PROVE  /\ s'[u] <= Len(asked') - Len(jobs')
               /\ s'[u] = NoJob <=> pc'[u] \in {"free", "waiting"}
               /\ \A v \in Worker \ {u} : s'[u] # NoJob => s'[v] # s'[u]
    BY <1>0, <2>1, <2>2, <2>3, <2>4 DEF InOrder
  <2> QED
    BY <2>5, <2>6 DEF InOrder
<1>3. ASSUME NEW w \in Worker, UNCHANGED <<asked, jobs>>,
             \/ UNCHANGED s /\ \A u \in Worker : pc'[u] \in {"free", "waiting"}
                                              <=> pc[u] \in {"free", "waiting"}
             \/ s' = [s EXCEPT ![w] = NoJob] /\ pc' = [pc EXCEPT ![w] = "free"]
      PROVE  InOrder'
  BY <1>0, <1>3 DEF InOrder, NoJob
<1>4. CASE Notify
  <2>1. UNCHANGED <<asked, jobs, s>>
        /\ \A u \in Worker : pc'[u] \in {"free", "waiting"} <=> pc[u] \in {"free", "waiting"}
    BY <1>4 DEF Notify, Waiting
  <2> QED
    BY <2>1 DEF InOrder
<1>5. ASSUME NEW w \in Worker, Wait(w) \/ Spurious(w)
      PROVE  InOrder'
  BY <1>3, <1>5 DEF Wait, Spurious
<1>6. ASSUME NEW w \in Worker, Resolve(w) \/ Check(w) \/ Connect(w) \/ Reply(w) \/ Fail(w)
      PROVE  InOrder'
  BY <1>3, <1>6 DEF Resolve, Check, Connect, Reply, Fail, Report, Shows
<1>7. CASE Quit \/ UNCHANGED vars
  BY <1>7 DEF Quit, vars, worker, InOrder
<1> QED
  BY <1>1, <1>2, <1>4, <1>5, <1>6, <1>7 DEF Next, Main, Work

-----------------------------------------------------------------------------
(* Workers on their way to the queue.                                      *)
LEMMA FreeFacts ==
  /\ IsFiniteSet(Free) /\ Cardinality(Free) \in Nat
  /\ \A w \in Worker : IsFiniteSet(Free \cup {w}) /\ IsFiniteSet(Free \ {w})
BY WorkerAssumption, FS_Subset, FS_CardinalityType, FS_AddElement, FS_RemoveElement
   DEF Free

(* One worker more.                                                        *)
LEMMA Freed ==
  ASSUME TypeOK, NEW w \in Worker, pc[w] # "free", pc' = [pc EXCEPT ![w] = "free"]
  PROVE  Cardinality(Free') = Cardinality(Free) + 1
<1>1. Free' = Free \cup {w} /\ w \notin Free
  BY DEF Free, TypeOK
<1> QED
  BY <1>1, FreeFacts, FS_AddElement

(* One worker less.                                                        *)
LEMMA Taken ==
  ASSUME TypeOK, NEW w \in Worker, pc[w] = "free", NEW x, x # "free",
         pc' = [pc EXCEPT ![w] = x]
  PROVE  Cardinality(Free') = Cardinality(Free) - 1
<1>1. Free' = Free \ {w} /\ w \in Free
  BY DEF Free, TypeOK
<1> QED
  BY <1>1, FreeFacts, FS_RemoveElement

LEMMA CoveredStep ==
  ASSUME TypeOK, Covered, [Next]_vars
  PROVE  Covered'
<1> USE DEF TypeOK
<1>0. Len(jobs) \in Nat /\ Cardinality(Free) \in Nat /\ Owed \in {0, 1}
  BY LenProperties, FreeFacts DEF Owed
<1>1. ASSUME NEW t \in Target, AddJob(t)
      PROVE  Covered'
  <2>1. /\ Len(jobs') = Len(jobs) + 1 /\ pc' = pc /\ main = "menu"
        /\ main' \in {"notify", "exit"}
    <3>1. jobs' = Append(jobs, Len(asked')) /\ Len(asked') \in Nat
      BY <1>1, AskFacts DEF AddJob
    <3>2. jobs \in Seq(Nat)
      BY LenProperties
    <3> QED
      BY <1>1, <3>1, <3>2, AppendProperties DEF AddJob, worker
  <2>2. Waiting' = Waiting /\ Free' = Free
    BY <2>1 DEF Waiting, Free
  <2> QED
    BY <1>0, <2>1, <2>2 DEF Covered, Owed, Running
<1>2. CASE Notify
  <2>1. CASE Waiting = {} /\ UNCHANGED pc
    BY <2>1 DEF Covered, Waiting
  <2>2. ASSUME NEW w \in Waiting, pc' = [pc EXCEPT ![w] = "free"]
        PROVE  Covered'
    <3>1. w \in Worker /\ pc[w] # "free"
      BY DEF Waiting
    <3>2. Cardinality(Free') = Cardinality(Free) + 1
      BY <2>2, <3>1, Freed
    <3>3. main = "notify" /\ main' = "menu" /\ jobs' = jobs
      BY <1>2 DEF Notify
    <3> QED
      BY <1>0, <3>2, <3>3 DEF Covered, Owed, Running
  <2> QED
    BY <1>2, <2>1, <2>2 DEF Notify
<1>3. ASSUME NEW w \in Worker, Take(w)
      PROVE  Covered'
  <2>1. Len(jobs') = Len(jobs) - 1
    BY <1>3, HeadTailProperties DEF Take
  <2>2. Cardinality(Free') = Cardinality(Free) - 1
    BY <1>3, Taken DEF Take
  <2>3. Waiting' = Waiting /\ main' = main
    BY <1>3 DEF Waiting, Take
  <2> QED
    BY <1>0, <2>1, <2>2, <2>3 DEF Covered, Owed, Running
<1>4. ASSUME NEW w \in Worker, Wait(w)
      PROVE  Covered'
  <2>1. Len(jobs') = 0 /\ Cardinality(Free') \in Nat /\ Owed' \in {0, 1}
    <3>1. Cardinality(Free') = Cardinality(Free) - 1 /\ w \in Free
      BY <1>4, Taken DEF Wait, Free
    <3>2. Free' \subseteq Worker
      BY DEF Free
    <3>3. Cardinality(Free') \in Nat
      BY <3>2, WorkerAssumption, FS_Subset, FS_CardinalityType
    <3> QED
      BY <1>4, <3>3, EmptySeq DEF Wait, Owed
  <2> QED
    BY <2>1 DEF Covered
<1>5. ASSUME NEW w \in Worker, Spurious(w)
      PROVE  Covered'
  <2>1. Cardinality(Free') = Cardinality(Free) + 1 /\ w \in Waiting
    BY <1>5, Freed DEF Spurious, Waiting
  <2>2. UNCHANGED <<main, jobs>>
    BY <1>5 DEF Spurious
  <2> QED
    BY <1>0, <2>1, <2>2 DEF Covered, Owed, Running
<1>6. ASSUME NEW w \in Worker, Resolve(w) \/ Check(w) \/ Connect(w) \/ Reply(w) \/ Fail(w)
      PROVE  Covered'
  <2>1. /\ UNCHANGED <<main, jobs>> /\ pc[w] \notin {"free", "waiting"}
        /\ \/ pc' = [pc EXCEPT ![w] = "free"]
           \/ \E x \in {"check", "connect", "talk"} : pc' = [pc EXCEPT ![w] = x]
    BY <1>6 DEF Resolve, Check, Connect, Reply, Fail, Report
  <2>2. Waiting' = Waiting
    BY <2>1 DEF Waiting
  <2>3. CASE pc' = [pc EXCEPT ![w] = "free"]
    <3>1. Cardinality(Free') = Cardinality(Free) + 1
      BY <2>1, <2>3, Freed
    <3> QED
      BY <1>0, <2>1, <2>2, <3>1 DEF Covered, Owed, Running
  <2>4. ASSUME NEW x \in {"check", "connect", "talk"}, pc' = [pc EXCEPT ![w] = x]
        PROVE  Covered'
    <3>1. Free' = Free
      BY <2>1, <2>4 DEF Free
    <3> QED
      BY <2>1, <2>2, <3>1 DEF Covered, Owed, Running
  <2> QED
    BY <2>1, <2>3, <2>4
<1>7. CASE Quit
  BY <1>7 DEF Quit, Covered, Running
<1>8. CASE UNCHANGED vars
  BY <1>8 DEF vars, worker, Covered, Running, Owed, Waiting, Free
<1> QED
  BY <1>1, <1>2, <1>3, <1>4, <1>5, <1>6, <1>7, <1>8 DEF Next, Main, Work

-----------------------------------------------------------------------------
LEMMA Inductive == Spec => []IInv
<1>1. Init => IInv
  <2> SUFFICES ASSUME Init
               PROVE  IInv
    OBVIOUS
  <2>1. InOrder
    BY WorkerAssumption, EmptySeq DEF Init, InOrder, NoJob
  <2>2. Waiting = {}
    BY DEF Init, Waiting
  <2> QED
    BY <2>1, <2>2, TypeInit DEF IInv, Covered
<1>2. IInv /\ [Next]_vars => IInv'
  BY TypeStep, OrderStep, CoveredStep DEF IInv
<1> QED
  BY <1>1, <1>2, PTL DEF Spec

(* Every variable keeps its type.                                          *)
THEOREM TypeCorrect == Spec => []TypeOK
<1>1. IInv => TypeOK
  BY DEF IInv
<1> QED
  BY <1>1, Inductive, PTL

(* No wakeup is lost, for any number of workers.                           *)
THEOREM NoLostWakeup == Spec => []Prompt
<1>1. IInv => Prompt
  BY FreeFacts, LenProperties DEF IInv, Covered, Prompt, Owed, Running, TypeOK
<1> QED
  BY <1>1, Inductive, PTL

(* Requests are taken in their order, each by one worker.                  *)
THEOREM TakenInOrder == Spec => []InOrder
<1>1. IInv => InOrder
  BY DEF IInv
<1> QED
  BY <1>1, Inductive, PTL
=============================================================================
