------------------------------ MODULE TickProofs ------------------------------
(***************************************************************************)
(* Proofs about the ticks of the two servers.  Of the R-Type server, for   *)
(* any number of workers and sessions: that the session thread pool is     *)
(* type correct, that its barrier holds and that it implements             *)
(* TickBarrier.  Of the bagario server, for any number of players, cells   *)
(* and viruses: that BagarioSession tracks the cells there are, keeps the  *)
(* limit on them and tells those who were eaten.                           *)
(***************************************************************************)
EXTENDS SessionThreadPool, Bagario, FiniteSetTheorems, WellFoundedInduction, TLAPS

------------------------------------------------------------------------------
(* The session thread pool *)

Pushed == mpc \in {"notify", "wait", "evaluate", "block", "asleep"}

Jobs(label) == {job[w] : w \in {v \in Workers : wpc[v] = label}}

\* The sessions whose fetch_add has happened
Counted == updated \ Jobs("count")

\* Before the push the batch is untouched and the counters are being reset
BeforePush ==
    /\ mpc \in {"reset", "setPending", "push"} => updated = {}
    /\ mpc \in {"setPending", "push"} => completed = 0
    /\ mpc = "push" => pending = Cardinality(tasks)

\* Once pushed, each task of the batch is in exactly one place: still queued,
\* inside update(), returned from it but not counted, or counted.
Partition ==
    Pushed =>
      /\ pending = Cardinality(tasks)
      /\ completed = Cardinality(Counted)
      /\ tasks = queue \cup updated \cup Jobs("run")
      /\ queue \cap updated = {}
      /\ \A w \in Workers :
           /\ wpc[w] = "run" => job[w] \in tasks /\ job[w] \notin queue \cup updated
           /\ wpc[w] = "count" => job[w] \in updated

\* Sessions die only in "serial" and "cleanup", so a batch's stay alive
BatchAlive == ParallelPhase => \A s \in tasks : sess[s] # "none"

IInv ==
    /\ TypeOK
    /\ BarrierHolds
    /\ BeforePush
    /\ Partition
    /\ OneWorkerPerSession
    /\ BatchAlive

------------------------------------------------------------------------------
USE WorkersAssumption, SessionsAssumption, OwnersAssumption

\* Every batch is finite, so the counters are natural numbers.
LEMMA FiniteBatch ==
    ASSUME NEW S \in SUBSET Sessions
    PROVE  IsFiniteSet(S) /\ Cardinality(S) \in Nat
  BY FS_Subset, FS_CardinalityType

\* Each step keeps every variable in its type.
LEMMA TypeStep == TypeOK /\ [Next]_vars => TypeOK'
  <1> SUFFICES ASSUME TypeOK, [Next]_vars
               PROVE  TypeOK'
    OBVIOUS
  <1> USE DEF TypeOK, MainPC, WorkerPC, mainVars, workerVars, counters, goto
  <1>1. ASSUME NEW s \in Sessions, CreateSession(s) \/ EndSession(s)
        PROVE  TypeOK'
    BY <1>1 DEF CreateSession, EndSession
  <1>2. CASE CollectTasks
    BY <1>2 DEF CollectTasks, Active
  <1>3. CASE SetPending
    BY <1>3, FiniteBatch DEF SetPending
  <1>4. CASE NotifyBatch \/ NotifyShutdown
    BY <1>4 DEF NotifyBatch, NotifyShutdown, WakeWorkers
  <1>5. CASE ResetCompleted \/ PushTasks
    BY <1>5 DEF ResetCompleted, PushTasks
  <1>6. CASE LockCompletion \/ EvaluateCompletion \/ BlockOnCompletion \/ SpuriousMain
    BY <1>6 DEF LockCompletion, EvaluateCompletion, BlockOnCompletion, SpuriousMain
  <1>7. CASE EraseInactive
    BY <1>7 DEF EraseInactive
  <1>8. CASE StoreShutdown \/ JoinWorkers
    BY <1>8 DEF StoreShutdown, JoinWorkers
  <1>9. ASSUME NEW w \in Workers, WorkerStep(w)
        PROVE  TypeOK'
    <2>1. CASE TestShutdown(w) \/ LockQueue(w)
      BY <2>1 DEF TestShutdown, LockQueue
    <2>2. CASE EvaluateQueue(w) \/ BlockOnQueue(w) \/ SpuriousWorker(w)
      BY <2>2 DEF EvaluateQueue, BlockOnQueue, SpuriousWorker
    <2>3. CASE TakeTask(w)
      BY <2>3 DEF TakeTask
    <2>4. CASE RunUpdate(w)
      <3>1. job[w] \in Sessions
        BY <2>4 DEF RunUpdate
      <3> QED
        BY <2>4, <3>1 DEF RunUpdate
    <2>5. CASE CountCompleted(w)
      BY <2>5 DEF CountCompleted
    <2>6. CASE ComparePending(w) \/ SignalCompletion(w)
      BY <2>6 DEF ComparePending, SignalCompletion
    <2> QED
      BY <1>9, <2>1, <2>2, <2>3, <2>4, <2>5, <2>6 DEF WorkerStep
  <1>10. CASE Terminated \/ UNCHANGED vars
    BY <1>10 DEF Terminated, vars
  <1> QED
    BY <1>1, <1>2, <1>3, <1>4, <1>5, <1>6, <1>7, <1>8, <1>9, <1>10 DEF Next, MainStep

------------------------------------------------------------------------------
\* A step that moves no worker into or out of update(), touches none of the
\* batch's data, and keeps the main thread where it was or within the wait.
LEMMA QuietStep ==
    ASSUME IInv, TypeOK',
           \A w \in Workers : \/ wpc'[w] = wpc[w]
                             \/ {wpc[w], wpc'[w]} \cap {"run", "count"} = {},
           mpc' = mpc \/ (Pushed /\ Pushed'),
           UNCHANGED <<tasks, queue, counters, job, sess, updated>>
    PROVE  IInv'
  <1> USE DEF IInv, counters
  <1>1. Running' = Running /\ Jobs("run")' = Jobs("run") /\ Jobs("count")' = Jobs("count")
    <2>1. \A w \in Workers : /\ wpc'[w] = "run" <=> wpc[w] = "run"
                             /\ wpc'[w] = "count" <=> wpc[w] = "count"
      OBVIOUS
    <2> QED
      BY <2>1 DEF Running, Jobs
  <1>2. Serial' = Serial /\ Pushed' = Pushed /\ ParallelPhase' = ParallelPhase
    BY DEF Serial, Pushed, ParallelPhase
  <1>3. BarrierHolds'
    <2>1. Serial => mpc' = mpc
      BY DEF Serial, Pushed
    <2> QED
      BY <1>1, <1>2, <2>1 DEF BarrierHolds
  <1>4. BeforePush'
    BY DEF BeforePush, Pushed
  <1>5. Partition'
    <2> SUFFICES ASSUME Pushed' PROVE Partition'
      BY DEF Partition
    <2>1. Counted' = Counted
      BY <1>1 DEF Counted
    <2>2. \A w \in Workers : /\ wpc'[w] = "run" => wpc[w] = "run"
                             /\ wpc'[w] = "count" => wpc[w] = "count"
      OBVIOUS
    <2> QED
      BY <1>1, <1>2, <2>1, <2>2 DEF Partition
  <1>6. OneWorkerPerSession'
    BY <1>1 DEF OneWorkerPerSession, Running
  <1>7. BatchAlive'
    BY <1>2 DEF BatchAlive
  <1> QED
    BY <1>3, <1>4, <1>5, <1>6, <1>7

\* The counters agree only when nothing is queued or running: why leaving
\* wait_for_completion on completed = pending is safe.
LEMMA EqualCountersMeanDone ==
    ASSUME IInv, Pushed, completed = pending
    PROVE  queue = {} /\ Running = {} /\ updated = tasks
  <1> USE DEF IInv, TypeOK
  <1>1. Counted \subseteq tasks /\ IsFiniteSet(tasks)
    BY FiniteBatch DEF Partition, Counted
  <1>2. Cardinality(Counted) = Cardinality(tasks)
    BY DEF Partition
  <1>3. Counted = tasks
    BY <1>1, <1>2, FS_Subset
  <1>4. updated = tasks /\ Jobs("count") \cap tasks = {}
    BY <1>3 DEF Partition, Counted
  <1>5. queue = {}
    BY <1>4 DEF Partition
  <1>6. \A w \in Workers : wpc[w] # "run" /\ wpc[w] # "count"
    <2> SUFFICES ASSUME NEW w \in Workers PROVE wpc[w] # "run" /\ wpc[w] # "count"
      OBVIOUS
    <2>1. wpc[w] # "run"
      BY <1>4 DEF Partition
    <2>2. wpc[w] = "count" => job[w] \in Jobs("count") /\ job[w] \in updated
      BY DEF Partition, Jobs
    <2> QED
      BY <1>4, <2>1, <2>2
  <1> QED
    BY <1>4, <1>5, <1>6 DEF Running

\* A worker pops a task: it moves from the queue to the running ones.
LEMMA TakeStep ==
    ASSUME IInv, TypeOK', NEW w \in Workers, TakeTask(w)
    PROVE  IInv'
  <1> USE DEF IInv, TypeOK, mainVars, counters, goto
  <1>1. CASE shutdown
    <2>1. qmutex' = Free /\ UNCHANGED <<queue, job>> /\ wpc' = [wpc EXCEPT ![w] = "exit"]
      BY <1>1 DEF TakeTask
    <2>2. wpc[w] = "take" /\ UNCHANGED <<mpc, tasks, counters, sess, updated>>
      BY DEF TakeTask
    <2> QED
      BY <2>1, <2>2, QuietStep
  <1>2. CASE ~shutdown
    <2>1. PICK s \in queue : queue' = queue \ {s} /\ job' = [job EXCEPT ![w] = s]
      BY <1>2 DEF TakeTask
    <2>2. /\ wpc[w] = "take" /\ wpc' = [wpc EXCEPT ![w] = "run"]
          /\ UNCHANGED <<mpc, tasks, pending, completed, sess, updated>>
      BY <1>2 DEF TakeTask
    <2>3. Pushed /\ ~Serial /\ Pushed' /\ ~Serial' /\ ParallelPhase' = ParallelPhase
      BY <2>1, <2>2 DEF BarrierHolds, Serial, Pushed, MainPC, ParallelPhase
    <2>4. \A v \in Workers : v # w => wpc'[v] = wpc[v] /\ job'[v] = job[v]
      BY <2>1, <2>2
    <2>5. wpc'[w] = "run" /\ job'[w] = s /\ s \in tasks /\ s \notin updated
      BY <2>1, <2>2, <2>3 DEF Partition
    <2>6. Jobs("count")' = Jobs("count") /\ Jobs("run")' = Jobs("run") \cup {s}
      BY <2>1, <2>2, <2>4, <2>5 DEF Jobs
    <2>7. BarrierHolds' /\ BeforePush' /\ BatchAlive'
      BY <2>2, <2>3 DEF BarrierHolds, BeforePush, BatchAlive, Pushed
    <2>8. Partition'
      <3>1. Counted' = Counted
        BY <2>2, <2>6 DEF Counted
      <3>2. tasks' = queue' \cup updated' \cup Jobs("run")'
        BY <2>1, <2>2, <2>3, <2>6 DEF Partition
      <3>3. ASSUME NEW v \in Workers
            PROVE  /\ wpc'[v] = "run" => job'[v] \in tasks' /\ job'[v] \notin queue' \cup updated'
                   /\ wpc'[v] = "count" => job'[v] \in updated'
        BY <2>1, <2>2, <2>3, <2>4, <2>5 DEF Partition
      <3> QED
        BY <2>1, <2>2, <2>3, <3>1, <3>2, <3>3 DEF Partition
    <2>9. OneWorkerPerSession'
      <3>1. Running' = Running \cup {w}
        BY <2>2 DEF Running
      <3>2. \A v \in Running : v # w /\ job[v] # s
        BY <2>1, <2>2, <2>3 DEF Running, Partition
      <3> QED
        BY <2>4, <2>5, <3>1, <3>2 DEF OneWorkerPerSession, Running
    <2> QED
      BY <2>7, <2>8, <2>9
  <1> QED
    BY <1>1, <1>2

\* update() returns in a worker: its session leaves the running jobs for the
\* updated ones, but is not counted yet.
LEMMA RunStep ==
    ASSUME IInv, TypeOK', NEW w \in Workers, RunUpdate(w)
    PROVE  IInv'
  <1> USE DEF IInv, TypeOK, mainVars, counters, goto
  <1>1. /\ wpc[w] = "run" /\ wpc' = [wpc EXCEPT ![w] = "count"]
        /\ updated' = updated \cup {job[w]}
        /\ UNCHANGED <<mpc, tasks, queue, pending, completed, job>>
    BY DEF RunUpdate
  <1>2. Pushed /\ ~Serial /\ Pushed' /\ ~Serial' /\ ParallelPhase' = ParallelPhase
    BY <1>1 DEF BarrierHolds, Running, Serial, Pushed, MainPC, ParallelPhase
  <1>3. job[w] \in tasks /\ job[w] \notin queue /\ job[w] \notin updated
    BY <1>1, <1>2 DEF Partition
  <1>4. \A v \in Workers \ {w} : wpc'[v] = wpc[v] /\ (wpc[v] = "run" => job[v] # job[w])
    BY <1>1 DEF OneWorkerPerSession, Running
  <1>5. wpc'[w] = "count"
    BY <1>1
  <1>6. Jobs("count")' = Jobs("count") \cup {job[w]} /\ Jobs("run")' = Jobs("run") \ {job[w]}
    BY <1>1, <1>4, <1>5 DEF Jobs
  <1>7. BarrierHolds' /\ BeforePush'
    BY <1>1, <1>2 DEF BarrierHolds, BeforePush, Pushed
  <1>8. BatchAlive'
    <2>1. \A s \in Sessions : sess[s] # "none" => sess'[s] # "none"
      BY DEF RunUpdate
    <2> QED
      BY <1>1, <1>2, <2>1 DEF BatchAlive
  <1>9. Partition'
    <2>1. Counted' = Counted
      BY <1>1, <1>3, <1>6 DEF Counted
    <2>2. tasks' = queue' \cup updated' \cup Jobs("run")' /\ queue' \cap updated' = {}
      BY <1>1, <1>2, <1>3, <1>6 DEF Partition
    <2>3. ASSUME NEW v \in Workers
          PROVE  /\ wpc'[v] = "run" => job'[v] \in tasks' /\ job'[v] \notin queue' \cup updated'
                 /\ wpc'[v] = "count" => job'[v] \in updated'
      BY <1>1, <1>2, <1>3, <1>4, <1>5 DEF Partition
    <2> QED
      BY <1>1, <1>2, <2>1, <2>2, <2>3 DEF Partition
  <1>10. OneWorkerPerSession'
    <2>1. Running' = Running
      BY <1>1, <1>4, <1>5 DEF Running
    <2> QED
      BY <1>1, <2>1 DEF OneWorkerPerSession
  <1> QED
    BY <1>7, <1>8, <1>9, <1>10

\* fetch_add: one more session is counted, and the counter says so.
LEMMA CountStep ==
    ASSUME IInv, TypeOK', NEW w \in Workers, CountCompleted(w)
    PROVE  IInv'
  <1> USE DEF IInv, TypeOK, mainVars, goto
  <1>1. /\ wpc[w] = "count" /\ wpc' = [wpc EXCEPT ![w] = "compare"]
        /\ completed' = completed + 1
        /\ UNCHANGED <<mpc, tasks, queue, pending, sess, updated>>
        /\ job' = [job EXCEPT ![w] = NoSession]
    BY DEF CountCompleted
  <1>2. Pushed /\ ~Serial /\ Pushed' /\ ~Serial' /\ ParallelPhase' = ParallelPhase
    BY <1>1 DEF BarrierHolds, Running, Serial, Pushed, MainPC, ParallelPhase
  <1>3. \A v \in Workers \ {w} : /\ wpc'[v] = wpc[v] /\ job'[v] = job[v]
                                 /\ wpc[v] = "count" => job[v] # job[w]
    BY <1>1 DEF OneWorkerPerSession, Running
  <1>4. wpc'[w] = "compare" /\ job[w] \in updated /\ job[w] \in Jobs("count")
    BY <1>1, <1>2 DEF Partition, Jobs
  <1>5. Jobs("count")' = Jobs("count") \ {job[w]} /\ Jobs("run")' = Jobs("run")
    BY <1>1, <1>3, <1>4 DEF Jobs
  <1>6. BarrierHolds' /\ BeforePush' /\ BatchAlive'
    BY <1>1, <1>2 DEF BarrierHolds, BeforePush, BatchAlive, Pushed
  <1>7. Partition'
    <2>1. Counted' = Counted \cup {job[w]} /\ job[w] \notin Counted
      BY <1>1, <1>4, <1>5 DEF Counted
    <2>2. IsFiniteSet(Counted)
      <3>1. Counted \in SUBSET Sessions
        BY DEF Counted
      <3> QED
        BY <3>1, FiniteBatch
    <2>3. completed' = Cardinality(Counted')
      <3>1. completed = Cardinality(Counted)
        BY <1>2 DEF Partition
      <3> QED
        BY <1>1, <2>1, <2>2, <3>1, FS_AddElement
    <2>4. ASSUME NEW v \in Workers
          PROVE  /\ wpc'[v] = "run" => job'[v] \in tasks' /\ job'[v] \notin queue' \cup updated'
                 /\ wpc'[v] = "count" => job'[v] \in updated'
      BY <1>1, <1>2, <1>3, <1>4 DEF Partition
    <2> QED
      BY <1>1, <1>2, <1>5, <2>3, <2>4 DEF Partition
  <1>8. OneWorkerPerSession'
    <2>1. Running' = Running \ {w}
      BY <1>1, <1>3, <1>4 DEF Running
    <2> QED
      BY <1>3, <2>1 DEF OneWorkerPerSession, Running
  <1> QED
    BY <1>6, <1>7, <1>8

\* The main thread's own steps.
LEMMA MainInvStep ==
    ASSUME IInv, TypeOK', MainStep
    PROVE  IInv'
  <1> USE DEF IInv, TypeOK, mainVars, workerVars, counters
  <1>1. ASSUME NEW s \in Sessions, CreateSession(s) \/ EndSession(s)
        PROVE  IInv'
    <2>1. mpc = "serial" /\ UNCHANGED <<mpc, wpc, tasks, queue, pending, completed, job, updated>>
      BY <1>1 DEF CreateSession, EndSession
    <2>2. ~Pushed' /\ ~ParallelPhase' /\ Running' = Running
      BY <2>1 DEF Pushed, ParallelPhase, Running
    <2> QED
      BY <2>1, <2>2 DEF BarrierHolds, Serial, BeforePush, Partition, OneWorkerPerSession, BatchAlive
  <1>2. CASE CollectTasks
    <2>1. /\ mpc = "serial" /\ mpc' \in {"cleanup", "reset"} /\ tasks' = Active /\ updated' = {}
          /\ mpc' = "cleanup" => Active = {}
          /\ UNCHANGED <<wpc, queue, job, sess>>
      BY <1>2 DEF CollectTasks
    <2>2. ~Pushed' /\ queue' = {} /\ Running' = {} /\ \A s \in tasks' : sess'[s] # "none"
      BY <2>1 DEF Pushed, BarrierHolds, Serial, Running, Active
    <2> QED
      BY <2>1, <2>2 DEF BarrierHolds, BeforePush, Partition, OneWorkerPerSession, BatchAlive
  <1>3. CASE ResetCompleted \/ SetPending
    <2>1. /\ mpc \in {"reset", "setPending"} /\ mpc' \in {"setPending", "push"}
          /\ completed' = 0 /\ (mpc' = "push" => pending' = Cardinality(tasks'))
          /\ UNCHANGED <<wpc, tasks, queue, job, sess, updated>>
      BY <1>3 DEF ResetCompleted, SetPending, BeforePush
    <2>2. ~Pushed' /\ queue' = {} /\ Running' = {} /\ updated' = {} /\ ParallelPhase
      BY <2>1 DEF Pushed, BarrierHolds, Serial, Running, BeforePush, ParallelPhase
    <2> QED
      BY <2>1, <2>2 DEF BarrierHolds, BeforePush, Partition, OneWorkerPerSession, BatchAlive
  <1>4. CASE PushTasks
    <2>1. /\ mpc = "push" /\ mpc' = "notify" /\ queue' = tasks
          /\ UNCHANGED <<wpc, tasks, pending, completed, job, sess, updated>>
      BY <1>4 DEF PushTasks, BarrierHolds, Serial
    <2>2. Running = {} /\ updated = {} /\ completed = 0 /\ pending = Cardinality(tasks)
      BY <2>1 DEF BarrierHolds, Serial, BeforePush
    <2>3. \A w \in Workers : wpc'[w] \notin {"run", "count"}
      BY <2>1, <2>2 DEF Running
    <2>4. Running' = {} /\ Jobs("run")' = {} /\ Counted' = {}
      BY <2>1, <2>2, <2>3 DEF Running, Jobs, Counted
    <2>5. Partition'
      BY <2>1, <2>2, <2>3, <2>4, FS_EmptySet DEF Partition
    <2> QED
      BY <2>1, <2>4, <2>5 DEF BarrierHolds, Serial, BeforePush, OneWorkerPerSession,
                              BatchAlive, ParallelPhase
  <1>5. CASE NotifyBatch \/ LockCompletion \/ BlockOnCompletion \/ SpuriousMain
    <2>1. Pushed /\ Pushed' /\ UNCHANGED <<tasks, queue, counters, job, sess, updated>>
      BY <1>5 DEF NotifyBatch, LockCompletion, BlockOnCompletion, SpuriousMain, Pushed
    <2>2. \A w \in Workers : wpc'[w] = wpc[w] \/ {wpc[w], wpc'[w]} \cap {"run", "count"} = {}
      BY <1>5 DEF NotifyBatch, WakeWorkers, LockCompletion, BlockOnCompletion, SpuriousMain
    <2> QED
      BY <2>1, <2>2, QuietStep
  <1>6. CASE EvaluateCompletion
    <2>1. mpc = "evaluate" /\ UNCHANGED <<wpc, tasks, queue, pending, completed, job, sess, updated>>
      BY <1>6 DEF EvaluateCompletion
    <2>2. CASE mpc' = "block"
      BY <2>1, <2>2, QuietStep DEF Pushed
    <2>3. CASE mpc' = "cleanup" /\ completed = pending
      <3>1. queue = {} /\ Running = {} /\ updated = tasks
        BY <2>1, <2>3, EqualCountersMeanDone DEF Pushed
      <3>2. Running' = {} /\ ~Pushed' /\ ~ParallelPhase'
        BY <2>1, <2>3, <3>1 DEF Running, Pushed, ParallelPhase
      <3> QED
        BY <2>1, <2>3, <3>1, <3>2 DEF BarrierHolds, BeforePush, Partition,
                                      OneWorkerPerSession, BatchAlive
    <2> QED
      BY <1>6, <2>2, <2>3 DEF EvaluateCompletion
  <1>7. CASE EraseInactive \/ StoreShutdown \/ NotifyShutdown \/ JoinWorkers
    <2>1. /\ mpc \in {"cleanup", "serial", "stopNotify", "join"}
          /\ mpc' \in {"serial", "stopNotify", "join", "joined"}
          /\ UNCHANGED <<tasks, queue, pending, completed, job, updated>>
      BY <1>7 DEF EraseInactive, StoreShutdown, NotifyShutdown, JoinWorkers
    <2>2. \A w \in Workers : wpc'[w] = wpc[w] \/ {wpc[w], wpc'[w]} \cap {"run", "count"} = {}
      BY <1>7 DEF EraseInactive, StoreShutdown, NotifyShutdown, WakeWorkers, JoinWorkers
    <2>3. queue = {} /\ Running = {} /\ updated = tasks /\ ~Pushed' /\ ~ParallelPhase'
      BY <2>1 DEF BarrierHolds, Serial, Pushed, ParallelPhase
    <2>4. Running' = {}
      BY <2>2, <2>3 DEF Running
    <2> QED
      BY <2>1, <2>3, <2>4 DEF BarrierHolds, BeforePush, Partition, OneWorkerPerSession, BatchAlive
  <1> QED
    BY <1>1, <1>2, <1>3, <1>4, <1>5, <1>6, <1>7 DEF MainStep

\* A worker's step.
LEMMA WorkerInvStep ==
    ASSUME IInv, TypeOK', NEW w \in Workers, WorkerStep(w)
    PROVE  IInv'
  <1> USE DEF mainVars, counters, goto
  <1>1. CASE \/ TestShutdown(w) \/ LockQueue(w) \/ EvaluateQueue(w) \/ BlockOnQueue(w)
             \/ SpuriousWorker(w) \/ ComparePending(w) \/ SignalCompletion(w)
    <2>1. wpc[w] \notin {"run", "count"} /\ UNCHANGED <<tasks, queue, counters, job, sess, updated>>
      BY <1>1 DEF TestShutdown, LockQueue, EvaluateQueue, BlockOnQueue, SpuriousWorker,
                  ComparePending, SignalCompletion
    <2>2. \E label \in WorkerPC \ {"run", "count"} : wpc' = [wpc EXCEPT ![w] = label]
      BY <1>1 DEF TestShutdown, LockQueue, EvaluateQueue, BlockOnQueue, SpuriousWorker,
                  ComparePending, SignalCompletion, WorkerPC
    <2>3. \A v \in Workers : wpc'[v] = wpc[v] \/ {wpc[v], wpc'[v]} \cap {"run", "count"} = {}
      BY <2>1, <2>2 DEF IInv, TypeOK
    <2>4. mpc' = mpc \/ (Pushed /\ Pushed')
      BY <1>1 DEF TestShutdown, LockQueue, EvaluateQueue, BlockOnQueue, SpuriousWorker,
                  ComparePending, SignalCompletion, Pushed
    <2> QED
      BY <2>1, <2>3, <2>4, QuietStep
  <1> QED
    BY <1>1, TakeStep, RunStep, CountStep DEF WorkerStep

\* The strengthened invariant is inductive.
LEMMA InductiveStep == IInv /\ [Next]_vars => IInv'
  <1> SUFFICES ASSUME IInv, [Next]_vars PROVE IInv'
    OBVIOUS
  <1>1. TypeOK'
    BY TypeStep DEF IInv
  <1>2. CASE Terminated \/ UNCHANGED vars
    BY <1>1, <1>2, QuietStep DEF Terminated, vars, counters
  <1> QED
    BY <1>1, <1>2, MainInvStep, WorkerInvStep DEF Next

\* No session, no task, no worker past its first test: everything holds.
LEMMA InitIInv == Init => IInv
  <1> SUFFICES ASSUME Init PROVE IInv
    OBVIOUS
  <1>1. TypeOK
    BY DEF Init, TypeOK, MainPC, WorkerPC
  <1>2. Running = {} /\ ~Pushed /\ ~ParallelPhase
    BY DEF Init, Running, Pushed, ParallelPhase
  <1> QED
    BY <1>1, <1>2 DEF Init, IInv, BarrierHolds, BeforePush, Partition, OneWorkerPerSession, BatchAlive

------------------------------------------------------------------------------
\* The inductive invariant holds throughout.
LEMMA Inductive == Spec => []IInv
  BY InitIInv, InductiveStep, PTL DEF Spec

\* Every variable keeps its type.
THEOREM TypeCorrect == Spec => []TypeOK
  BY Inductive, PTL DEF IInv

\* The barrier of wait_for_completion: whenever the main thread is outside a
\* batch no task is queued and no worker is inside GameSession::update.
THEOREM BarrierSafe == Spec => []BarrierHolds
  BY Inductive, PTL DEF IInv

\* No two workers are ever inside the update of one GameSession.
THEOREM ExclusiveSessions == Spec => []OneWorkerPerSession
  BY Inductive, PTL DEF IInv

\* No worker, and no queued task, refers to a destroyed GameSession.
THEOREM NoDanglingSession == Spec => []NoUseAfterErase
  <1>1. IInv => NoUseAfterErase
    <2> SUFFICES ASSUME IInv PROVE NoUseAfterErase
      OBVIOUS
    <2>1. CASE Pushed
      <3>1. \A s \in tasks : sess[s] # "none"
        BY <2>1 DEF IInv, BatchAlive, Pushed, ParallelPhase
      <3>2. (\A w \in Running : job[w] \in tasks) /\ queue \subseteq tasks
        BY <2>1 DEF IInv, Partition, Running
      <3> QED
        BY <3>1, <3>2 DEF NoUseAfterErase
    <2>2. CASE ~Pushed
      <3>1. queue = {} /\ Running = {}
        BY <2>2 DEF IInv, TypeOK, MainPC, Pushed, BarrierHolds, Serial
      <3> QED
        BY <3>1 DEF NoUseAfterErase
    <2> QED
      BY <2>1, <2>2
  <1> QED
    BY <1>1, Inductive, PTL

------------------------------------------------------------------------------
\* Each step of the pool is a step of the abstract tick, or leaves it alone.
LEMMA RefinementStep == IInv /\ [Next]_vars => [Barrier!Next]_Barrier!vars
  <1> SUFFICES ASSUME IInv, [Next]_vars, UNCHANGED Barrier!vars => FALSE
               PROVE  Barrier!Next
    OBVIOUS
  <1> USE DEF IInv, TypeOK, mainVars, workerVars, counters, goto
  <1>1. ASSUME NEW s \in Sessions, CreateSession(s) \/ EndSession(s)
        PROVE  Barrier!Next
    <2>1. Barrier!Create(s) \/ Barrier!End(s)
      BY <1>1 DEF CreateSession, EndSession, Barrier!Create, Barrier!End, ParallelPhase
    <2> QED
      BY <2>1 DEF Barrier!Next
  <1>2. CASE CollectTasks
    <2>1. CASE Active = {}
      BY <1>2, <2>1 DEF CollectTasks, Barrier!vars, ParallelPhase
    <2>2. CASE Active # {}
      <3>1. Barrier!Begin
        BY <1>2, <2>2 DEF CollectTasks, Active, Barrier!Begin, ParallelPhase
      <3> QED
        BY <3>1 DEF Barrier!Next
    <2> QED
      BY <2>1, <2>2
  <1>3. CASE ResetCompleted \/ SetPending \/ PushTasks \/ NotifyBatch
    BY <1>3 DEF ResetCompleted, SetPending, PushTasks, NotifyBatch, Barrier!vars, ParallelPhase
  <1>4. CASE LockCompletion \/ BlockOnCompletion \/ SpuriousMain
    BY <1>4 DEF LockCompletion, BlockOnCompletion, SpuriousMain, Barrier!vars, ParallelPhase
  <1>5. CASE EvaluateCompletion
    <2>1. CASE mpc' = "block"
      BY <1>5, <2>1 DEF EvaluateCompletion, Barrier!vars, ParallelPhase
    <2>2. CASE mpc' = "cleanup" /\ completed = pending
      <3>1. updated = tasks
        BY <1>5, <2>2, EqualCountersMeanDone DEF EvaluateCompletion, Pushed
      <3>2. Barrier!Finish
        BY <1>5, <2>2, <3>1 DEF EvaluateCompletion, Barrier!Finish, ParallelPhase
      <3> QED
        BY <3>2 DEF Barrier!Next
    <2> QED
      BY <1>5, <2>1, <2>2 DEF EvaluateCompletion
  <1>6. CASE EraseInactive
    <2>1. Barrier!EraseEnded
      BY <1>6 DEF EraseInactive, Barrier!EraseEnded, ParallelPhase
    <2> QED
      BY <2>1 DEF Barrier!Next
  <1>7. CASE StoreShutdown \/ NotifyShutdown \/ JoinWorkers
    BY <1>7 DEF StoreShutdown, NotifyShutdown, JoinWorkers, Barrier!vars, ParallelPhase
  <1>8. ASSUME NEW w \in Workers, RunUpdate(w)
        PROVE  Barrier!Next
    <2>1. wpc[w] = "run" /\ updated' = updated \cup {job[w]} /\ UNCHANGED <<mpc, tasks>>
      BY <1>8 DEF RunUpdate
    <2>2. Pushed
      BY <2>1 DEF BarrierHolds, Running, Serial, Pushed, MainPC
    <2>3. ParallelPhase /\ ParallelPhase'
      BY <2>1, <2>2 DEF Pushed, ParallelPhase
    <2>4. job[w] \in Sessions /\ job[w] \in tasks \ updated
      BY <2>1, <2>2 DEF Partition
    <2>5. sess' \in {sess, [sess EXCEPT ![job[w]] = "inactive"]}
      BY <1>8 DEF RunUpdate
    <2>6. Barrier!Update(job[w])
      BY <2>1, <2>3, <2>4, <2>5 DEF Barrier!Update
    <2> QED
      BY <2>4, <2>6 DEF Barrier!Next
  <1>9. ASSUME NEW w \in Workers, WorkerStep(w), ~RunUpdate(w)
        PROVE  Barrier!Next
    <2>1. UNCHANGED <<tasks, sess, updated>> /\ (mpc' = mpc \/ (mpc = "asleep" /\ mpc' = "wait"))
      BY <1>9 DEF WorkerStep, TestShutdown, LockQueue, EvaluateQueue, BlockOnQueue,
                  SpuriousWorker, TakeTask, CountCompleted, ComparePending, SignalCompletion
    <2> QED
      BY <2>1 DEF Barrier!vars, ParallelPhase
  <1>10. CASE Terminated \/ UNCHANGED vars
    BY <1>10 DEF Terminated, vars, Barrier!vars, ParallelPhase
  <1> QED
    BY <1>1, <1>2, <1>3, <1>4, <1>5, <1>6, <1>7, <1>8, <1>9, <1>10 DEF Next, MainStep

\* The pool and its manager implement the tick barrier: every session active at
\* the start of a batch is updated exactly once before the main thread goes on.
THEOREM PoolImplementsBarrier == Spec => ImplementsBarrier
  <1>1. Init => Barrier!Init
    BY DEF Init, Barrier!Init, ParallelPhase
  <1> QED
    BY <1>1, Inductive, RefinementStep, PTL DEF Spec, Barrier!Spec, ImplementsBarrier

------------------------------------------------------------------------------
(* Induction over the natural numbers, for sets: the numbers at which a    *)
(* recursive function is what it should be.                                *)

\* A set with 0 and the successor of each of its numbers has them all.
LEMMA NatSets ==
    ASSUME NEW S, 0 \in S, \A n \in Nat : n \in S => n + 1 \in S
    PROVE  Nat \subseteq S
  <1> DEFINE T == Nat \ S
             R == OpToRel(<, Nat)
  <1>1. \A x, y \in Nat : <<x, y>> \in R <=> x < y
    BY DEF OpToRel
  <1> HIDE DEF R
  <1>2. IsWellFoundedOn(R, Nat)
    BY NatLessThanWellFounded DEF R
  <1>3. SUFFICES ASSUME T # {} PROVE FALSE
    OBVIOUS
  <1>4. PICK x \in T : \A y \in T : ~(<<y, x>> \in R)
    BY <1>2, <1>3, WFMin
  <1>5. x # 0 /\ x - 1 \in Nat /\ x - 1 < x
    OBVIOUS
  <1>6. x - 1 \notin T
    BY <1>1, <1>4, <1>5
  <1> QED
    BY <1>5, <1>6

\* The same up to m
LEMMA UpTo ==
    ASSUME NEW m \in Nat, NEW S, 0 \in S, \A n \in 0..m - 1 : n \in S => n + 1 \in S
    PROVE  \A n \in 0..m : n \in S
  <1> DEFINE T == S \cup {n \in Nat : n > m}
  <1>1. 0 \in T
    OBVIOUS
  <1>2. ASSUME NEW n \in Nat, n \in T PROVE n + 1 \in T
    <2>1. CASE n >= m
      BY <2>1
    <2>2. CASE n < m
      BY <1>2, <2>2
    <2> QED
      BY <2>1, <2>2
  <1>3. Nat \subseteq T
    BY <1>1, <1>2, NatSets
  <1> QED
    BY <1>3

------------------------------------------------------------------------------
(* The session in the middle of a handler *)

\* Cells with data, and lists of cells of their player that fit the limit
Sound(s) ==
    /\ s = [cell |-> s.cell, tracked |-> s.tracked, marked |-> s.marked, eaten |-> s.eaten]
    /\ IsFiniteSet(DOMAIN s.cell) /\ DOMAIN s.cell \subseteq CellIds
    /\ s.cell \in [DOMAIN s.cell -> CellData]
    /\ DOMAIN s.tracked \subseteq Players
    /\ s.tracked \in [DOMAIN s.tracked -> Seq(DOMAIN s.cell)]
    /\ \A p \in DOMAIN s.tracked :
          /\ IsInjective(s.tracked[p]) /\ Len(s.tracked[p]) <= MaxCells
          /\ \A c \in ToSet(s.tracked[p]) : c[1] = p

\* r is s with n new cells of p, which its list has
Grown(s, r, p, n) ==
    /\ Sound(r) /\ r.marked = s.marked /\ r.eaten = s.eaten
    /\ DOMAIN s.cell \subseteq DOMAIN r.cell
    /\ \A c \in DOMAIN r.cell \ DOMAIN s.cell : c[1] = p
    /\ DOMAIN r.tracked = DOMAIN s.tracked
    /\ \A q \in DOMAIN s.tracked \ {p} : r.tracked[q] = s.tracked[q]
    /\ ToSet(r.tracked[p]) = ToSet(s.tracked[p]) \cup (DOMAIN r.cell \ DOMAIN s.cell)
    /\ Len(r.tracked[p]) = Len(s.tracked[p]) + n

\* Growth adds up.
LEMMA GrownTwice ==
    ASSUME NEW s, NEW r, NEW u, NEW p \in DOMAIN s.tracked, NEW m \in Nat, NEW n \in Nat,
           Sound(s), Grown(s, r, p, m), Grown(r, u, p, n)
    PROVE  Grown(s, u, p, m + n)
  <1>1. Len(s.tracked[p]) \in Nat
    BY DEF Sound
  <1>2. ToSet(u.tracked[p]) = ToSet(s.tracked[p]) \cup (DOMAIN u.cell \ DOMAIN s.cell)
    BY DEF Grown
  <1>3. Len(u.tracked[p]) = Len(s.tracked[p]) + (m + n)
    <2>1. Len(r.tracked[p]) = Len(s.tracked[p]) + m
      BY DEF Grown
    <2>2. Len(u.tracked[p]) = Len(r.tracked[p]) + n
      BY DEF Grown
    <2> DEFINE i == Len(s.tracked[p])
               j == Len(r.tracked[p])
               k == Len(u.tracked[p])
    <2> HIDE DEF i, j, k
    <2>3. i \in Nat /\ j = i + m /\ k = j + n
      BY <1>1, <2>1, <2>2 DEF i, j, k
    <2>4. k = i + (m + n)
      BY <2>3
    <2> QED
      BY <2>4 DEF i, k
  <1> QED
    BY <1>2, <1>3 DEF Grown

\* The number of a new cell is not in use
LEMMA NewCellIsNew ==
    ASSUME NEW s, Sound(s), NEW p \in Players
    PROVE  /\ NewCell(s, p) \in CellIds /\ NewCell(s, p) \notin DOMAIN s.cell
           /\ NewCell(s, p)[1] = p
  <1> DEFINE C == DOMAIN s.cell
             n == Cardinality(C)
             D == {p} \X (1..n + 1)
  <1>1. IsFiniteSet(C) /\ n \in Nat
    BY FS_CardinalityType DEF Sound
  <1>2. \E k \in 1..n + 1 : <<p, k>> \notin C
    <2> DEFINE A == 1..n + 1
               f == [k \in A |-> <<p, k>>]
    <2>1. IsFiniteSet(A) /\ Cardinality(A) = n + 1
      BY <1>1, FS_Interval
    <2>2. Cardinality(C) < Cardinality(A)
      BY <1>1, <2>1
    <2>3. \A x, y \in A : f[x] = f[y] => x = y
      OBVIOUS
    <2>4. f \notin [A -> C]
      <3> HIDE DEF A, C, f, n
      <3> QED
        BY <1>1, <2>1, <2>2, <2>3, FS_PigeonHole
    <2> QED
      BY <2>4
  <1> DEFINE k == CHOOSE i \in 1..n + 1 : <<p, i>> \notin C
  <1>3. k \in 1..n + 1 /\ <<p, k>> \notin C
    BY <1>2
  <1>4. NewCell(s, p) = <<p, k>>
    BY DEF NewCell
  <1> HIDE DEF k
  <1> QED
    BY <1>1, <1>3, <1>4 DEF CellIds

\* What a new cell changes, of a player with or without a list
LEMMA SpawnPuts ==
    ASSUME NEW s, Sound(s), NEW p \in Players, NEW data \in CellData,
           p \in DOMAIN s.tracked => Len(s.tracked[p]) < MaxCells
    PROVE  LET r   == SpawnPlayerCell(s, p, data)
               new == NewCell(s, p)
               old == IF p \in DOMAIN s.tracked THEN s.tracked[p] ELSE <<>>
           IN  /\ Sound(r) /\ r.marked = s.marked /\ r.eaten = s.eaten
               /\ DOMAIN r.cell = DOMAIN s.cell \cup {new}
               /\ DOMAIN r.tracked = DOMAIN s.tracked \cup {p}
               /\ \A q \in DOMAIN s.tracked \ {p} : r.tracked[q] = s.tracked[q]
               /\ r.tracked[p] = Append(old, new)
               /\ ToSet(r.tracked[p]) = ToSet(old) \cup {new}
               /\ Len(r.tracked[p]) = Len(old) + 1
  <1> DEFINE r == SpawnPlayerCell(s, p, data)
             new == NewCell(s, p)
             old == IF p \in DOMAIN s.tracked THEN s.tracked[p] ELSE <<>>
             C == DOMAIN s.cell \cup {new}
  <1>1. new \in CellIds /\ new[1] = p /\ new \notin DOMAIN s.cell
    BY NewCellIsNew
  <1>2. r = [cell |-> Put(s.cell, new, data), tracked |-> Put(s.tracked, p, Append(old, new)),
             marked |-> s.marked, eaten |-> s.eaten]
    BY DEF SpawnPlayerCell, Session
  <1> HIDE DEF r, new
  <1>3. /\ DOMAIN r.cell = C /\ IsFiniteSet(C) /\ C \subseteq CellIds
        /\ r.cell \in [C -> CellData]
    <2>1. IsFiniteSet(C)
      BY FS_AddElement DEF Sound
    <2> QED
      BY <1>1, <1>2, <2>1 DEF Put, Sound
  <1>4. /\ old \in Seq(DOMAIN s.cell) /\ IsInjective(old)
        /\ Len(old) < MaxCells /\ Len(old) \in Nat
        /\ \A c \in ToSet(old) : c[1] = p
    <2>1. CASE p \in DOMAIN s.tracked
      BY <2>1 DEF Sound
    <2>2. CASE p \notin DOMAIN s.tracked
      BY <2>2, RoomForAll DEF IsInjective, ToSet
    <2> QED
      BY <2>1, <2>2
  <1> HIDE DEF old
  <1> DEFINE q == Append(old, new)
  <1>5. /\ q \in Seq(C) /\ Len(q) = Len(old) + 1 /\ DOMAIN q = 1..Len(old) + 1
        /\ DOMAIN old = 1..Len(old)
        /\ \A i \in 1..Len(old) : q[i] = old[i] /\ old[i] \in DOMAIN s.cell
        /\ q[Len(old) + 1] = new
    BY <1>4
  <1>6. ToSet(q) = ToSet(old) \cup {new}
    BY <1>4, <1>5 DEF ToSet
  <1>7. IsInjective(q)
    BY <1>1, <1>4, <1>5 DEF IsInjective
  <1>8. Len(q) <= MaxCells /\ \A c \in ToSet(q) : c[1] = p
    BY <1>1, <1>4, <1>5, <1>6, RoomForAll
  <1> HIDE DEF q
  <1>9. /\ DOMAIN r.tracked = DOMAIN s.tracked \cup {p} /\ r.tracked[p] = q
        /\ \A x \in DOMAIN s.tracked \ {p} : r.tracked[x] = s.tracked[x]
        /\ r.tracked \in [DOMAIN r.tracked -> Seq(C)]
    <2>1. r.tracked = Put(s.tracked, p, q)
      BY <1>2 DEF q
    <2>2. \A x \in DOMAIN s.tracked : s.tracked[x] \in Seq(C)
      BY DEF Sound
    <2> QED
      BY <1>5, <2>1, <2>2 DEF Put
  <1>10. Sound(r)
    <2>1. \A x \in DOMAIN r.tracked :
             /\ IsInjective(r.tracked[x]) /\ Len(r.tracked[x]) <= MaxCells
             /\ \A c \in ToSet(r.tracked[x]) : c[1] = x
      BY <1>7, <1>8, <1>9 DEF Sound
    <2>2. r = [cell |-> r.cell, tracked |-> r.tracked, marked |-> r.marked, eaten |-> r.eaten]
      BY <1>2
    <2>3. DOMAIN r.tracked \subseteq Players
      BY <1>9 DEF Sound
    <2> QED
      BY <1>3, <1>9, <2>1, <2>2, <2>3 DEF Sound
  <1>11. r.marked = s.marked /\ r.eaten = s.eaten
    BY <1>2
  <1> QED
    BY <1>3, <1>5, <1>6, <1>9, <1>10, <1>11 DEF r, new, old, q

\* A session is itself with no new cell.
LEMMA GrownByNone ==
    ASSUME NEW s, Sound(s), NEW p \in DOMAIN s.tracked
    PROVE  Grown(s, s, p, 0)
  <1>1. Len(s.tracked[p]) \in Nat
    BY DEF Sound
  <1> QED
    BY <1>1 DEF Grown

\* One cell more for a player with a list
LEMMA SpawnGrows ==
    ASSUME NEW s, Sound(s), NEW p \in DOMAIN s.tracked, NEW data \in CellData,
           Len(s.tracked[p]) < MaxCells
    PROVE  Grown(s, SpawnPlayerCell(s, p, data), p, 1)
  <1> DEFINE r == SpawnPlayerCell(s, p, data)
             new == NewCell(s, p)
  <1>1. p \in Players
    BY DEF Sound
  <1>2. /\ Sound(r) /\ r.marked = s.marked /\ r.eaten = s.eaten
        /\ DOMAIN r.cell = DOMAIN s.cell \cup {new}
        /\ DOMAIN r.tracked = DOMAIN s.tracked
        /\ \A q \in DOMAIN s.tracked \ {p} : r.tracked[q] = s.tracked[q]
        /\ ToSet(r.tracked[p]) = ToSet(s.tracked[p]) \cup {new}
        /\ Len(r.tracked[p]) = Len(s.tracked[p]) + 1
    <2>1. p \in DOMAIN s.tracked => Len(s.tracked[p]) < MaxCells
      OBVIOUS
    <2>2. LET old == IF p \in DOMAIN s.tracked THEN s.tracked[p] ELSE <<>>
          IN  /\ Sound(r) /\ r.marked = s.marked /\ r.eaten = s.eaten
              /\ DOMAIN r.cell = DOMAIN s.cell \cup {new}
              /\ DOMAIN r.tracked = DOMAIN s.tracked \cup {p}
              /\ \A q \in DOMAIN s.tracked \ {p} : r.tracked[q] = s.tracked[q]
              /\ ToSet(r.tracked[p]) = ToSet(old) \cup {new}
              /\ Len(r.tracked[p]) = Len(old) + 1
      BY <1>1, <2>1, SpawnPuts
    <2> QED
      BY <2>2
  <1>3. new[1] = p /\ new \notin DOMAIN s.cell
    BY <1>1, NewCellIsNew
  <1> HIDE DEF r, new
  <1>4. DOMAIN r.cell \ DOMAIN s.cell = {new}
    BY <1>2, <1>3
  <1> QED
    BY <1>2, <1>3, <1>4 DEF Grown, r

\* h is what Spawned computes, cell by cell
Spawning(s, p, data, n, h) ==
    /\ h[0] = s /\ h[n] = Spawned(s, p, data, n)
    /\ \A i \in 0..n - 1 : h[i + 1] = SpawnPlayerCell(h[i], p, data)

\* There is such an h.
LEMMA SpawnedIs ==
    ASSUME NEW s, NEW p, NEW data, NEW n \in Nat
    PROVE  \E h : Spawning(s, p, data, n, h)
  <1> DEFINE G(m, f) == f = [i \in 0..m |->
                 IF i = 0 THEN s ELSE SpawnPlayerCell(f[i - 1], p, data)]
             S == {m \in Nat : \E f : G(m, f)}
  <1>1. 0 \in S
    <2>1. G(0, [i \in 0..0 |-> s])
      OBVIOUS
    <2> QED
      BY <2>1
  <1>2. \A m \in Nat : m \in S => m + 1 \in S
    <2> SUFFICES ASSUME NEW m \in Nat, m \in S PROVE \E f : G(m + 1, f)
      OBVIOUS
    <2>1. PICK f : G(m, f)
      OBVIOUS
    <2> DEFINE g == [i \in 0..m + 1 |->
                        IF i = m + 1 THEN SpawnPlayerCell(f[m], p, data) ELSE f[i]]
    <2>2. \A i \in 0..m : f[i] = IF i = 0 THEN s ELSE SpawnPlayerCell(f[i - 1], p, data)
      BY <2>1
    <2>3. G(m + 1, g)
      BY <2>2
    <2> QED
      BY <2>3
  <1>3. n \in S
    <2> HIDE DEF S
    <2> QED
      BY <1>1, <1>2, NatSets
  <1> DEFINE h == CHOOSE f : G(n, f)
  <1>4. G(n, h)
    BY <1>3
  <1>5. Spawned(s, p, data, n) = h[n]
    BY DEF Spawned
  <1> HIDE DEF h
  <1>6. \A i \in 0..n : h[i] = IF i = 0 THEN s ELSE SpawnPlayerCell(h[i - 1], p, data)
    BY <1>4
  <1>7. \A i \in 0..n - 1 : h[i + 1] = SpawnPlayerCell(h[i], p, data)
    BY <1>6
  <1>8. Spawning(s, p, data, n, h)
    BY <1>5, <1>6, <1>7 DEF Spawning
  <1> QED
    BY <1>8

\* n cells more, while the limit allows
LEMMA SpawnedGrows ==
    ASSUME NEW s, Sound(s), NEW p \in DOMAIN s.tracked, NEW data \in CellData, NEW n \in Nat,
           Len(s.tracked[p]) + n <= MaxCells
    PROVE  Grown(s, Spawned(s, p, data, n), p, n)
  <1>1. PICK h : /\ h[0] = s /\ h[n] = Spawned(s, p, data, n)
                 /\ \A i \in 0..n - 1 : h[i + 1] = SpawnPlayerCell(h[i], p, data)
    <2>1. \E h : Spawning(s, p, data, n, h)
      BY SpawnedIs
    <2> QED
      BY <2>1 DEF Spawning
  <1> DEFINE T == {i \in 0..n : Grown(s, h[i], p, i)}
  <1>2. 0 \in T
    BY <1>1, GrownByNone
  <1>3. \A i \in 0..n - 1 : i \in T => i + 1 \in T
    <2> SUFFICES ASSUME NEW i \in 0..n - 1, Grown(s, h[i], p, i)
                 PROVE  Grown(s, h[i + 1], p, i + 1)
      OBVIOUS
    <2> DEFINE r == h[i]
    <2>1. Sound(r) /\ p \in DOMAIN r.tracked /\ Len(r.tracked[p]) = Len(s.tracked[p]) + i
      BY DEF Grown
    <2>2. Len(s.tracked[p]) \in Nat
      BY DEF Sound
    <2>3. Len(r.tracked[p]) < MaxCells
      <3> DEFINE a == Len(r.tracked[p])
                 b == Len(s.tracked[p])
      <3>1. a = b + i /\ b \in Nat /\ b + n <= MaxCells
        BY <2>1, <2>2
      <3> HIDE DEF a, b
      <3>2. a < MaxCells
        BY <3>1, RoomForAll
      <3> QED
        BY <3>2 DEF a
    <2>4. h[i + 1] = SpawnPlayerCell(r, p, data)
      BY <1>1
    <2> HIDE DEF r
    <2>5. Grown(r, h[i + 1], p, 1)
      BY <2>1, <2>3, <2>4, SpawnGrows
    <2>6. Grown(s, r, p, i)
      BY DEF r
    <2> QED
      BY <2>5, <2>6, GrownTwice
  <1>4. \A i \in 0..n : i \in T
    <2> HIDE DEF T
    <2> QED
      BY <1>2, <1>3, UpTo
  <1>5. n \in T
    BY <1>4
  <1> QED
    BY <1>1, <1>5

\* A share of a mass is a mass, and not more.
LEMMA Shares ==
    ASSUME NEW m \in Nat \ {0}, NEW k \in Nat \ {0}
    PROVE  CeilDiv(m, k) \in 1..m
  <1> DEFINE q == (m + k - 1) \div k
  <1>1. q \in Int
    OBVIOUS
  <1>2. k * q <= m + k - 1 /\ m + k - 1 < k * q + k
    OBVIOUS
  <1> HIDE DEF q
  <1>3. q >= 1
    <2> SUFFICES ASSUME q <= 0 PROVE FALSE
      BY <1>1
    <2>1. k * q <= 0
      BY <1>1
    <2> QED
      BY <1>1, <1>2, <2>1
  <1>4. q <= m
    <2> SUFFICES ASSUME q >= m + 1 PROVE FALSE
      BY <1>1
    <2>1. k * q >= k * (m + 1)
      BY <1>1
    <2>2. k * (m + 1) = k * m + k /\ k * m >= m
      OBVIOUS
    <2> QED
      BY <1>1, <1>2, <2>1, <2>2
  <1> QED
    BY <1>1, <1>3, <1>4 DEF CeilDiv, q

\* A cell that divides keeps its place in the list.
LEMMA DivideGrows ==
    ASSUME NEW s, Sound(s), NEW c \in DOMAIN s.cell, c[1] \in DOMAIN s.tracked, NEW n \in Nat,
           Len(s.tracked[c[1]]) + n <= MaxCells
    PROVE  Grown(s, Divide(s, c, n), c[1], n)
  <1> DEFINE p == c[1]
             data == [mass |-> CeilDiv(s.cell[c].mass, n + 1), ready |-> FALSE]
             r == Session(Put(s.cell, c, data), s.tracked, s.marked, s.eaten)
  <1>1. data \in CellData
    <2> DEFINE m == s.cell[c].mass
    <2>1. m \in 1..MaxMass
      BY DEF Sound, CellData
    <2> HIDE DEF m
    <2>2. CeilDiv(m, n + 1) \in 1..m
      <3>1. m \in Nat \ {0} /\ n + 1 \in Nat \ {0}
        BY <2>1, MassesLast
      <3> QED
        BY <3>1, Shares
    <2>3. CeilDiv(m, n + 1) \in 1..MaxMass
      BY <2>1, <2>2, MassesLast
    <2> QED
      BY <2>3 DEF CellData, m
  <1>2. Divide(s, c, n) = Spawned(r, p, data, n)
    BY DEF Divide
  <1>3. /\ r = [cell |-> r.cell, tracked |-> r.tracked, marked |-> r.marked, eaten |-> r.eaten]
        /\ r.tracked = s.tracked /\ r.marked = s.marked /\ r.eaten = s.eaten
        /\ r.cell = Put(s.cell, c, data)
    BY DEF Session
  <1>4. DOMAIN r.cell = DOMAIN s.cell /\ r.cell \in [DOMAIN s.cell -> CellData]
    <2> HIDE DEF r, data
    <2>1. DOMAIN s.cell \cup {c} = DOMAIN s.cell /\ s.cell \in [DOMAIN s.cell -> CellData]
      BY DEF Sound
    <2>2. r.cell = [y \in DOMAIN s.cell |-> IF y = c THEN data ELSE s.cell[y]]
      BY <1>3, <2>1 DEF Put
    <2> QED
      BY <1>1, <2>1, <2>2
  <1> HIDE DEF r, data
  <1>5. Sound(r)
    BY <1>3, <1>4 DEF Sound
  <1>6. Grown(s, r, p, 0)
    <2>1. Len(s.tracked[p]) \in Nat
      BY DEF Sound
    <2> QED
      BY <1>3, <1>4, <1>5, <2>1 DEF Grown
  <1>7. Grown(r, Spawned(r, p, data, n), p, n)
    BY <1>1, <1>3, <1>5, SpawnedGrows
  <1>8. Grown(s, Spawned(r, p, data, n), p, 0 + n)
    BY <1>6, <1>7, GrownTwice
  <1> QED
    BY <1>2, <1>8

\* h is what SplitAll computes, cell by cell
Splitting(s, cells, h) ==
    /\ h[0] = s /\ h[Len(cells)] = SplitAll(s, cells)
    /\ \A i \in 0..Len(cells) - 1 : h[i + 1] = Divide(h[i], cells[i + 1], 1)

\* There is such an h.
LEMMA SplitAllIs ==
    ASSUME NEW s, NEW cells, Len(cells) \in Nat
    PROVE  \E h : Splitting(s, cells, h)
  <1> DEFINE G(k, f) == f = [i \in 0..k |-> IF i = 0 THEN s ELSE Divide(f[i - 1], cells[i], 1)]
             S == {k \in Nat : \E f : G(k, f)}
  <1>1. 0 \in S
    <2>1. G(0, [i \in 0..0 |-> s])
      OBVIOUS
    <2> QED
      BY <2>1
  <1>2. \A k \in Nat : k \in S => k + 1 \in S
    <2> SUFFICES ASSUME NEW k \in Nat, k \in S PROVE \E f : G(k + 1, f)
      <3> HIDE DEF G
      <3> QED
        OBVIOUS
    <2>1. PICK f : G(k, f)
      OBVIOUS
    <2> DEFINE g == [i \in 0..k + 1 |-> IF i = k + 1 THEN Divide(f[k], cells[k + 1], 1) ELSE f[i]]
    <2>2. \A i \in 0..k : f[i] = IF i = 0 THEN s ELSE Divide(f[i - 1], cells[i], 1)
      BY <2>1
    <2>3. G(k + 1, g)
      BY <2>2
    <2> QED
      BY <2>3
  <1>3. Len(cells) \in S
    <2> HIDE DEF S
    <2> QED
      BY <1>1, <1>2, NatSets
  <1> DEFINE h == CHOOSE f : G(Len(cells), f)
  <1>4. G(Len(cells), h)
    BY <1>3
  <1>5. SplitAll(s, cells) = h[Len(cells)]
    BY DEF SplitAll
  <1> HIDE DEF h
  <1>6. \A i \in 0..Len(cells) : h[i] = IF i = 0 THEN s ELSE Divide(h[i - 1], cells[i], 1)
    BY <1>4
  <1>7. \A i \in 0..Len(cells) - 1 : h[i + 1] = Divide(h[i], cells[i + 1], 1)
    BY <1>6
  <1>8. Splitting(s, cells, h)
    BY <1>5, <1>6, <1>7 DEF Splitting
  <1> QED
    BY <1>8

\* Each cell that player_split divides adds one.
LEMMA SplitAllGrows ==
    ASSUME NEW s, Sound(s), NEW p \in DOMAIN s.tracked, NEW cells \in Seq(Of(DOMAIN s.cell, p)),
           Len(s.tracked[p]) + Len(cells) <= MaxCells
    PROVE  Grown(s, SplitAll(s, cells), p, Len(cells))
  <1> DEFINE n == Len(cells)
  <1>1. n \in Nat
    OBVIOUS
  <1>2. PICK h : /\ h[0] = s /\ h[n] = SplitAll(s, cells)
                 /\ \A i \in 0..n - 1 : h[i + 1] = Divide(h[i], cells[i + 1], 1)
    <2>1. \E h : Splitting(s, cells, h)
      BY <1>1, SplitAllIs
    <2> QED
      BY <2>1 DEF Splitting
  <1>3. \A i \in 0..n - 1 : cells[i + 1] \in DOMAIN s.cell /\ cells[i + 1][1] = p
    BY DEF Of
  <1> HIDE DEF n
  <1> DEFINE T == {i \in 0..n : Grown(s, h[i], p, i)}
  <1>4. 0 \in T
    BY <1>1, <1>2, GrownByNone
  <1>5. \A i \in 0..n - 1 : i \in T => i + 1 \in T
    <2> SUFFICES ASSUME NEW i \in 0..n - 1, Grown(s, h[i], p, i)
                 PROVE  Grown(s, h[i + 1], p, i + 1)
      BY <1>1
    <2> DEFINE r == h[i]
               c == cells[i + 1]
    <2>1. /\ Sound(r) /\ p \in DOMAIN r.tracked /\ DOMAIN s.cell \subseteq DOMAIN r.cell
          /\ Len(r.tracked[p]) = Len(s.tracked[p]) + i
      BY DEF Grown
    <2>2. Len(r.tracked[p]) + 1 <= MaxCells
      <3> DEFINE a == Len(r.tracked[p])
                 b == Len(s.tracked[p])
      <3>1. a = b + i /\ b \in Nat /\ b + n <= MaxCells
        BY <2>1 DEF Sound, n
      <3> HIDE DEF a, b
      <3>2. a + 1 <= MaxCells
        BY <1>1, <3>1, RoomForAll
      <3> QED
        BY <3>2 DEF a
    <2>3. c \in DOMAIN r.cell /\ c[1] = p
      BY <1>3, <2>1
    <2>4. h[i + 1] = Divide(r, c, 1)
      BY <1>2
    <2>5. Grown(s, r, p, i)
      OBVIOUS
    <2> HIDE DEF r, c
    <2>6. Grown(r, h[i + 1], p, 1)
      BY <2>1, <2>2, <2>3, <2>4, DivideGrows
    <2> QED
      BY <1>1, <2>5, <2>6, GrownTwice
  <1>6. \A i \in 0..n : i \in T
    <2> HIDE DEF T
    <2> QED
      BY <1>1, <1>4, <1>5, UpTo
  <1>7. n \in T
    BY <1>1, <1>6
  <1> QED
    BY <1>2, <1>7 DEF n

\* h is what CellsToSplit computes, cell by cell
Choosing(p, h) ==
    /\ h[0] = <<>> /\ h[Len(tracked[p])] = CellsToSplit(p)
    /\ \A i \in 0..Len(tracked[p]) - 1 : h[i + 1] = Choose(p, h[i], tracked[p][i + 1])

\* There is such an h.
LEMMA CellsToSplitIs ==
    ASSUME NEW p, Len(tracked[p]) \in Nat
    PROVE  \E h : Choosing(p, h)
  <1> DEFINE G(k, f) == f = [i \in 0..k |->
                 IF i = 0 THEN <<>> ELSE Choose(p, f[i - 1], tracked[p][i])]
             S == {k \in Nat : \E f : G(k, f)}
  <1>1. 0 \in S
    <2>1. G(0, [i \in 0..0 |-> <<>>])
      OBVIOUS
    <2> QED
      BY <2>1
  <1>2. \A k \in Nat : k \in S => k + 1 \in S
    <2> SUFFICES ASSUME NEW k \in Nat, k \in S PROVE \E f : G(k + 1, f)
      <3> HIDE DEF G
      <3> QED
        OBVIOUS
    <2>1. PICK f : G(k, f)
      OBVIOUS
    <2> DEFINE g == [i \in 0..k + 1 |->
                        IF i = k + 1 THEN Choose(p, f[k], tracked[p][k + 1]) ELSE f[i]]
    <2>2. \A i \in 0..k : f[i] = IF i = 0 THEN <<>> ELSE Choose(p, f[i - 1], tracked[p][i])
      BY <2>1
    <2>3. G(k + 1, g)
      BY <2>2
    <2> QED
      BY <2>3
  <1>3. Len(tracked[p]) \in S
    <2> HIDE DEF S
    <2> QED
      BY <1>1, <1>2, NatSets
  <1> DEFINE h == CHOOSE f : G(Len(tracked[p]), f)
  <1>4. G(Len(tracked[p]), h)
    BY <1>3
  <1>5. CellsToSplit(p) = h[Len(tracked[p])]
    BY DEF CellsToSplit
  <1> HIDE DEF h
  <1>6. \A i \in 0..Len(tracked[p]) : h[i] = IF i = 0 THEN <<>> ELSE Choose(p, h[i - 1], tracked[p][i])
    BY <1>4
  <1>7. \A i \in 0..Len(tracked[p]) - 1 : h[i + 1] = Choose(p, h[i], tracked[p][i + 1])
    BY <1>6
  <1>8. Choosing(p, h)
    BY <1>5, <1>6, <1>7 DEF Choosing
  <1> QED
    BY <1>8

\* player_split chooses cells of the player, and no more than fit the limit.
LEMMA ChosenFit ==
    ASSUME Sound(Now), NEW p \in DOMAIN tracked
    PROVE  /\ CellsToSplit(p) \in Seq(Of(DOMAIN cell, p))
           /\ Len(tracked[p]) + Len(CellsToSplit(p)) <= MaxCells
  <1> DEFINE q == tracked[p]
             m == Len(q)
             C == Of(DOMAIN cell, p)
             Fits(x) == x \in Seq(C) /\ Len(q) + Len(x) <= MaxCells
  <1>1. /\ q \in Seq(DOMAIN cell) /\ m \in Nat /\ m <= MaxCells
        /\ \A c \in ToSet(q) : c[1] = p
    BY DEF Sound, Now, Session
  <1>2. \A i \in 1..m : q[i] \in C
    BY <1>1 DEF ToSet, Of
  <1>3. PICK h : /\ h[0] = <<>> /\ h[m] = CellsToSplit(p)
                 /\ \A i \in 0..m - 1 : h[i + 1] = Choose(p, h[i], q[i + 1])
    <2>1. \E h : Choosing(p, h)
      BY <1>1, CellsToSplitIs
    <2> QED
      BY <2>1 DEF Choosing
  <1> HIDE DEF C
  <1> DEFINE T == {i \in 0..m : Fits(h[i])}
  <1>4. 0 \in T
    <2>1. Fits(<<>>)
      BY <1>1, RoomForAll
    <2> HIDE DEF Fits, m
    <2> QED
      BY <1>1, <1>3, <2>1
  <1>5. \A i \in 0..m - 1 : i \in T => i + 1 \in T
    <2> SUFFICES ASSUME NEW i \in 0..m - 1, Fits(h[i]) PROVE Fits(h[i + 1])
      <3> HIDE DEF Fits, m
      <3> QED
        BY <1>1
    <2> DEFINE x == h[i]
               c == q[i + 1]
    <2>1. c \in C
      BY <1>1, <1>2
    <2>2. CASE h[i + 1] = x
      BY <2>2
    <2>3. CASE h[i + 1] = Append(x, c) /\ Len(q) + Len(x) < MaxCells
      <3>1. x \in Seq(C)
        OBVIOUS
      <3> HIDE DEF x, c
      <3>2. Append(x, c) \in Seq(C) /\ Len(Append(x, c)) = Len(x) + 1 /\ Len(x) \in Nat
        BY <2>1, <3>1
      <3> QED
        BY <1>1, <2>3, <3>2, RoomForAll
    <2> QED
      BY <1>3, <2>2, <2>3 DEF Choose
  <1>6. \A i \in 0..m : i \in T
    <2> HIDE DEF T, m
    <2> QED
      BY <1>1, <1>4, <1>5, UpTo
  <1>7. m \in T
    BY <1>1, <1>6
  <1> QED
    BY <1>3, <1>7 DEF C

\* h is what Erase computes, cell by cell
Erasing(list, c, h) ==
    /\ h[0] = <<>> /\ h[Len(list)] = Erase(list, c)
    /\ \A i \in 0..Len(list) - 1 : h[i + 1] = Keep(h[i], list[i + 1], c)

\* There is such an h.
LEMMA EraseStep ==
    ASSUME NEW list, NEW c, Len(list) \in Nat
    PROVE  \E h : Erasing(list, c, h)
  <1> DEFINE G(k, f) == f = [i \in 0..k |->
                 IF i = 0 THEN <<>> ELSE Keep(f[i - 1], list[i], c)]
             S == {k \in Nat : \E f : G(k, f)}
  <1>1. 0 \in S
    <2>1. G(0, [i \in 0..0 |-> <<>>])
      OBVIOUS
    <2> QED
      BY <2>1
  <1>2. \A k \in Nat : k \in S => k + 1 \in S
    <2> SUFFICES ASSUME NEW k \in Nat, k \in S PROVE \E f : G(k + 1, f)
      <3> HIDE DEF G
      <3> QED
        OBVIOUS
    <2>1. PICK f : G(k, f)
      OBVIOUS
    <2> DEFINE g == [i \in 0..k + 1 |->
                        IF i = k + 1 THEN Keep(f[k], list[k + 1], c) ELSE f[i]]
    <2>2. \A i \in 0..k : f[i] = IF i = 0 THEN <<>> ELSE Keep(f[i - 1], list[i], c)
      BY <2>1
    <2>3. G(k + 1, g)
      BY <2>2
    <2> QED
      BY <2>3
  <1>3. Len(list) \in S
    <2> HIDE DEF S
    <2> QED
      BY <1>1, <1>2, NatSets
  <1> DEFINE h == CHOOSE f : G(Len(list), f)
  <1>4. G(Len(list), h)
    BY <1>3
  <1>5. Erase(list, c) = h[Len(list)]
    BY DEF Erase
  <1> HIDE DEF h
  <1>6. \A i \in 0..Len(list) : h[i] = IF i = 0 THEN <<>> ELSE Keep(h[i - 1], list[i], c)
    BY <1>4
  <1>7. \A i \in 0..Len(list) - 1 : h[i + 1] = Keep(h[i], list[i + 1], c)
    BY <1>6
  <1>8. Erasing(list, c, h)
    BY <1>5, <1>6, <1>7 DEF Erasing
  <1> QED
    BY <1>8

\* h is what HandleEvents computes, event by event
Telling(s, events, h) ==
    /\ h[0] = s /\ h[Len(events)] = HandleEvents(s, events)
    /\ \A i \in 0..Len(events) - 1 : h[i + 1] = HandleEvent(h[i], events[i + 1])

\* There is such an h.
LEMMA HandleEventsIs ==
    ASSUME NEW s, NEW events, Len(events) \in Nat
    PROVE  \E h : Telling(s, events, h)
  <1> DEFINE G(k, f) == f = [i \in 0..k |-> IF i = 0 THEN s ELSE HandleEvent(f[i - 1], events[i])]
             S == {k \in Nat : \E f : G(k, f)}
  <1>1. 0 \in S
    <2>1. G(0, [i \in 0..0 |-> s])
      OBVIOUS
    <2> QED
      BY <2>1
  <1>2. \A k \in Nat : k \in S => k + 1 \in S
    <2> SUFFICES ASSUME NEW k \in Nat, k \in S PROVE \E f : G(k + 1, f)
      <3> HIDE DEF G
      <3> QED
        OBVIOUS
    <2>1. PICK f : G(k, f)
      OBVIOUS
    <2> DEFINE g == [i \in 0..k + 1 |->
                        IF i = k + 1 THEN HandleEvent(f[k], events[k + 1]) ELSE f[i]]
    <2>2. \A i \in 0..k : f[i] = IF i = 0 THEN s ELSE HandleEvent(f[i - 1], events[i])
      BY <2>1
    <2>3. G(k + 1, g)
      BY <2>2
    <2> QED
      BY <2>3
  <1>3. Len(events) \in S
    <2> HIDE DEF S
    <2> QED
      BY <1>1, <1>2, NatSets
  <1> DEFINE h == CHOOSE f : G(Len(events), f)
  <1>4. G(Len(events), h)
    BY <1>3
  <1>5. HandleEvents(s, events) = h[Len(events)]
    BY DEF HandleEvents
  <1> HIDE DEF h
  <1>6. \A i \in 0..Len(events) : h[i] = IF i = 0 THEN s ELSE HandleEvent(h[i - 1], events[i])
    BY <1>4
  <1>7. \A i \in 0..Len(events) - 1 : h[i + 1] = HandleEvent(h[i], events[i + 1])
    BY <1>6
  <1>8. Telling(s, events, h)
    BY <1>5, <1>6, <1>7 DEF Telling
  <1> QED
    BY <1>8

\* Only the empty list lists nobody.
LEMMA ListsNobody ==
    ASSUME NEW S, NEW q \in Seq(S)
    PROVE  ToSet(q) = {} <=> q = <<>>
  <1>1. DOMAIN q = 1..Len(q) /\ Len(q) \in Nat
    OBVIOUS
  <1>2. ToSet(<<>>) = {}
    BY DEF ToSet
  <1>3. ASSUME q # <<>> PROVE q[1] \in ToSet(q)
    BY <1>1, <1>3 DEF ToSet
  <1> QED
    BY <1>2, <1>3

\* What a longer sequence has
LEMMA AppendSet ==
    ASSUME NEW S, NEW x \in Seq(S), NEW d \in S
    PROVE  Append(x, d) \in Seq(S) /\ ToSet(Append(x, d)) = ToSet(x) \cup {d}
  <1> DEFINE y == Append(x, d)
             n == Len(x)
  <1>1. /\ n \in Nat /\ DOMAIN x = 1..n /\ y \in Seq(S)
        /\ DOMAIN y = 1..n + 1 /\ y[n + 1] = d /\ \A i \in 1..n : y[i] = x[i]
    OBVIOUS
  <1> HIDE DEF y, n
  <1>2. ToSet(y) = ToSet(x) \cup {d}
    BY <1>1 DEF ToSet
  <1> QED
    BY <1>1, <1>2 DEF y, n

\* A list of different cells stays one with another cell.
LEMMA AppendIs ==
    ASSUME NEW S, NEW x \in Seq(S), NEW d \in S, IsInjective(x), d \notin ToSet(x)
    PROVE  /\ Append(x, d) \in Seq(S) /\ IsInjective(Append(x, d))
           /\ ToSet(Append(x, d)) = ToSet(x) \cup {d} /\ Len(Append(x, d)) = Len(x) + 1
  <1> DEFINE y == Append(x, d)
             n == Len(x)
  <1>1. y \in Seq(S) /\ ToSet(y) = ToSet(x) \cup {d}
    BY AppendSet
  <1>2. /\ n \in Nat /\ DOMAIN x = 1..n /\ Len(y) = n + 1
        /\ DOMAIN y = 1..n + 1 /\ y[n + 1] = d /\ \A i \in 1..n : y[i] = x[i]
    OBVIOUS
  <1> HIDE DEF y, n
  <1>3. IsInjective(y)
    BY <1>2 DEF IsInjective, ToSet
  <1> QED
    BY <1>1, <1>2, <1>3 DEF y, n

\* A cell is taken from a list that has every cell once.
LEMMA EraseIs ==
    ASSUME NEW S, NEW q \in Seq(S), IsInjective(q), NEW c
    PROVE  /\ Erase(q, c) \in Seq(S) /\ IsInjective(Erase(q, c))
           /\ ToSet(Erase(q, c)) = ToSet(q) \ {c} /\ Len(Erase(q, c)) <= Len(q)
  <1> DEFINE m == Len(q)
             Kept(i, x) == /\ x \in Seq(S) /\ IsInjective(x) /\ Len(x) <= i
                           /\ ToSet(x) = {q[j] : j \in 1..i} \ {c}
  <1>1. m \in Nat /\ DOMAIN q = 1..m /\ \A i \in 1..m : q[i] \in S
    OBVIOUS
  <1>2. PICK h : /\ h[0] = <<>> /\ h[m] = Erase(q, c)
                 /\ \A i \in 0..m - 1 : h[i + 1] = Keep(h[i], q[i + 1], c)
    <2>1. \E h : Erasing(q, c, h)
      BY <1>1, EraseStep
    <2> QED
      BY <2>1 DEF Erasing
  <1> HIDE DEF m
  <1> DEFINE T == {i \in 0..m : Kept(i, h[i])}
  <1>3. 0 \in T
    <2>1. Kept(0, <<>>)
      BY DEF IsInjective, ToSet
    <2> HIDE DEF Kept
    <2> QED
      BY <1>1, <1>2, <2>1
  <1>4. \A i \in 0..m - 1 : i \in T => i + 1 \in T
    <2> SUFFICES ASSUME NEW i \in 0..m - 1, Kept(i, h[i]) PROVE Kept(i + 1, h[i + 1])
      <3> HIDE DEF Kept
      <3> QED
        BY <1>1
    <2> DEFINE x == h[i]
               d == q[i + 1]
    <2>1. d \in S /\ {q[j] : j \in 1..i + 1} = {q[j] : j \in 1..i} \cup {d}
      <3>1. i + 1 \in 1..m /\ 1..i + 1 = (1..i) \cup {i + 1}
        BY <1>1
      <3> QED
        BY <1>1, <3>1
    <2>2. d \notin {q[j] : j \in 1..i}
      BY <1>1 DEF IsInjective
    <2>3. x \in Seq(S) /\ IsInjective(x) /\ Len(x) <= i /\ ToSet(x) = {q[j] : j \in 1..i} \ {c}
      OBVIOUS
    <2>4. h[i + 1] = IF d = c THEN x ELSE Append(x, d)
      BY <1>2 DEF Keep
    <2> HIDE DEF x, d
    <2>5. CASE d = c
      <3>1. ToSet(x) = {q[j] : j \in 1..i + 1} \ {c}
        BY <2>1, <2>3, <2>5
      <3>2. Len(x) <= i + 1
        BY <1>1, <2>3
      <3> QED
        BY <2>3, <2>4, <2>5, <3>1, <3>2
    <2>6. CASE d # c
      <3> DEFINE y == Append(x, d)
      <3>1. /\ y \in Seq(S) /\ IsInjective(y)
            /\ ToSet(y) = ToSet(x) \cup {d} /\ Len(y) = Len(x) + 1
        BY <2>1, <2>2, <2>3, AppendIs
      <3>2. h[i + 1] = y
        BY <2>4, <2>6
      <3> HIDE DEF y
      <3>3. ToSet(y) = {q[j] : j \in 1..i + 1} \ {c}
        BY <2>1, <2>3, <2>6, <3>1
      <3>4. Len(y) <= i + 1
        BY <1>1, <2>3, <3>1
      <3> QED
        BY <3>1, <3>2, <3>3, <3>4
    <2> QED
      BY <2>5, <2>6
  <1>5. \A i \in 0..m : i \in T
    <2> HIDE DEF T
    <2> QED
      BY <1>1, <1>3, <1>4, UpTo
  <1>6. Kept(m, h[m])
    <2> HIDE DEF Kept
    <2> QED
      BY <1>1, <1>5
  <1>7. ToSet(q) = {q[j] : j \in 1..m}
    BY <1>1 DEF ToSet
  <1> QED
    BY <1>2, <1>6, <1>7 DEF m

------------------------------------------------------------------------------
(* The events of a tick *)

\* What the collision system and the viruses report of cells C
IsEvent(C, e) ==
    /\ e.type \in {"CELL_ATE_CELL", "CELL_MERGED", "CELL_HIT_VIRUS"} /\ e.eater \in C
    /\ e.eaten \in (IF e.type = "CELL_HIT_VIRUS" THEN VirusIds ELSE C)

\* s is s0 after some of the events: of those, the ones that cost a cell cost
\* the cells D, and A are the players who had one eaten by another.
Handling(s0, s, D, A) ==
    /\ Sound(s) /\ s0.eaten \in [Players -> Nat] /\ s.eaten \in [Players -> Nat]
    /\ DOMAIN s0.cell \subseteq DOMAIN s.cell
    /\ \A c \in DOMAIN s.cell : Of(DOMAIN s0.cell, c[1]) # {}
    /\ s0.marked \subseteq s.marked /\ s.marked \subseteq s0.marked \cup VirusIds
    /\ DOMAIN s.tracked \subseteq DOMAIN s0.tracked
    /\ DOMAIN s0.tracked \ DOMAIN s.tracked \subseteq A
    /\ \A p \in DOMAIN s.tracked : ToSet(s.tracked[p]) = Of(DOMAIN s.cell, p) \ D
    /\ \A c \in DOMAIN s.cell : c[1] \notin DOMAIN s.tracked => c \in s0.marked
    /\ \A p \in Players : s.eaten[p] =
          s0.eaten[p] + IF p \in DOMAIN s0.tracked \ DOMAIN s.tracked THEN 1 ELSE 0

\* A cell of nobody who is listed can be lost.
LEMMA NotListed ==
    ASSUME NEW s0, NEW s, NEW D, NEW A, Handling(s0, s, D, A),
           NEW c \in DOMAIN s.cell, c[1] \notin DOMAIN s.tracked
    PROVE  Handling(s0, s, D \cup {c}, A)
  <1>1. \A p \in DOMAIN s.tracked : Of(DOMAIN s.cell, p) \ D = Of(DOMAIN s.cell, p) \ (D \cup {c})
    BY DEF Of
  <1> QED
    BY <1>1 DEF Handling

\* The list of its player without a cell
LEMMA UntrackIs ==
    ASSUME NEW s0, NEW s, NEW D, NEW A, Handling(s0, s, D, A),
           NEW c \in DOMAIN s.cell, c[1] \in DOMAIN s.tracked
    PROVE  /\ Untrack(s, c) \in Seq(DOMAIN s.cell) /\ IsInjective(Untrack(s, c))
           /\ Len(Untrack(s, c)) <= MaxCells
           /\ ToSet(Untrack(s, c)) = Of(DOMAIN s.cell, c[1]) \ (D \cup {c})
  <1> DEFINE q == s.tracked[c[1]]
             r == Erase(q, c)
  <1>1. /\ q \in Seq(DOMAIN s.cell) /\ IsInjective(q) /\ Len(q) <= MaxCells
        /\ ToSet(q) = Of(DOMAIN s.cell, c[1]) \ D
    BY DEF Handling, Sound
  <1> HIDE DEF q
  <1>2. /\ r \in Seq(DOMAIN s.cell) /\ IsInjective(r)
        /\ ToSet(r) = ToSet(q) \ {c} /\ Len(r) <= Len(q)
    BY <1>1, EraseIs
  <1>3. Untrack(s, c) = r
    BY DEF Untrack, q
  <1> HIDE DEF r
  <1>4. Len(r) <= MaxCells
    <2>1. Len(r) \in Nat /\ Len(q) \in Nat
      BY <1>1, <1>2
    <2> QED
      BY <1>1, <1>2, <2>1, RoomForAll
  <1>5. ToSet(r) = Of(DOMAIN s.cell, c[1]) \ (D \cup {c})
    BY <1>1, <1>2
  <1> QED
    BY <1>2, <1>3, <1>4, <1>5

\* A list without a cell is that of a session which lost it.
LEMMA ListLoses ==
    ASSUME NEW s0, NEW s, NEW D, NEW A, Handling(s0, s, D, A),
           NEW c \in DOMAIN s.cell, c[1] \in DOMAIN s.tracked
    PROVE  Handling(s0, Session(s.cell, Put(s.tracked, c[1], Untrack(s, c)), s.marked, s.eaten),
                    D \cup {c}, A)
  <1> DEFINE p == c[1]
             q == Untrack(s, c)
             u == Session(s.cell, Put(s.tracked, p, q), s.marked, s.eaten)
  <1>1. /\ q \in Seq(DOMAIN s.cell) /\ IsInjective(q) /\ Len(q) <= MaxCells
        /\ ToSet(q) = Of(DOMAIN s.cell, p) \ (D \cup {c})
    BY UntrackIs
  <1> HIDE DEF q
  <1>2. /\ u.cell = s.cell /\ u.marked = s.marked /\ u.eaten = s.eaten
        /\ u = [cell |-> u.cell, tracked |-> u.tracked, marked |-> u.marked, eaten |-> u.eaten]
        /\ DOMAIN u.tracked = DOMAIN s.tracked /\ u.tracked[p] = q
        /\ u.tracked = [x \in DOMAIN s.tracked |-> IF x = p THEN q ELSE s.tracked[x]]
    BY DEF Session, Put
  <1> HIDE DEF u
  <1>3. \A x \in DOMAIN s.tracked : x # p => u.tracked[x] = s.tracked[x]
    BY <1>2
  <1>4. \A x \in DOMAIN s.tracked : ToSet(u.tracked[x]) = Of(DOMAIN s.cell, x) \ (D \cup {c})
    <2> SUFFICES ASSUME NEW x \in DOMAIN s.tracked
                 PROVE  ToSet(u.tracked[x]) = Of(DOMAIN s.cell, x) \ (D \cup {c})
      OBVIOUS
    <2>1. CASE x = p
      BY <1>1, <1>2, <2>1
    <2>2. CASE x # p
      <3>1. ToSet(s.tracked[x]) = Of(DOMAIN s.cell, x) \ D
        BY DEF Handling
      <3>2. c \notin Of(DOMAIN s.cell, x)
        BY <2>2 DEF Of
      <3> QED
        BY <1>3, <2>2, <3>1, <3>2
    <2> QED
      BY <2>1, <2>2
  <1>5. Sound(u)
    <2>1. Sound(s)
      BY DEF Handling
    <2>2. \A x \in DOMAIN u.tracked :
             /\ IsInjective(u.tracked[x]) /\ Len(u.tracked[x]) <= MaxCells
             /\ \A d \in ToSet(u.tracked[x]) : d[1] = x
      <3>1. \A x \in DOMAIN u.tracked : \A d \in ToSet(u.tracked[x]) : d[1] = x
        BY <1>2, <1>4 DEF Of
      <3> QED
        BY <1>1, <1>2, <1>3, <2>1, <3>1 DEF Sound
    <2>3. u.tracked \in [DOMAIN u.tracked -> Seq(DOMAIN u.cell)]
      <3>1. \A x \in DOMAIN s.tracked : s.tracked[x] \in Seq(DOMAIN s.cell)
        BY <2>1 DEF Sound
      <3> QED
        BY <1>1, <1>2, <3>1
    <2> QED
      BY <1>2, <2>1, <2>2, <2>3 DEF Sound
  <1> QED
    BY <1>2, <1>4, <1>5 DEF Handling, u, q

\* Who has no cell left is dropped, and told if it plays.
LEMMA PlayerDrops ==
    ASSUME NEW s0, NEW s, NEW D, NEW A, Handling(s0, s, D, A),
           NEW c \in DOMAIN s.cell, c[1] \in DOMAIN s.tracked, Untrack(s, c) = <<>>,
           DOMAIN s0.tracked \subseteq players, players \subseteq Players,
           c[1] \in A, D \cup {c} \subseteq s0.marked
    PROVE  Handling(s0, Session(s.cell, Without(s.tracked, c[1]), s.marked,
                           IF c[1] \in players THEN Put(s.eaten, c[1], s.eaten[c[1]] + 1)
                           ELSE s.eaten),
                    D \cup {c}, A)
  <1> DEFINE p == c[1]
             more == Put(s.eaten, p, s.eaten[p] + 1)
             u == Session(s.cell, Without(s.tracked, p), s.marked,
                          IF p \in players THEN more ELSE s.eaten)
  <1>1. p \in DOMAIN s0.tracked /\ p \in players /\ p \in Players
    BY DEF Handling
  <1>2. /\ u.cell = s.cell /\ u.marked = s.marked /\ u.eaten = more
        /\ u = [cell |-> u.cell, tracked |-> u.tracked, marked |-> u.marked, eaten |-> u.eaten]
        /\ u.tracked = [x \in DOMAIN s.tracked \ {p} |-> s.tracked[x]]
    BY <1>1 DEF Session, Without
  <1>3. more \in [Players -> Nat] /\ more[p] = s.eaten[p] + 1
        /\ \A x \in Players \ {p} : more[x] = s.eaten[x]
    BY <1>1 DEF Put, Handling
  <1> HIDE DEF u, more
  <1>4. Of(DOMAIN s.cell, p) \subseteq s0.marked
    <2>1. ToSet(Untrack(s, c)) = Of(DOMAIN s.cell, p) \ (D \cup {c})
      BY UntrackIs
    <2>2. Of(DOMAIN s.cell, p) \ (D \cup {c}) = {}
      BY <2>1 DEF ToSet
    <2> QED
      BY <2>2
  <1>5. /\ DOMAIN u.tracked = DOMAIN s.tracked \ {p}
        /\ \A x \in DOMAIN u.tracked : u.tracked[x] = s.tracked[x]
    BY <1>2
  <1>6. Sound(u)
    <2>1. Sound(s)
      BY DEF Handling
    <2> QED
      BY <1>2, <1>5, <2>1 DEF Sound
  <1>7. \A x \in DOMAIN u.tracked : ToSet(u.tracked[x]) = Of(DOMAIN s.cell, x) \ (D \cup {c})
    BY <1>5 DEF Handling, Of
  <1>8. \A d \in DOMAIN u.cell : d[1] \notin DOMAIN u.tracked => d \in s0.marked
    BY <1>2, <1>4, <1>5 DEF Handling, Of
  <1>9. \A x \in Players : u.eaten[x] =
           s0.eaten[x] + IF x \in DOMAIN s0.tracked \ DOMAIN u.tracked THEN 1 ELSE 0
    <2> SUFFICES ASSUME NEW x \in Players
                 PROVE  u.eaten[x] = s0.eaten[x] +
                           IF x \in DOMAIN s0.tracked \ DOMAIN u.tracked THEN 1 ELSE 0
      OBVIOUS
    <2>1. s.eaten[x] = s0.eaten[x] + IF x \in DOMAIN s0.tracked \ DOMAIN s.tracked THEN 1 ELSE 0
      BY DEF Handling
    <2>2. CASE x = p
      <3>1. s.eaten[p] = s0.eaten[p] + 0
        BY <2>1, <2>2
      <3>2. u.eaten[p] = s.eaten[p] + 1 /\ s.eaten[p] \in Nat /\ s0.eaten[p] \in Nat
        BY <1>1, <1>2, <1>3 DEF Handling
      <3>3. p \in DOMAIN s0.tracked \ DOMAIN u.tracked
        BY <1>1, <1>5
      <3> QED
        BY <2>2, <3>1, <3>2, <3>3
    <2>3. CASE x # p
      BY <1>2, <1>3, <1>5, <2>1, <2>3
    <2> QED
      BY <2>2, <2>3
  <1>10. u.eaten \in [Players -> Nat]
    BY <1>2, <1>3
  <1> QED
    BY <1>2, <1>5, <1>6, <1>7, <1>8, <1>9, <1>10 DEF Handling, u, more

\* A virus gives its eater more cells, as far as the limit goes.
LEMMA VirusKeeps ==
    ASSUME NEW s0, NEW s, NEW D, NEW A, Handling(s0, s, D, A), D \subseteq DOMAIN s0.cell,
           NEW e, IsEvent(DOMAIN s0.cell, e), e.type = "CELL_HIT_VIRUS"
    PROVE  Handling(s0, HitVirus(s, e), D, A)
  <1> DEFINE p == e.eater[1]
             n == NewPieces(s, p)
             r == Divide(s, e.eater, n)
             u == Session(r.cell, r.tracked, r.marked \cup {e.eaten}, r.eaten)
  <1>1. CASE p \notin DOMAIN s.tracked \/ n <= 0
    BY <1>1 DEF HitVirus
  <1>2. CASE p \in DOMAIN s.tracked /\ ~(n <= 0)
    <2>1. HitVirus(s, e) = u
      BY <1>2 DEF HitVirus
    <2>2. /\ n \in Nat /\ Len(s.tracked[p]) + n <= MaxCells
      <3>1. Len(s.tracked[p]) \in Nat
        BY <1>2 DEF Handling, Sound
      <3> DEFINE a == Len(s.tracked[p])
      <3>2. n = (IF Pieces - 1 < MaxCells - a THEN Pieces - 1 ELSE MaxCells - a) /\ ~(n <= 0)
        BY <1>2 DEF NewPieces, Least
      <3>3. a \in Nat
        BY <3>1
      <3> HIDE DEF a, n
      <3>4. n \in Nat /\ a + n <= MaxCells
        BY <3>2, <3>3, RoomForAll, CountsAreNumbers
      <3> QED
        BY <3>4 DEF a
    <2>3. Sound(s) /\ e.eater \in DOMAIN s.cell
      BY DEF Handling, IsEvent
    <2> HIDE DEF n
    <2>4. Grown(s, r, p, n)
      BY <1>2, <2>2, <2>3, DivideGrows
    <2>5. /\ u.cell = r.cell /\ u.tracked = r.tracked /\ u.eaten = s.eaten
          /\ u.marked = s.marked \cup {e.eaten}
          /\ u = [cell |-> u.cell, tracked |-> u.tracked, marked |-> u.marked, eaten |-> u.eaten]
      BY <2>4 DEF Session, Grown
    <2> HIDE DEF u, r
    <2>6. Sound(u)
      BY <2>4, <2>5 DEF Sound, Grown
    <2>7. \A c \in DOMAIN u.cell : Of(DOMAIN s0.cell, c[1]) # {}
      BY <2>4, <2>5 DEF Grown, Handling, IsEvent, Of
    <2>8. \A x \in DOMAIN u.tracked : ToSet(u.tracked[x]) = Of(DOMAIN u.cell, x) \ D
      <3> SUFFICES ASSUME NEW x \in DOMAIN u.tracked
                   PROVE  ToSet(u.tracked[x]) = Of(DOMAIN u.cell, x) \ D
        OBVIOUS
      <3> DEFINE new == DOMAIN r.cell \ DOMAIN s.cell
      <3>1. ToSet(s.tracked[x]) = Of(DOMAIN s.cell, x) \ D /\ x \in DOMAIN s.tracked
        BY <2>4, <2>5 DEF Grown, Handling
      <3>2. new \cap D = {} /\ DOMAIN r.cell = DOMAIN s.cell \cup new /\ \A c \in new : c[1] = p
        BY <2>4 DEF Grown, Handling
      <3>3. CASE x = p
        <4>1. ToSet(u.tracked[x]) = ToSet(s.tracked[x]) \cup new
          BY <2>4, <2>5, <3>3 DEF Grown
        <4> HIDE DEF new
        <4> QED
          BY <2>5, <3>1, <3>2, <3>3, <4>1 DEF Of
      <3>4. CASE x # p
        <4>1. u.tracked[x] = s.tracked[x]
          BY <2>4, <2>5, <3>1, <3>4 DEF Grown
        <4> HIDE DEF new
        <4> QED
          BY <2>5, <3>1, <3>2, <3>4, <4>1 DEF Of
      <3> QED
        BY <3>3, <3>4
    <2>9. \A c \in DOMAIN u.cell : c[1] \notin DOMAIN u.tracked => c \in s0.marked
      BY <1>2, <2>4, <2>5 DEF Grown, Handling
    <2>10. /\ DOMAIN u.tracked = DOMAIN s.tracked /\ DOMAIN s.cell \subseteq DOMAIN u.cell
           /\ e.eaten \in VirusIds
      BY <2>4, <2>5 DEF Grown, IsEvent
    <2> QED
      BY <2>1, <2>5, <2>6, <2>7, <2>8, <2>9, <2>10 DEF Handling
  <1> QED
    BY <1>1, <1>2

\* The cell that an event costs, if any
Cost(e) == IF e.type = "CELL_HIT_VIRUS" THEN {} ELSE {e.eaten}

\* Each kind of event keeps what the handling is about.
LEMMA HandleKeeps ==
    ASSUME NEW s0, NEW s, NEW D, NEW A, Handling(s0, s, D, A),
           NEW e, IsEvent(DOMAIN s0.cell, e),
           D \subseteq DOMAIN s0.cell, D \cup Cost(e) \subseteq s0.marked,
           DOMAIN s0.tracked \subseteq players, players \subseteq Players,
           e.type = "CELL_ATE_CELL" => e.eaten[1] \in A
    PROVE  Handling(s0, HandleEvent(s, e), D \cup Cost(e), A)
  <1> DEFINE c == e.eaten
  <1>1. CASE e.type = "CELL_HIT_VIRUS"
    <2>1. D \cup Cost(e) = D /\ HandleEvent(s, e) = HitVirus(s, e)
      BY <1>1 DEF Cost, HandleEvent
    <2> QED
      BY <1>1, <2>1, VirusKeeps
  <1>2. CASE e.type # "CELL_HIT_VIRUS"
    <2>1. D \cup Cost(e) = D \cup {c} /\ c \in DOMAIN s.cell /\ D \cup {c} \subseteq s0.marked
      BY <1>2 DEF Cost, IsEvent, Handling
    <2>2. CASE c[1] \notin DOMAIN s.tracked
      <3>1. HandleEvent(s, e) = s
        BY <1>2, <2>2 DEF HandleEvent, IsEvent, AteCell, Merged
      <3> QED
        BY <2>1, <2>2, <3>1, NotListed
    <2>3. CASE c[1] \in DOMAIN s.tracked
      <3> DEFINE v == Session(s.cell, Put(s.tracked, c[1], Untrack(s, c)), s.marked, s.eaten)
                 w == Session(s.cell, Without(s.tracked, c[1]), s.marked,
                           IF c[1] \in players THEN Put(s.eaten, c[1], s.eaten[c[1]] + 1)
                           ELSE s.eaten)
      <3>1. CASE e.type = "CELL_MERGED" \/ Untrack(s, c) # <<>>
        <4>1. HandleEvent(s, e) = v
          BY <1>2, <2>3, <3>1 DEF HandleEvent, IsEvent, AteCell, Merged
        <4> QED
          BY <2>1, <2>3, <4>1, ListLoses
      <3>2. CASE e.type = "CELL_ATE_CELL" /\ Untrack(s, c) = <<>>
        <4>1. HandleEvent(s, e) = w
          BY <2>3, <3>2 DEF HandleEvent, AteCell
        <4>2. c[1] \in A
          BY <3>2
        <4> HIDE DEF c
        <4>3. Handling(s0, w, D \cup {c}, A)
          BY <2>1, <2>3, <3>2, <4>2, PlayerDrops
        <4> QED
          BY <2>1, <4>1, <4>3
      <3> QED
        BY <1>2, <3>1, <3>2 DEF IsEvent
    <2> QED
      BY <2>2, <2>3
  <1> QED
    BY <1>1, <1>2

\* A step forgets no cell and lists no player again.
LEMMA HandleGrows ==
    ASSUME NEW s0, NEW s, NEW D, NEW A, Handling(s0, s, D, A),
           NEW e, IsEvent(DOMAIN s0.cell, e),
           D \subseteq DOMAIN s0.cell, D \cup Cost(e) \subseteq s0.marked,
           DOMAIN s0.tracked \subseteq players, players \subseteq Players,
           e.type = "CELL_ATE_CELL" => e.eaten[1] \in A
    PROVE  /\ DOMAIN s.cell \subseteq DOMAIN HandleEvent(s, e).cell
           /\ DOMAIN HandleEvent(s, e).tracked \subseteq DOMAIN s.tracked
  <1>1. Handling(s, s, D, A)
    BY DEF Handling, Of
  <1>2. /\ IsEvent(DOMAIN s.cell, e) /\ D \subseteq DOMAIN s.cell
        /\ D \cup Cost(e) \subseteq s.marked /\ DOMAIN s.tracked \subseteq players
    BY DEF Handling, IsEvent
  <1>3. Handling(s, HandleEvent(s, e), D \cup Cost(e), A)
    BY <1>1, <1>2, HandleKeeps
  <1> QED
    BY <1>3 DEF Handling

Costs(events, n) == UNION {Cost(events[j]) : j \in 1..n}

\* The players of which one of the first n events says that a cell was eaten
Eaten(events, n) ==
    {p \in Players : \E j \in 1..n : /\ events[j].type = "CELL_ATE_CELL"
                                     /\ events[j].eaten[1] = p}

\* The events of a tick that starts in s0
IsTick(s0, events) ==
    /\ Len(events) \in Nat
    /\ \A i \in 1..Len(events) : IsEvent(DOMAIN s0.cell, events[i])
    /\ DOMAIN s0.cell \subseteq CellIds
    /\ Costs(events, Len(events)) \subseteq s0.marked
    /\ DOMAIN s0.tracked \subseteq players /\ players \subseteq Players

\* One event more costs its cell.
LEMMA CostsGrow ==
    ASSUME NEW events, NEW n \in Nat
    PROVE  /\ Costs(events, n + 1) = Costs(events, n) \cup Cost(events[n + 1])
           /\ Costs(events, 0) = {}
  <1>1. 1..n + 1 = (1..n) \cup {n + 1} /\ 1..0 = {}
    OBVIOUS
  <1> QED
    BY <1>1 DEF Costs

\* What events cost was there when they began, and is marked.
LEMMA CostsAreCells ==
    ASSUME NEW s0, NEW events, IsTick(s0, events), NEW n \in 0..Len(events)
    PROVE  /\ Costs(events, n) \subseteq Costs(events, Len(events))
           /\ Costs(events, n) \subseteq DOMAIN s0.cell /\ Costs(events, n) \subseteq s0.marked
  <1>1. Len(events) \in Nat
    BY DEF IsTick
  <1> QED
    BY <1>1 DEF IsTick, IsEvent, Costs, Cost

\* All events of a tick, handled once
LEMMA HandleAll ==
    ASSUME NEW s0, NEW events, IsTick(s0, events), NEW s, NEW D, NEW A, Handling(s0, s, D, A),
           D \subseteq Costs(events, Len(events)), Eaten(events, Len(events)) \subseteq A
    PROVE  Handling(s0, HandleEvents(s, events), D \cup Costs(events, Len(events)), A)
  <1> DEFINE m == Len(events)
             Kept(i, r) == Handling(s0, r, D \cup Costs(events, i), A)
  <1>1. m \in Nat
    BY DEF IsTick
  <1>2. PICK h : /\ h[0] = s /\ h[m] = HandleEvents(s, events)
                 /\ \A i \in 0..m - 1 : h[i + 1] = HandleEvent(h[i], events[i + 1])
    <2>1. \E h : Telling(s, events, h)
      BY <1>1, HandleEventsIs
    <2> QED
      BY <2>1 DEF Telling
  <1>3. D \subseteq DOMAIN s0.cell /\ D \subseteq s0.marked
    BY <1>1, CostsAreCells
  <1>4. Costs(events, 0) = {}
    BY CostsGrow
  <1> DEFINE T == {i \in 0..m : Kept(i, h[i])}
  <1>5. 0 \in T
    <2>1. D \cup Costs(events, 0) = D
      BY <1>4
    <2>2. Kept(0, s)
      BY <2>1
    <2> HIDE DEF m, Kept
    <2> QED
      BY <1>1, <1>2, <2>2
  <1>6. \A i \in 0..m - 1 : i \in T => i + 1 \in T
    <2> SUFFICES ASSUME NEW i \in 0..m - 1, Kept(i, h[i]) PROVE Kept(i + 1, h[i + 1])
      <3> HIDE DEF Kept, m
      <3> QED
        BY <1>1
    <2> DEFINE e == events[i + 1]
               B == D \cup Costs(events, i)
               r == h[i]
    <2>1. i \in Nat /\ i \in 0..m /\ i + 1 \in 1..m /\ i + 1 \in 0..m
      BY <1>1
    <2>2. Costs(events, i + 1) = Costs(events, i) \cup Cost(e)
      BY <2>1, CostsGrow
    <2>3. B \subseteq DOMAIN s0.cell /\ B \cup Cost(e) \subseteq s0.marked
      BY <1>3, <2>1, <2>2, CostsAreCells
    <2>4. /\ IsEvent(DOMAIN s0.cell, e)
          /\ DOMAIN s0.tracked \subseteq players /\ players \subseteq Players
      BY <2>1 DEF IsTick
    <2>5. e.type = "CELL_ATE_CELL" => e.eaten[1] \in A
      <3>1. e.type = "CELL_ATE_CELL" => e.eaten[1] \in Players
        BY <2>4 DEF IsEvent, IsTick, CellIds
      <3> QED
        BY <2>1, <3>1 DEF Eaten
    <2>6. Handling(s0, r, B, A) /\ h[i + 1] = HandleEvent(r, e)
      BY <1>2
    <2>7. D \cup Costs(events, i + 1) = B \cup Cost(e)
      BY <2>2
    <2> HIDE DEF e, B, r
    <2>8. Handling(s0, h[i + 1], B \cup Cost(e), A)
      BY <2>3, <2>4, <2>5, <2>6, HandleKeeps
    <2> QED
      BY <2>7, <2>8
  <1>7. \A i \in 0..m : i \in T
    <2> HIDE DEF T, m
    <2> QED
      BY <1>1, <1>5, <1>6, UpTo
  <1>8. Kept(m, h[m])
    <2> HIDE DEF Kept
    <2> QED
      BY <1>1, <1>7
  <1> QED
    BY <1>2, <1>8

\* The second time, no list is left empty by a cell that another player ate.
LEMMA SecondTime ==
    ASSUME NEW s0, NEW events, IsTick(s0, events), NEW s, NEW A,
           Handling(s0, s, Costs(events, Len(events)), A), Eaten(events, Len(events)) \subseteq A
    PROVE  LET end == HandleEvents(s, events)
               L   == Costs(events, Len(events))
           IN  /\ Handling(s0, end, L, A)
               /\ \A p \in Eaten(events, Len(events)) \cap DOMAIN end.tracked :
                     Of(DOMAIN end.cell, p) \ L # {}
  <1> DEFINE m == Len(events)
             L == Costs(events, m)
             Kept(i, r) == /\ Handling(s0, r, L, A)
                           /\ \A p \in Eaten(events, i) \cap DOMAIN r.tracked :
                                 Of(DOMAIN r.cell, p) \ L # {}
  <1>1. m \in Nat
    BY DEF IsTick
  <1>2. PICK h : /\ h[0] = s /\ h[m] = HandleEvents(s, events)
                 /\ \A i \in 0..m - 1 : h[i + 1] = HandleEvent(h[i], events[i + 1])
    <2>1. \E h : Telling(s, events, h)
      BY <1>1, HandleEventsIs
    <2> QED
      BY <2>1 DEF Telling
  <1>3. L \subseteq DOMAIN s0.cell /\ L \subseteq s0.marked
    BY <1>1, CostsAreCells
  <1> DEFINE T == {i \in 0..m : Kept(i, h[i])}
  <1>4. 0 \in T
    <2>1. Kept(0, s)
      BY DEF Eaten
    <2> HIDE DEF Kept, m
    <2> QED
      BY <1>1, <1>2, <2>1
  <1>5. \A i \in 0..m - 1 : i \in T => i + 1 \in T
    <2> SUFFICES ASSUME NEW i \in 0..m - 1, Kept(i, h[i]) PROVE Kept(i + 1, h[i + 1])
      <3> HIDE DEF Kept, m
      <3> QED
        BY <1>1
    <2> DEFINE e == events[i + 1]
               r == h[i]
               u == h[i + 1]
    <2>1. i \in Nat /\ i + 1 \in 1..m /\ 1..i + 1 = (1..i) \cup {i + 1}
      BY <1>1
    <2>2. Cost(e) \subseteq L
      BY <2>1 DEF Costs
    <2>3. /\ IsEvent(DOMAIN s0.cell, e) /\ DOMAIN s0.cell \subseteq CellIds
          /\ DOMAIN s0.tracked \subseteq players /\ players \subseteq Players
      BY <2>1 DEF IsTick
    <2>4. e.type = "CELL_ATE_CELL" => e.eaten[1] \in A
      <3>1. e.type = "CELL_ATE_CELL" => e.eaten[1] \in Players
        BY <2>3 DEF IsEvent, CellIds
      <3> QED
        BY <2>1, <3>1 DEF Eaten
    <2>5. /\ Handling(s0, r, L, A) /\ u = HandleEvent(r, e)
          /\ \A p \in Eaten(events, i) \cap DOMAIN r.tracked : Of(DOMAIN r.cell, p) \ L # {}
      BY <1>2
    <2>6. L \cup Cost(e) = L
      BY <2>2
    <2>7. \A p \in Eaten(events, i + 1) :
             p \in Eaten(events, i) \/ (e.type = "CELL_ATE_CELL" /\ p = e.eaten[1])
      BY <2>1 DEF Eaten
    <2> HIDE DEF e, L, r, u
    <2>8. Handling(s0, u, L, A)
      BY <1>3, <2>3, <2>4, <2>5, <2>6, HandleKeeps
    <2>9. DOMAIN r.cell \subseteq DOMAIN u.cell /\ DOMAIN u.tracked \subseteq DOMAIN r.tracked
      BY <1>3, <2>3, <2>4, <2>5, <2>6, HandleGrows
    <2>10. ASSUME NEW p \in Eaten(events, i + 1) \cap DOMAIN u.tracked
           PROVE  Of(DOMAIN u.cell, p) \ L # {}
      <3>1. CASE p \in Eaten(events, i)
        BY <2>5, <2>9, <3>1 DEF Of
      <3>2. CASE e.type = "CELL_ATE_CELL" /\ p = e.eaten[1]
        <4>1. p \in DOMAIN r.tracked
          BY <2>9
        <4>2. u = AteCell(r, e)
          BY <2>5, <3>2 DEF HandleEvent
        <4>3. Untrack(r, e.eaten) # <<>> /\ u.tracked = Put(r.tracked, p, Untrack(r, e.eaten))
          BY <3>2, <4>1, <4>2 DEF AteCell, Session, Without
        <4>4. u.tracked[p] # <<>> /\ u.tracked[p] \in Seq(DOMAIN u.cell)
          BY <2>8, <4>3 DEF Put, Handling, Sound
        <4>5. ToSet(u.tracked[p]) # {}
          BY <4>4, ListsNobody
        <4> QED
          BY <2>8, <4>5 DEF Handling
      <3> QED
        BY <2>7, <3>1, <3>2
    <2> QED
      BY <2>8, <2>10 DEF L, u
  <1>6. \A i \in 0..m : i \in T
    <2> HIDE DEF T, m
    <2> QED
      BY <1>1, <1>4, <1>5, UpTo
  <1>7. Kept(m, h[m])
    <2> HIDE DEF Kept
    <2> QED
      BY <1>1, <1>6
  <1> QED
    BY <1>2, <1>7

------------------------------------------------------------------------------
(* What the collision system leaves *)

\* h is what Scan computes, pair by pair
Scanning(t, cells, touch, h) ==
    /\ h[0] = t /\ h[Len(cells) * Len(cells)] = Scan(t, cells, touch)
    /\ \A i \in 0..Len(cells) * Len(cells) - 1 : h[i + 1] = MeetPair(h[i], cells, touch, i + 1)

\* There is such an h.
LEMMA ScanIs ==
    ASSUME NEW t, NEW cells, NEW touch, Len(cells) * Len(cells) \in Nat
    PROVE  \E h : Scanning(t, cells, touch, h)
  <1> DEFINE G(k, f) == f = [i \in 0..k |->
                 IF i = 0 THEN t ELSE MeetPair(f[i - 1], cells, touch, i)]
             S == {k \in Nat : \E f : G(k, f)}
  <1>1. 0 \in S
    <2>1. G(0, [i \in 0..0 |-> t])
      OBVIOUS
    <2> QED
      BY <2>1
  <1>2. \A k \in Nat : k \in S => k + 1 \in S
    <2> SUFFICES ASSUME NEW k \in Nat, k \in S PROVE \E f : G(k + 1, f)
      <3> HIDE DEF G
      <3> QED
        OBVIOUS
    <2>1. PICK f : G(k, f)
      OBVIOUS
    <2> DEFINE g == [i \in 0..k + 1 |->
                        IF i = k + 1 THEN MeetPair(f[k], cells, touch, k + 1) ELSE f[i]]
    <2>2. \A i \in 0..k : f[i] = IF i = 0 THEN t ELSE MeetPair(f[i - 1], cells, touch, i)
      BY <2>1
    <2>3. G(k + 1, g)
      BY <2>2
    <2> QED
      BY <2>3
  <1>3. Len(cells) * Len(cells) \in S
    <2> HIDE DEF S
    <2> QED
      BY <1>1, <1>2, NatSets
  <1> DEFINE h == CHOOSE f : G(Len(cells) * Len(cells), f)
  <1>4. G(Len(cells) * Len(cells), h)
    BY <1>3
  <1>5. Scan(t, cells, touch) = h[Len(cells) * Len(cells)]
    BY DEF Scan
  <1> HIDE DEF h
  <1>6. \A i \in 0..Len(cells) * Len(cells) : h[i] = IF i = 0 THEN t ELSE MeetPair(h[i - 1], cells, touch, i)
    BY <1>4
  <1>7. \A i \in 0..Len(cells) * Len(cells) - 1 : h[i + 1] = MeetPair(h[i], cells, touch, i + 1)
    BY <1>6
  <1>8. Scanning(t, cells, touch, h)
    BY <1>5, <1>6, <1>7 DEF Scanning
  <1> QED
    BY <1>8

LossEvents == [type : {"CELL_ATE_CELL", "CELL_MERGED"}, eater : DOMAIN cell, eaten : DOMAIN cell]

\* The cells have data still, and those that the events cost are marked.
Scanned(t) ==
    /\ t.cell \in [DOMAIN cell -> CellData] /\ t.events \in Seq(LossEvents)
    /\ t.marked = marked \cup {e.eaten : e \in ToSet(t.events)}

\* Eating and merging report what they mark.
LEMMA AbsorbKeeps ==
    ASSUME NEW t, Scanned(t), NEW a \in DOMAIN cell, NEW b \in DOMAIN cell,
           NEW kind \in {"CELL_ATE_CELL", "CELL_MERGED"}
    PROVE  Scanned(Absorb(t, kind, a, b))
  <1> DEFINE e == [type |-> kind, eater |-> a, eaten |-> b]
             m == Least(MaxMass, t.cell[a].mass + t.cell[b].mass)
             data == [mass |-> m, ready |-> t.cell[a].ready]
             u == Absorb(t, kind, a, b)
  <1>1. e \in LossEvents
    BY DEF LossEvents
  <1>2. data \in CellData
    <2> DEFINE x == t.cell[a].mass
               y == t.cell[b].mass
    <2>1. x \in 1..MaxMass /\ y \in 1..MaxMass /\ t.cell[a].ready \in BOOLEAN
      BY DEF Scanned, CellData
    <2> HIDE DEF x, y
    <2>2. Least(MaxMass, x + y) \in 1..MaxMass
      BY <2>1, MassesLast DEF Least
    <2> QED
      BY <2>1, <2>2 DEF CellData, x, y
  <1>3. /\ u.cell = Put(t.cell, a, data) /\ u.marked = t.marked \cup {b}
        /\ u.events = Append(t.events, e)
    BY DEF Absorb
  <1>4. e.eaten = b
    OBVIOUS
  <1> HIDE DEF u, data, e
  <1>5. u.events \in Seq(LossEvents) /\ ToSet(u.events) = ToSet(t.events) \cup {e}
    BY <1>1, <1>3, AppendSet DEF Scanned
  <1>6. u.cell \in [DOMAIN cell -> CellData]
    <2>1. DOMAIN t.cell = DOMAIN cell /\ t.cell \in [DOMAIN cell -> CellData]
      BY DEF Scanned
    <2>2. DOMAIN t.cell \cup {a} = DOMAIN cell
      BY <2>1
    <2>3. u.cell = [y \in DOMAIN cell |-> IF y = a THEN data ELSE t.cell[y]]
      BY <1>3, <2>2 DEF Put
    <2> QED
      BY <1>2, <2>1, <2>3
  <1>7. u.marked = marked \cup {d.eaten : d \in ToSet(u.events)}
    BY <1>3, <1>4, <1>5 DEF Scanned
  <1> QED
    BY <1>5, <1>6, <1>7 DEF Scanned, u

\* Two cells that touch, eating or not
LEMMA MeetKeeps ==
    ASSUME NEW t, Scanned(t), NEW a \in DOMAIN cell, NEW b \in DOMAIN cell
    PROVE  Scanned(Meet(t, a, b))
  <1>1. \/ Meet(t, a, b) = t
        \/ \E kind \in {"CELL_ATE_CELL", "CELL_MERGED"} :
              Meet(t, a, b) = Absorb(t, kind, a, b) \/ Meet(t, a, b) = Absorb(t, kind, b, a)
    BY DEF Meet
  <1> QED
    BY <1>1, AbsorbKeeps

\* All pairs of some cells
LEMMA ScanKeeps ==
    ASSUME NEW t, Scanned(t), NEW cells, Len(cells) \in Nat,
           \A i \in 1..Len(cells) : cells[i] \in DOMAIN cell,
           NEW touch, touch \subseteq (1..Len(cells)) \X (1..Len(cells))
    PROVE  Scanned(Scan(t, cells, touch))
  <1> DEFINE m == Len(cells) * Len(cells)
  <1>1. m \in Nat
    OBVIOUS
  <1>2. PICK h : /\ h[0] = t /\ h[m] = Scan(t, cells, touch)
                 /\ \A i \in 0..m - 1 : h[i + 1] = MeetPair(h[i], cells, touch, i + 1)
    <2>1. \E h : Scanning(t, cells, touch, h)
      BY <1>1, ScanIs
    <2> QED
      BY <2>1 DEF Scanning
  <1> HIDE DEF m
  <1> DEFINE T == {i \in 0..m : Scanned(h[i])}
  <1>3. 0 \in T
    BY <1>1, <1>2
  <1>4. \A i \in 0..m - 1 : i \in T => i + 1 \in T
    <2> SUFFICES ASSUME NEW i \in 0..m - 1, Scanned(h[i]) PROVE Scanned(h[i + 1])
      BY <1>1
    <2>1. \/ h[i + 1] = h[i]
          \/ \E x, y \in 1..Len(cells) : h[i + 1] = Meet(h[i], cells[x], cells[y])
      BY <1>2 DEF MeetPair
    <2> QED
      BY <2>1, MeetKeeps
  <1>5. \A i \in 0..m : i \in T
    <2> HIDE DEF T
    <2> QED
      BY <1>1, <1>3, <1>4, UpTo
  <1>6. m \in T
    BY <1>1, <1>5
  <1> QED
    BY <1>2, <1>6

\* What the collision system may find
LEMMA ScansAreScanned ==
    ASSUME BagTypeOK, NEW t \in Scans
    PROVE  Scanned(t)
  <1> DEFINE k == Least(MaxScan, Cardinality(DOMAIN cell))
             start == [cell |-> cell, marked |-> marked, events |-> <<>>]
  <1>1. k \in Nat
    BY CountsAreNumbers, FS_CardinalityType DEF Least, BagTypeOK
  <1>2. PICK cells \in [1..k -> DOMAIN cell],
             touch \in SUBSET {ij \in (1..k) \X (1..k) : ij[1] < ij[2]} :
                t = Scan(start, cells, touch)
    BY DEF Scans
  <1>3. Scanned(start)
    BY DEF Scanned, BagTypeOK, ToSet
  <1> HIDE DEF k, start
  <1>4. Len(cells) = k
    BY <1>1
  <1> QED
    BY <1>1, <1>2, <1>3, <1>4, ScanKeeps

------------------------------------------------------------------------------
(* The inductive invariant *)

\* The lists have every cell of their player, whose other cells are none; what
\* is marked are the cells of nobody who is listed.  Who plays and is not
\* listed was told once; a list is empty when its last cells merged.
BagIInv ==
    /\ BagTypeOK /\ Sound(Now)
    /\ DOMAIN tracked \subseteq players
    /\ \A c \in DOMAIN cell : c[1] \in players \cup left
    /\ \A p \in DOMAIN tracked : ToSet(tracked[p]) = Of(DOMAIN cell, p)
    /\ \A c \in DOMAIN cell : c \in marked <=> c[1] \notin DOMAIN tracked
    /\ \A p \in players : eaten[p] = IF p \in DOMAIN tracked THEN 0 ELSE 1
    /\ \A p \in Players \ (players \cup left) : eaten[p] = 0
    /\ melted \subseteq players \cup left
    /\ \A p \in DOMAIN tracked : tracked[p] = <<>> <=> p \in melted
    /\ players \cap melted \subseteq DOMAIN tracked

------------------------------------------------------------------------------
(* Names after a kill *)

\* A cell that lives on gets a place, and a later one another.
LEMMA RankIs ==
    ASSUME NEW s, Sound(s), NEW c \in Survivors(s)
    PROVE  /\ NewName(s, c) = <<c[1], Rank(s, c)>> /\ NewName(s, c) \in CellIds
           /\ \A d \in Survivors(s) : d[1] = c[1] /\ d[2] > c[2] => Rank(s, d) # Rank(s, c)
  <1> DEFINE Below(d) == {x \in Survivors(s) : x[1] = d[1] /\ x[2] <= d[2]}
  <1>1. IsFiniteSet(Survivors(s)) /\ Survivors(s) \subseteq CellIds
    BY FS_Subset DEF Survivors, Sound
  <1>2. \A d \in Survivors(s) : /\ IsFiniteSet(Below(d)) /\ d \in Below(d)
                                /\ Rank(s, d) = Cardinality(Below(d))
    <2> TAKE d \in Survivors(s)
    <2>1. IsFiniteSet(Below(d))
      BY <1>1, FS_Subset
    <2>2. d[2] \in Nat
      BY <1>1 DEF CellIds
    <2> QED
      BY <2>1, <2>2 DEF Rank
  <1>3. Rank(s, c) \in Nat \ {0}
    <2> HIDE DEF Below
    <2>1. Cardinality(Below(c)) \in Nat /\ Cardinality(Below(c)) # 0
      BY <1>2, FS_CardinalityType, FS_EmptySet
    <2> QED
      BY <1>2, <2>1
  <1>4. ASSUME NEW d \in Survivors(s), d[1] = c[1], d[2] > c[2]
        PROVE  Rank(s, d) # Rank(s, c)
    <2>1. \A x \in Survivors(s) : x[2] \in Nat
      BY <1>1 DEF CellIds
    <2>2. Below(c) \subseteq Below(d) /\ d \notin Below(c) /\ d \in Below(d)
      BY <1>4, <2>1
    <2> HIDE DEF Below
    <2>3. Cardinality(Below(c)) # Cardinality(Below(d))
      BY <1>2, <2>2, FS_Subset
    <2> QED
      BY <1>2, <2>3
  <1>5. NewName(s, c) = <<c[1], Rank(s, c)>>
    BY DEF NewName
  <1>6. c[1] \in Players
    BY <1>1 DEF CellIds
  <1> QED
    BY <1>3, <1>4, <1>5, <1>6 DEF CellIds

\* New names are names of one cell each.
LEMMA NamesDiffer ==
    ASSUME NEW s, Sound(s), NEW c \in Survivors(s), NEW d \in Survivors(s),
           NewName(s, c) = NewName(s, d)
    PROVE  c = d
  <1>1. c[1] = d[1] /\ Rank(s, c) = Rank(s, d)
    BY RankIs
  <1>2. ~(c[2] > d[2]) /\ ~(d[2] > c[2])
    BY <1>1, RankIs
  <1>3. c = <<c[1], c[2]>> /\ d = <<d[1], d[2]>> /\ c[2] \in Nat /\ d[2] \in Nat
    BY DEF Survivors, Sound, CellIds
  <1>4. c[2] = d[2]
    BY <1>2, <1>3
  <1> QED
    BY <1>1, <1>3, <1>4

\* What is killed leaves lists of what lives on, under its new names.
LEMMA Killing ==
    ASSUME NEW s, Sound(s),
           \A p \in DOMAIN s.tracked : ToSet(s.tracked[p]) = Of(Survivors(s), p)
    PROVE  LET k == Killed(s)
           IN  /\ IsFiniteSet(DOMAIN k.cell) /\ DOMAIN k.cell \subseteq CellIds
               /\ k.cell \in [DOMAIN k.cell -> CellData]
               /\ DOMAIN k.tracked = DOMAIN s.tracked
               /\ \A c \in DOMAIN k.cell : Of(Survivors(s), c[1]) # {}
               /\ \A p \in DOMAIN s.tracked :
                     /\ k.tracked[p] \in Seq(DOMAIN k.cell) /\ IsInjective(k.tracked[p])
                     /\ Len(k.tracked[p]) = Len(s.tracked[p])
                     /\ ToSet(k.tracked[p]) = Of(DOMAIN k.cell, p)
  <1> DEFINE k == Killed(s)
             V == Survivors(s)
             N == {NewName(s, d) : d \in V}
  <1>1. /\ k.cell = [c \in N |-> s.cell[CHOOSE d \in V : NewName(s, d) = c]]
        /\ k.tracked = [p \in DOMAIN s.tracked |->
                           [i \in DOMAIN s.tracked[p] |-> NewName(s, s.tracked[p][i])]]
    BY DEF Killed
  <1> HIDE DEF k
  <1>2. DOMAIN k.cell = N /\ N \subseteq CellIds /\ \A c \in N : Of(V, c[1]) # {}
    <2>1. \A d \in V : NewName(s, d) \in CellIds /\ NewName(s, d)[1] = d[1]
      BY RankIs
    <2> QED
      BY <1>1, <2>1 DEF Of
  <1>3. IsFiniteSet(N)
    <2> DEFINE f == [d \in V |-> NewName(s, d)]
    <2>1. f \in Surjection(V, N)
      BY DEF Surjection
    <2>2. IsFiniteSet(V)
      BY FS_Subset DEF Survivors, Sound
    <2> HIDE DEF f, V, N
    <2> QED
      BY <2>1, <2>2, FS_Surjection
  <1>4. k.cell \in [N -> CellData]
    <2>1. \A c \in N : (CHOOSE d \in V : NewName(s, d) = c) \in V
      OBVIOUS
    <2>2. \A d \in V : s.cell[d] \in CellData
      BY DEF Survivors, Sound
    <2> HIDE DEF V, N
    <2> QED
      BY <1>1, <2>1, <2>2
  <1>5. ASSUME NEW p \in DOMAIN s.tracked
        PROVE  /\ k.tracked[p] \in Seq(N) /\ IsInjective(k.tracked[p])
               /\ Len(k.tracked[p]) = Len(s.tracked[p])
               /\ ToSet(k.tracked[p]) = Of(N, p)
    <2> DEFINE q == s.tracked[p]
               n == Len(q)
               r == k.tracked[p]
    <2>1. n \in Nat /\ DOMAIN q = 1..n /\ IsInjective(q) /\ ToSet(q) = Of(V, p)
      BY DEF Sound
    <2>2. \A i \in 1..n : q[i] \in V
      BY <2>1 DEF ToSet, Of
    <2>3. r = [i \in 1..n |-> NewName(s, q[i])]
      BY <1>1, <2>1
    <2>4. \A d \in V : NewName(s, d)[1] = d[1]
      BY RankIs
    <2>5. \A c, d \in V : NewName(s, c) = NewName(s, d) => c = d
      BY NamesDiffer
    <2> HIDE DEF q, n, r, V
    <2>6. r \in Seq(N) /\ Len(r) = n /\ DOMAIN r = 1..n
      BY <2>1, <2>2, <2>3
    <2>7. IsInjective(r)
      <3>1. \A i, j \in 1..n : r[i] = r[j] => q[i] = q[j]
        BY <2>2, <2>3, <2>5
      <3> QED
        BY <2>1, <2>6, <3>1 DEF IsInjective
    <2>8. ToSet(r) = Of(N, p)
      <3>1. ToSet(r) = {NewName(s, d) : d \in ToSet(q)}
        BY <2>1, <2>3, <2>6 DEF ToSet
      <3> QED
        BY <2>1, <2>4, <3>1 DEF Of
    <2> QED
      BY <2>6, <2>7, <2>8 DEF q, n, r
  <1>6. DOMAIN k.tracked = DOMAIN s.tracked
    BY <1>1
  <1> QED
    BY <1>2, <1>3, <1>4, <1>5, <1>6 DEF k

------------------------------------------------------------------------------
(* The packets keep the invariant *)

\* The session between the steps
LEMMA NowIs ==
    /\ Now = [cell |-> cell, tracked |-> tracked, marked |-> marked, eaten |-> eaten]
    /\ Now.cell = cell /\ Now.tracked = tracked /\ Now.marked = marked /\ Now.eaten = eaten
  BY DEF Now, Session

\* A session that a handler left is the next one.
LEMMA SetNow ==
    ASSUME NEW s, Sound(s), cell' = s.cell, tracked' = s.tracked, marked' = s.marked,
           eaten' = s.eaten
    PROVE  Sound(Now)'
  <1>1. s = Now'
    BY DEF Sound, Now, Session
  <1> QED
    BY <1>1

\* A first cell makes a list of its own.
LEMMA JoinKeeps ==
    ASSUME BagIInv, NEW p \in Players, Join(p)
    PROVE  BagIInv'
  <1> DEFINE data == [mass |-> 1, ready |-> TRUE]
             r == SpawnPlayerCell(Now, p, data)
             new == NewCell(Now, p)
  <1>1. p \notin players \cup left /\ p \notin DOMAIN tracked /\ Of(DOMAIN cell, p) = {}
    BY DEF Join, BagIInv, Of
  <1>2. data \in CellData
    BY MassesLast DEF CellData
  <1>3. new[1] = p /\ new \notin DOMAIN cell /\ new \in CellIds
    BY NewCellIsNew, NowIs DEF BagIInv
  <1>4. cell' = r.cell /\ tracked' = r.tracked
    BY DEF Join, SetTo
  <1> HIDE DEF data, new
  <1>5. /\ Sound(r) /\ r.marked = marked /\ r.eaten = eaten
        /\ DOMAIN r.cell = DOMAIN cell \cup {new}
        /\ DOMAIN r.tracked = DOMAIN tracked \cup {p}
        /\ \A q \in DOMAIN tracked : r.tracked[q] = tracked[q]
        /\ r.tracked[p] = Append(<<>>, new)
        /\ ToSet(r.tracked[p]) = ToSet(<<>>) \cup {new}
    <2>1. Sound(Now) /\ Now.tracked = tracked /\ Now.cell = cell /\ p \notin DOMAIN Now.tracked
      BY <1>1, NowIs DEF BagIInv
    <2> HIDE DEF r
    <2>2. LET old == IF p \in DOMAIN Now.tracked THEN Now.tracked[p] ELSE <<>>
          IN  /\ Sound(r) /\ r.marked = Now.marked /\ r.eaten = Now.eaten
              /\ DOMAIN r.cell = DOMAIN Now.cell \cup {new}
              /\ DOMAIN r.tracked = DOMAIN Now.tracked \cup {p}
              /\ \A q \in DOMAIN Now.tracked \ {p} : r.tracked[q] = Now.tracked[q]
              /\ r.tracked[p] = Append(old, new)
              /\ ToSet(r.tracked[p]) = ToSet(old) \cup {new}
      BY <1>2, <2>1, SpawnPuts DEF r, new
    <2> QED
      BY <2>1, <2>2, NowIs
  <1> HIDE DEF r
  <1>6. /\ players' = players \cup {p} /\ step' = step /\ left' = left /\ virus' = virus
        /\ marked' = marked /\ eaten' = eaten /\ melted' = melted
    BY DEF Join
  <1>7. Sound(Now)'
    BY <1>4, <1>5, <1>6, SetNow
  <1>8. ToSet(tracked'[p]) = {new} /\ tracked'[p] # <<>>
    <2>1. ToSet(<<>>) = {}
      BY DEF ToSet
    <2> QED
      BY <1>4, <1>5, <2>1
  <1>9. BagTypeOK'
    <2>1. /\ cell' \in [DOMAIN cell' -> CellData] /\ IsFiniteSet(DOMAIN cell')
          /\ DOMAIN cell' \subseteq CellIds /\ DOMAIN tracked' \subseteq Players
          /\ tracked' \in [DOMAIN tracked' -> Seq(DOMAIN cell')]
      BY <1>4, <1>5 DEF Sound
    <2> QED
      BY <1>4, <1>5, <1>6, <2>1 DEF BagIInv, BagTypeOK
  <1>10. \A q \in DOMAIN tracked' : /\ ToSet(tracked'[q]) = Of(DOMAIN cell', q)
                                    /\ tracked'[q] = <<>> <=> q \in melted'
    <2> SUFFICES ASSUME NEW q \in DOMAIN tracked'
                 PROVE  /\ ToSet(tracked'[q]) = Of(DOMAIN cell', q)
                        /\ tracked'[q] = <<>> <=> q \in melted'
      OBVIOUS
    <2>1. CASE q = p
      BY <1>1, <1>3, <1>4, <1>5, <1>6, <1>8, <2>1 DEF BagIInv, Of
    <2>2. CASE q # p
      BY <1>3, <1>4, <1>5, <1>6, <2>2 DEF BagIInv, Of
    <2> QED
      BY <2>1, <2>2
  <1>11. \A c \in DOMAIN cell' : c \in marked' <=> c[1] \notin DOMAIN tracked'
    <2>1. new \notin marked
      BY <1>3 DEF BagIInv, BagTypeOK
    <2> QED
      BY <1>1, <1>3, <1>4, <1>5, <1>6, <2>1 DEF BagIInv, Of
  <1>12. /\ DOMAIN tracked' \subseteq players'
         /\ \A c \in DOMAIN cell' : c[1] \in players' \cup left'
    BY <1>3, <1>4, <1>5, <1>6 DEF BagIInv
  <1>13. /\ \A q \in players' : eaten'[q] = IF q \in DOMAIN tracked' THEN 0 ELSE 1
         /\ \A q \in Players \ (players' \cup left') : eaten'[q] = 0
    BY <1>1, <1>4, <1>5, <1>6 DEF BagIInv
  <1>14. melted' \subseteq players' \cup left' /\ players' \cap melted' \subseteq DOMAIN tracked'
    BY <1>1, <1>4, <1>5, <1>6 DEF BagIInv
  <1> QED
    BY <1>7, <1>9, <1>10, <1>11, <1>12, <1>13, <1>14 DEF BagIInv

\* Who leaves is in no list, and its cells are marked.
LEMMA LeaveKeeps ==
    ASSUME BagIInv, NEW p \in Players, Leave(p)
    PROVE  BagIInv'
  <1>1. /\ p \in players /\ players' = players \ {p} /\ left' = left \cup {p}
        /\ step' = step /\ cell' = cell /\ virus' = virus /\ eaten' = eaten /\ melted' = melted
    BY DEF Leave
  <1>2. /\ DOMAIN tracked' = DOMAIN tracked \ {p}
        /\ \A q \in DOMAIN tracked' : tracked'[q] = tracked[q]
        /\ tracked' = [q \in DOMAIN tracked' |-> tracked'[q]]
        /\ marked' = marked \cup Of(DOMAIN cell, p)
    <2>1. CASE p \in DOMAIN tracked
      BY <2>1 DEF Leave, RemovePlayer, Without, BagIInv
    <2>2. CASE p \notin DOMAIN tracked
      <3>1. Of(DOMAIN cell, p) \subseteq marked
        BY <2>2 DEF BagIInv, Of
      <3>2. tracked = [q \in DOMAIN tracked |-> tracked[q]]
        BY DEF BagIInv, BagTypeOK
      <3> QED
        BY <2>2, <3>1, <3>2 DEF Leave, RemovePlayer
    <2> QED
      BY <2>1, <2>2
  <1>3. Sound(Now)'
    <2>1. Sound(Now)
      BY DEF BagIInv
    <2> QED
      BY <1>1, <1>2, <2>1 DEF Sound, Now, Session
  <1>4. BagTypeOK'
    BY <1>1, <1>2 DEF BagIInv, BagTypeOK, Of
  <1>5. \A c \in DOMAIN cell' : c \in marked' <=> c[1] \notin DOMAIN tracked'
    BY <1>1, <1>2 DEF BagIInv, Of
  <1>6. \A q \in DOMAIN tracked' : /\ ToSet(tracked'[q]) = Of(DOMAIN cell', q)
                                   /\ tracked'[q] = <<>> <=> q \in melted'
    BY <1>1, <1>2 DEF BagIInv
  <1>7. /\ DOMAIN tracked' \subseteq players'
        /\ \A c \in DOMAIN cell' : c[1] \in players' \cup left'
        /\ \A q \in players' : eaten'[q] = IF q \in DOMAIN tracked' THEN 0 ELSE 1
        /\ \A q \in Players \ (players' \cup left') : eaten'[q] = 0
        /\ melted' \subseteq players' \cup left' /\ players' \cap melted' \subseteq DOMAIN tracked'
    BY <1>1, <1>2 DEF BagIInv
  <1> QED
    BY <1>3, <1>4, <1>5, <1>6, <1>7 DEF BagIInv

\* Every new cell of a split is listed.
LEMMA SplitKeeps ==
    ASSUME BagIInv, NEW p \in Players, PlayerSplit(p)
    PROVE  BagIInv'
  <1> DEFINE cells == CellsToSplit(p)
             r == SplitAll(Now, cells)
  <1>1. /\ p \in DOMAIN tracked /\ cells # <<>> /\ cell' = r.cell /\ tracked' = r.tracked
        /\ step' = step /\ players' = players /\ left' = left /\ virus' = virus
        /\ marked' = marked /\ eaten' = eaten /\ melted' = melted
    BY DEF PlayerSplit, SetTo
  <1>2. cells \in Seq(Of(DOMAIN cell, p)) /\ Len(tracked[p]) + Len(cells) <= MaxCells
    BY <1>1, ChosenFit DEF BagIInv
  <1> HIDE DEF cells
  <1>3. Grown(Now, r, p, Len(cells))
    <2>1. Sound(Now) /\ p \in DOMAIN Now.tracked /\ cells \in Seq(Of(DOMAIN Now.cell, p))
          /\ Len(Now.tracked[p]) + Len(cells) <= MaxCells
      BY <1>1, <1>2, NowIs DEF BagIInv
    <2> QED
      BY <2>1, SplitAllGrows
  <1> HIDE DEF r
  <1> DEFINE new == DOMAIN r.cell \ DOMAIN cell
  <1>4. /\ Sound(r) /\ r.marked = marked /\ r.eaten = eaten
        /\ DOMAIN r.cell = DOMAIN cell \cup new /\ \A c \in new : c[1] = p /\ c \notin DOMAIN cell
        /\ DOMAIN r.tracked = DOMAIN tracked
        /\ \A q \in DOMAIN tracked \ {p} : r.tracked[q] = tracked[q]
        /\ ToSet(r.tracked[p]) = ToSet(tracked[p]) \cup new
    BY <1>3, NowIs DEF Grown
  <1> HIDE DEF new
  <1>5. Sound(Now)'
    BY <1>1, <1>4, SetNow
  <1>6. BagTypeOK'
    <2>1. /\ cell' \in [DOMAIN cell' -> CellData] /\ IsFiniteSet(DOMAIN cell')
          /\ DOMAIN cell' \subseteq CellIds /\ DOMAIN tracked' \subseteq Players
          /\ tracked' \in [DOMAIN tracked' -> Seq(DOMAIN cell')]
      BY <1>1, <1>4 DEF Sound
    <2> QED
      BY <1>1, <1>4, <2>1 DEF BagIInv, BagTypeOK
  <1>7. Of(DOMAIN cell, p) # {} /\ tracked[p] # <<>> /\ p \notin melted
    <2>1. cells[1] \in Of(DOMAIN cell, p)
      BY <1>1, <1>2
    <2>2. ToSet(tracked[p]) # {}
      BY <1>1, <2>1 DEF BagIInv
    <2>3. tracked[p] # <<>>
      BY <2>2 DEF ToSet
    <2> QED
      BY <1>1, <2>1, <2>3 DEF BagIInv
  <1>8. \A q \in DOMAIN tracked' : /\ ToSet(tracked'[q]) = Of(DOMAIN cell', q)
                                   /\ tracked'[q] = <<>> <=> q \in melted'
    <2> SUFFICES ASSUME NEW q \in DOMAIN tracked'
                 PROVE  /\ ToSet(tracked'[q]) = Of(DOMAIN cell', q)
                        /\ tracked'[q] = <<>> <=> q \in melted'
      OBVIOUS
    <2>1. CASE q = p
      <3>1. ToSet(tracked'[p]) = Of(DOMAIN cell', p)
        BY <1>1, <1>4 DEF BagIInv, Of
      <3>2. ToSet(tracked'[p]) # {}
        BY <1>1, <1>4, <1>7 DEF BagIInv
      <3>3. tracked'[p] # <<>>
        BY <3>2 DEF ToSet
      <3> QED
        BY <1>1, <1>7, <2>1, <3>1, <3>3
    <2>2. CASE q # p
      BY <1>1, <1>4, <2>2 DEF BagIInv, Of
    <2> QED
      BY <2>1, <2>2
  <1>9. \A c \in DOMAIN cell' : c \in marked' <=> c[1] \notin DOMAIN tracked'
    BY <1>1, <1>4 DEF BagIInv, BagTypeOK
  <1>10. \A c \in DOMAIN cell' : c[1] \in players' \cup left'
    BY <1>1, <1>4 DEF BagIInv
  <1>11. /\ DOMAIN tracked' \subseteq players'
         /\ \A q \in players' : eaten'[q] = IF q \in DOMAIN tracked' THEN 0 ELSE 1
         /\ \A q \in Players \ (players' \cup left') : eaten'[q] = 0
         /\ melted' \subseteq players' \cup left' /\ players' \cap melted' \subseteq DOMAIN tracked'
    BY <1>1, <1>4 DEF BagIInv
  <1> QED
    BY <1>5, <1>6, <1>8, <1>9, <1>10, <1>11 DEF BagIInv

\* Other masses and timers change nothing else.
LEMMA MassesKeep ==
    ASSUME BagIInv, cell' \in [DOMAIN cell -> CellData], step' \in {"packets", "update"},
           UNCHANGED <<players, left, virus, marked, tracked, eaten, melted>>
    PROVE  BagIInv'
  <1>1. DOMAIN cell' = DOMAIN cell
    OBVIOUS
  <1>2. Sound(Now)'
    <2>1. Sound(Now)
      BY DEF BagIInv
    <2> QED
      BY <1>1, <2>1 DEF Sound, Now, Session
  <1>3. BagTypeOK'
    BY <1>1 DEF BagIInv, BagTypeOK
  <1> QED
    BY <1>1, <1>2, <1>3 DEF BagIInv

\* Ejecting leaves a cell some mass.
LEMMA EjectKeeps ==
    ASSUME BagIInv, NEW p \in Players, PlayerEjectMass(p)
    PROVE  BagIInv'
  <1>1. \A c \in DOMAIN cell : cell[c] \in CellData
    BY DEF BagIInv, BagTypeOK
  <1>2. \A c \in DOMAIN cell : cell[c].mass >= MinEject =>
           [cell[c] EXCEPT !.mass = @ - EjectCost] \in CellData
    BY <1>1, MassesLast DEF CellData
  <1>3. cell' \in [DOMAIN cell -> CellData]
    BY <1>1, <1>2 DEF PlayerEjectMass
  <1>4. step' \in {"packets", "update"}
    BY DEF PlayerEjectMass, BagIInv, BagTypeOK
  <1> QED
    BY <1>3, <1>4, MassesKeep DEF PlayerEjectMass

\* Timers and masses before the collisions
LEMMA MoveKeeps ==
    ASSUME BagIInv, Move
    PROVE  BagIInv'
  <1>1. cell \in [DOMAIN cell -> CellData] /\ \A c \in DOMAIN cell : cell[c] \in CellData
    BY DEF BagIInv, BagTypeOK
  <1>2. cell' \in [DOMAIN cell -> CellData]
    <2>1. CASE UNCHANGED cell
      BY <1>1, <2>1
    <2>2. ASSUME NEW c \in DOMAIN cell,
                 \/ ~cell[c].ready /\ cell' = [cell EXCEPT ![c].ready = TRUE]
                 \/ cell[c].mass > DecayThreshold /\ cell' = [cell EXCEPT ![c].mass = @ - 1]
                 \/ cell[c].mass < MaxMass /\ cell' = [cell EXCEPT ![c].mass = @ + 1]
          PROVE  cell' \in [DOMAIN cell -> CellData]
      <3> DEFINE d == cell[c]
      <3>1. d \in CellData /\ d.mass \in 1..MaxMass
        BY <1>1 DEF CellData
      <3>2. \E x \in CellData : cell' = [cell EXCEPT ![c] = x]
        <4> HIDE DEF d
        <4>1. [d EXCEPT !.ready = TRUE] \in CellData
          BY <3>1 DEF CellData
        <4>2. d.mass > DecayThreshold => [d EXCEPT !.mass = @ - 1] \in CellData
          BY <3>1, MassesLast DEF CellData
        <4>3. d.mass < MaxMass => [d EXCEPT !.mass = @ + 1] \in CellData
          BY <3>1, MassesLast DEF CellData
        <4> QED
          BY <2>2, <4>1, <4>2, <4>3 DEF d
      <3> QED
        BY <1>1, <3>2
    <2> QED
      BY <2>1, <2>2 DEF Move
  <1> QED
    BY <1>2, MassesKeep DEF Move

------------------------------------------------------------------------------
(* The tick keeps the invariant *)

HitEvents == [type : {"CELL_HIT_VIRUS"}, eater : DOMAIN cell, eaten : VirusIds]

\* The hits, in any order, are a list of events.
LEMMA HitsAreEvents ==
    ASSUME BagTypeOK, NEW on \in SUBSET Hits, NEW order \in SetToSeqs(on)
    PROVE  [i \in DOMAIN order |-> HitEvent(order[i])] \in Seq(HitEvents)
  <1> DEFINE n == Cardinality(on)
  <1>1. n \in Nat
    <2>1. IsFiniteSet(virus) /\ IsFiniteSet(DOMAIN cell)
      BY IdsDiffer, FS_Subset DEF BagTypeOK
    <2> DEFINE heavy == {c \in DOMAIN cell : cell[c].mass >= VirusSplitMass}
    <2>2. IsFiniteSet(heavy)
      BY <2>1, FS_Subset
    <2> HIDE DEF heavy
    <2>3. IsFiniteSet(heavy \X virus)
      BY ONLY <2>1, <2>2, FS_Product
    <2>4. Hits = heavy \X virus
      BY DEF Hits, heavy
    <2>5. IsFiniteSet(Hits)
      BY <2>3, <2>4
    <2>6. IsFiniteSet(on)
      BY <2>5, FS_Subset
    <2> QED
      BY <2>6, FS_CardinalityType
  <1>2. order \in [1..n -> on]
    BY DEF SetToSeqs
  <1>3. \A h \in on : HitEvent(h) \in HitEvents
    BY DEF Hits, HitEvent, HitEvents, BagTypeOK
  <1> HIDE DEF n
  <1> QED
    BY <1>1, <1>2, <1>3

\* What two lists, one after the other, have
LEMMA ConcatSet ==
    ASSUME NEW S, NEW x \in Seq(S), NEW y \in Seq(S)
    PROVE  x \o y \in Seq(S) /\ ToSet(x \o y) = ToSet(x) \cup ToSet(y)
  <1> DEFINE m == Len(x)
             n == Len(y)
             z == x \o y
  <1>1. /\ m \in Nat /\ n \in Nat /\ DOMAIN x = 1..m /\ DOMAIN y = 1..n
        /\ z \in Seq(S) /\ DOMAIN z = 1..m + n
        /\ \A i \in 1..m : z[i] = x[i]
        /\ \A i \in 1..m + n : i > m => z[i] = y[i - m]
    OBVIOUS
  <1> HIDE DEF m, n, z
  <1>2. \A i \in 1..n : z[m + i] = y[i] /\ m + i \in 1..m + n
    <2> SUFFICES ASSUME NEW i \in 1..n PROVE z[m + i] = y[i] /\ m + i \in 1..m + n
      OBVIOUS
    <2>1. m + i \in 1..m + n /\ m + i > m /\ (m + i) - m = i
      BY <1>1
    <2> QED
      BY <1>1, <2>1
  <1>3. ToSet(x) \cup ToSet(y) \subseteq ToSet(z)
    <2>1. \A i \in 1..m : x[i] \in ToSet(z)
      <3>1. \A i \in 1..m : i \in 1..m + n
        BY <1>1
      <3> QED
        BY <1>1, <3>1 DEF ToSet
    <2>2. \A i \in 1..n : y[i] \in ToSet(z)
      BY <1>1, <1>2 DEF ToSet
    <2> QED
      BY <1>1, <2>1, <2>2 DEF ToSet
  <1>4. ToSet(z) \subseteq ToSet(x) \cup ToSet(y)
    <2> SUFFICES ASSUME NEW i \in 1..m + n PROVE z[i] \in ToSet(x) \cup ToSet(y)
      BY <1>1 DEF ToSet
    <2>1. CASE i > m
      <3>1. i - m \in 1..n
        BY <1>1, <2>1
      <3> QED
        BY <1>1, <2>1, <3>1 DEF ToSet
    <2>2. CASE ~(i > m)
      <3>1. i \in 1..m
        BY <1>1, <2>2
      <3> QED
        BY <1>1, <3>1 DEF ToSet
    <2> QED
      BY <2>1, <2>2
  <1> QED
    BY <1>1, <1>3, <1>4 DEF z

\* The cells that a scan costs, and the players that lose one to another
Lost(t) == {e.eaten : e \in ToSet(t.events)}
Victims(t) == {p \in Players : \E i \in DOMAIN t.events : /\ t.events[i].type = "CELL_ATE_CELL"
                                                          /\ t.events[i].eaten[1] = p}

\* The session in which handling starts
Begun(t) == Session(t.cell, tracked, t.marked, eaten)

\* Before the first event nothing is lost, and what will be is marked.
LEMMA BegunIs ==
    ASSUME BagIInv, NEW t, Scanned(t)
    PROVE  /\ DOMAIN Begun(t).cell = DOMAIN cell /\ Begun(t).tracked = tracked
           /\ Begun(t).marked = marked \cup Lost(t) /\ Begun(t).eaten = eaten
           /\ Lost(t) \subseteq DOMAIN cell
           /\ Handling(Begun(t), Begun(t), {}, Victims(t))
  <1> DEFINE s == Begun(t)
  <1>1. /\ s = [cell |-> s.cell, tracked |-> s.tracked, marked |-> s.marked, eaten |-> s.eaten]
        /\ s.cell = t.cell /\ s.tracked = tracked /\ s.marked = marked \cup Lost(t)
        /\ s.eaten = eaten
    BY DEF Begun, Session, Scanned, Lost
  <1> HIDE DEF s
  <1>2. DOMAIN s.cell = DOMAIN cell /\ s.cell \in [DOMAIN cell -> CellData]
    BY <1>1 DEF Scanned
  <1>3. Sound(s)
    <2>1. Sound(Now)
      BY DEF BagIInv
    <2> QED
      BY <1>1, <1>2, <2>1, NowIs DEF Sound
  <1>4. Lost(t) \subseteq DOMAIN cell
    <2>1. \A e \in ToSet(t.events) : e \in LossEvents
      BY DEF Scanned, ToSet
    <2> QED
      BY <2>1 DEF Lost, LossEvents
  <1>5. eaten \in [Players -> Nat] /\ \A p \in Players : eaten[p] = eaten[p] + 0
    BY DEF BagIInv, BagTypeOK
  <1>6. /\ \A p \in DOMAIN tracked : ToSet(tracked[p]) = Of(DOMAIN cell, p) \ {}
        /\ \A c \in DOMAIN cell : c[1] \notin DOMAIN tracked => c \in marked
        /\ \A c \in DOMAIN cell : Of(DOMAIN cell, c[1]) # {}
    BY DEF BagIInv, Of
  <1>7. Handling(s, s, {}, Victims(t))
    BY <1>1, <1>2, <1>3, <1>5, <1>6 DEF Handling
  <1> QED
    BY <1>1, <1>2, <1>4, <1>7 DEF s

\* The hits and the scan's events make up a tick.
LEMMA TickIs ==
    ASSUME BagIInv, NEW t, Scanned(t), NEW hits \in Seq(HitEvents)
    PROVE  LET evs == hits \o t.events
           IN  /\ IsTick(Begun(t), evs)
               /\ Costs(evs, Len(evs)) = Lost(t) /\ Eaten(evs, Len(evs)) = Victims(t)
  <1> DEFINE evs == hits \o t.events
             n == Len(evs)
             E == HitEvents \cup LossEvents
  <1>1. evs \in Seq(E) /\ ToSet(evs) = ToSet(hits) \cup ToSet(t.events)
    <2>1. hits \in Seq(E) /\ t.events \in Seq(E)
      BY DEF Scanned
    <2> QED
      BY <2>1, ConcatSet
  <1>2. ToSet(hits) \subseteq HitEvents /\ ToSet(t.events) \subseteq LossEvents
    BY DEF Scanned, ToSet
  <1> HIDE DEF evs, E
  <1>3. /\ n \in Nat /\ DOMAIN evs = 1..n /\ \A i \in 1..n : evs[i] \in ToSet(evs)
        /\ \A e \in ToSet(evs) : \E i \in 1..n : evs[i] = e
    BY <1>1 DEF ToSet
  <1> HIDE DEF n
  <1>4. \A e \in HitEvents : IsEvent(DOMAIN cell, e) /\ Cost(e) = {} /\ e.type # "CELL_ATE_CELL"
    BY DEF HitEvents, IsEvent, Cost
  <1>5. \A e \in LossEvents : IsEvent(DOMAIN cell, e) /\ Cost(e) = {e.eaten}
    BY DEF LossEvents, IsEvent, Cost
  <1>6. Costs(evs, n) = Lost(t)
    <2>1. Costs(evs, n) = UNION {Cost(e) : e \in ToSet(evs)}
      BY <1>3 DEF Costs
    <2>2. \A e \in ToSet(hits) : Cost(e) = {}
      BY <1>2, <1>4
    <2>3. \A e \in ToSet(t.events) : Cost(e) = {e.eaten}
      BY <1>2, <1>5
    <2> QED
      BY <1>1, <2>1, <2>2, <2>3 DEF Lost
  <1>7. Eaten(evs, n) = Victims(t)
    <2>1. Eaten(evs, n) = {p \in Players : \E e \in ToSet(evs) :
                              e.type = "CELL_ATE_CELL" /\ e.eaten[1] = p}
      BY <1>3 DEF Eaten
    <2>2. Victims(t) = {p \in Players : \E e \in ToSet(t.events) :
                           e.type = "CELL_ATE_CELL" /\ e.eaten[1] = p}
      BY DEF Victims, ToSet
    <2>3. \A e \in ToSet(hits) : e.type # "CELL_ATE_CELL"
      BY <1>2, <1>4
    <2> QED
      BY <1>1, <2>1, <2>2, <2>3
  <1>8. IsTick(Begun(t), evs)
    <2>1. \A i \in 1..n : IsEvent(DOMAIN cell, evs[i])
      BY <1>1, <1>2, <1>3, <1>4, <1>5
    <2>2. /\ DOMAIN cell \subseteq CellIds /\ DOMAIN tracked \subseteq players
          /\ players \subseteq Players
      BY DEF BagIInv, BagTypeOK
    <2> QED
      BY <1>3, <1>6, <2>1, <2>2, BegunIs DEF IsTick, n
  <1> QED
    BY <1>6, <1>7, <1>8 DEF evs, n

\* What both handlings of the events of a tick leave
LEMMA TwiceHandled ==
    ASSUME BagIInv, NEW t, Scanned(t), NEW hits \in Seq(HitEvents)
    PROVE  LET end == Reported(t, hits \o t.events)
           IN  /\ Handling(Begun(t), end, Lost(t), Victims(t))
               /\ \A p \in Victims(t) \cap DOMAIN end.tracked : Of(DOMAIN end.cell, p) \ Lost(t) # {}
  <1> DEFINE evs == hits \o t.events
             s == Begun(t)
             once == HandleEvents(s, evs)
  <1>1. /\ IsTick(s, evs) /\ Costs(evs, Len(evs)) = Lost(t)
        /\ Eaten(evs, Len(evs)) = Victims(t)
    BY TickIs
  <1>2. Handling(s, s, {}, Victims(t))
    BY BegunIs
  <1>3. Reported(t, evs) = HandleEvents(once, evs)
    BY DEF Reported, Collided, Begun
  <1> HIDE DEF evs, s
  <1>4. Handling(s, once, Lost(t), Victims(t))
    <2>1. Handling(s, once, {} \cup Lost(t), Victims(t))
      BY <1>1, <1>2, HandleAll
    <2>2. {} \cup Lost(t) = Lost(t)
      OBVIOUS
    <2> QED
      BY <2>1, <2>2
  <1> HIDE DEF once
  <1>5. LET end == HandleEvents(once, evs)
        IN  /\ Handling(s, end, Lost(t), Victims(t))
            /\ \A p \in Victims(t) \cap DOMAIN end.tracked : Of(DOMAIN end.cell, p) \ Lost(t) # {}
    BY <1>1, <1>4, SecondTime
  <1> QED
    BY <1>3, <1>5 DEF evs, s

\* What lives on then are the listed cells.
LEMMA SurvivorsAre ==
    ASSUME BagIInv, NEW t, Scanned(t), NEW end, Handling(Begun(t), end, Lost(t), Victims(t))
    PROVE  /\ \A p \in DOMAIN end.tracked :
                 /\ Of(Survivors(end), p) = Of(DOMAIN end.cell, p) \ Lost(t)
                 /\ ToSet(end.tracked[p]) = Of(Survivors(end), p)
           /\ \A c \in Survivors(end) : c[1] \in DOMAIN end.tracked
  <1> DEFINE s == Begun(t)
  <1>1. /\ s.marked = marked \cup Lost(t) /\ s.tracked = tracked
    BY BegunIs
  <1>2. /\ s.marked \subseteq end.marked /\ end.marked \subseteq s.marked \cup VirusIds
        /\ DOMAIN end.tracked \subseteq DOMAIN s.tracked /\ DOMAIN end.cell \subseteq CellIds
        /\ \A c \in DOMAIN end.cell : c[1] \notin DOMAIN end.tracked => c \in s.marked
        /\ \A p \in DOMAIN end.tracked : ToSet(end.tracked[p]) = Of(DOMAIN end.cell, p) \ Lost(t)
    BY DEF Handling, Sound
  <1> HIDE DEF s
  <1>3. \A c \in marked : c[1] \notin DOMAIN tracked
    BY DEF BagIInv, BagTypeOK
  <1>4. \A c \in DOMAIN end.cell : c \in end.marked <=> c \in marked \cup Lost(t)
    BY <1>1, <1>2, IdsDiffer
  <1>5. \A p \in DOMAIN end.tracked :
           Of(Survivors(end), p) = Of(DOMAIN end.cell, p) \ Lost(t)
    BY <1>1, <1>2, <1>3, <1>4 DEF Of, Survivors
  <1>6. \A c \in Survivors(end) : c[1] \in DOMAIN end.tracked
    BY <1>2 DEF Survivors
  <1> QED
    BY <1>2, <1>5, <1>6

\* Both handlings and the kill
LEMMA UpdateKeeps ==
    ASSUME BagIInv, Update
    PROVE  BagIInv'
  <1> DEFINE Ends(t, order) ==
                LET hits == [i \in DOMAIN order |-> HitEvent(order[i])]
                    end == Reported(t, hits \o t.events)
                IN  /\ SetTo(Killed(end)) /\ eaten' = end.eaten
                    /\ melted' = melted \cup Melting(t)
                    /\ virus' \subseteq VirusIds
  <1>0. PICK t \in Scans, on \in SUBSET Hits : \E order \in SetToSeqs(on) : Ends(t, order)
    <2>1. virus \subseteq VirusIds
      BY DEF BagIInv, BagTypeOK
    <2>2. PICK t \in Scans, on \in {h \in SUBSET Hits : Cardinality(h) <= MaxHits} :
             \E order \in SetToSeqs(on) : Ends(t, order)
      BY <2>1 DEF Update
    <2> HIDE DEF Ends
    <2>3. on \in SUBSET Hits
      OBVIOUS
    <2> QED
      BY <2>2, <2>3
  <1>1. PICK order \in SetToSeqs(on) : Ends(t, order)
    BY <1>0
  <1> DEFINE hits == [i \in DOMAIN order |-> HitEvent(order[i])]
             end == Reported(t, hits \o t.events)
             k == Killed(end)
             s == Begun(t)
  <1>2. hits \in Seq(HitEvents)
    BY HitsAreEvents DEF BagIInv
  <1>3. /\ cell' = k.cell /\ tracked' = k.tracked /\ eaten' = end.eaten
        /\ melted' = melted \cup Melting(t) /\ virus' \subseteq VirusIds
        /\ step' = "packets" /\ marked' = {} /\ players' = players /\ left' = left
    BY <1>1 DEF SetTo, Update
  <1>4. Scanned(t)
    BY ScansAreScanned DEF BagIInv
  <1> HIDE DEF hits, Ends
  <1>5. /\ Handling(s, end, Lost(t), Victims(t))
        /\ \A p \in Victims(t) \cap DOMAIN end.tracked : Of(DOMAIN end.cell, p) \ Lost(t) # {}
    BY <1>2, <1>4, TwiceHandled
  <1> HIDE DEF end
  <1>6. /\ \A p \in DOMAIN end.tracked :
              /\ Of(Survivors(end), p) = Of(DOMAIN end.cell, p) \ Lost(t)
              /\ ToSet(end.tracked[p]) = Of(Survivors(end), p)
        /\ \A c \in Survivors(end) : c[1] \in DOMAIN end.tracked
    BY <1>4, <1>5, SurvivorsAre
  <1>7. Sound(end) /\ end.eaten \in [Players -> Nat]
    BY <1>5 DEF Handling
  <1>8. /\ IsFiniteSet(DOMAIN k.cell) /\ DOMAIN k.cell \subseteq CellIds
        /\ k.cell \in [DOMAIN k.cell -> CellData]
        /\ DOMAIN k.tracked = DOMAIN end.tracked
        /\ \A c \in DOMAIN k.cell : Of(Survivors(end), c[1]) # {}
        /\ \A p \in DOMAIN end.tracked :
              /\ k.tracked[p] \in Seq(DOMAIN k.cell) /\ IsInjective(k.tracked[p])
              /\ Len(k.tracked[p]) = Len(end.tracked[p])
              /\ ToSet(k.tracked[p]) = Of(DOMAIN k.cell, p)
    BY <1>6, <1>7, Killing
  <1>9. k.tracked = [p \in DOMAIN end.tracked |-> k.tracked[p]]
    BY DEF Killed
  <1>10. /\ DOMAIN s.cell = DOMAIN cell /\ s.tracked = tracked /\ s.eaten = eaten
         /\ Lost(t) \subseteq DOMAIN cell
    BY <1>4, BegunIs
  <1> HIDE DEF k, s
  <1>11. /\ DOMAIN end.tracked \subseteq DOMAIN tracked
         /\ DOMAIN tracked \ DOMAIN end.tracked \subseteq Victims(t)
         /\ \A c \in DOMAIN end.cell : Of(DOMAIN cell, c[1]) # {}
         /\ \A p \in Players : end.eaten[p] =
               eaten[p] + IF p \in DOMAIN tracked \ DOMAIN end.tracked THEN 1 ELSE 0
    BY <1>5, <1>10 DEF Handling
  <1>12. /\ DOMAIN tracked' = DOMAIN end.tracked /\ DOMAIN tracked \subseteq players
         /\ players \subseteq Players
    BY <1>3, <1>8 DEF BagIInv, BagTypeOK
  <1>13. Sound(Now)' /\ BagTypeOK'
    <2>1. /\ DOMAIN tracked' \subseteq Players /\ IsFiniteSet(DOMAIN cell')
          /\ DOMAIN cell' \subseteq CellIds /\ cell' \in [DOMAIN cell' -> CellData]
          /\ tracked' \in [DOMAIN tracked' -> Seq(DOMAIN cell')]
      BY <1>3, <1>8, <1>9, <1>11, <1>12
    <2>2. \A p \in DOMAIN tracked' :
             /\ IsInjective(tracked'[p]) /\ Len(tracked'[p]) <= MaxCells
             /\ \A c \in ToSet(tracked'[p]) : c[1] = p
      BY <1>3, <1>7, <1>8 DEF Sound, Of
    <2>3. Sound(Now)'
      BY <2>1, <2>2 DEF Sound, Now, Session
    <2>4. melted' \subseteq Players
      BY <1>3 DEF BagIInv, BagTypeOK, Melting
    <2> QED
      BY <1>3, <1>7, <2>1, <2>3, <2>4 DEF BagIInv, BagTypeOK
  <1>14. \A p \in DOMAIN tracked' : ToSet(tracked'[p]) = Of(DOMAIN cell', p)
    BY <1>3, <1>8
  <1>15. \A c \in DOMAIN cell' : c[1] \in DOMAIN tracked'
    BY <1>3, <1>6, <1>8 DEF Of
  <1>16. Melting(t) = {p \in Players : /\ Of(Alive, p) # {} /\ Of(DOMAIN cell', p) = {}
                                       /\ p \notin Victims(t)}
    BY DEF Melting, Victims
  <1>17. \A p \in DOMAIN tracked : /\ Of(Alive, p) = Of(DOMAIN cell, p)
                                   /\ ToSet(tracked[p]) = Of(DOMAIN cell, p)
                                   /\ tracked[p] = <<>> <=> Of(DOMAIN cell, p) = {}
                                   /\ tracked[p] = <<>> <=> p \in melted
    <2> SUFFICES ASSUME NEW p \in DOMAIN tracked
                 PROVE  /\ Of(Alive, p) = Of(DOMAIN cell, p)
                        /\ ToSet(tracked[p]) = Of(DOMAIN cell, p)
                        /\ tracked[p] = <<>> <=> Of(DOMAIN cell, p) = {}
                        /\ tracked[p] = <<>> <=> p \in melted
      OBVIOUS
    <2>1. tracked[p] \in Seq(DOMAIN cell)
      BY DEF BagIInv, BagTypeOK
    <2>2. Of(Alive, p) = Of(DOMAIN cell, p)
      BY DEF BagIInv, Alive, Of
    <2> QED
      BY <2>1, <2>2, ListsNobody DEF BagIInv
  <1>18. \A p \in DOMAIN tracked' : tracked'[p] = <<>> <=> p \in melted'
    <2> SUFFICES ASSUME NEW p \in DOMAIN tracked' PROVE tracked'[p] = <<>> <=> p \in melted'
      OBVIOUS
    <2>1. p \in DOMAIN tracked /\ p \in DOMAIN end.tracked /\ p \in Players
      BY <1>11, <1>12
    <2>2. tracked'[p] = <<>> <=> Of(DOMAIN cell', p) = {}
      <3>1. tracked'[p] \in Seq(DOMAIN cell')
        BY <1>13 DEF BagTypeOK
      <3> QED
        BY <1>14, <3>1, ListsNobody
    <2>3. ASSUME Of(DOMAIN cell', p) = {} PROVE p \in melted'
      <3>1. Len(k.tracked[p]) = 0
        BY <1>3, <2>2, <2>3
      <3>2. end.tracked[p] = <<>>
        BY <1>7, <1>8, <2>1, <3>1 DEF Sound
      <3>3. p \notin Victims(t)
        BY <1>5, <1>6, <2>1, <3>2 DEF ToSet
      <3> QED
        BY <1>3, <1>16, <1>17, <2>1, <2>3, <3>3
    <2>4. ASSUME p \in melted PROVE Of(DOMAIN cell', p) = {}
      <3>1. Of(DOMAIN cell, p) = {}
        BY <1>17, <2>1, <2>4
      <3>2. Of(Survivors(end), p) = {}
        BY <1>11, <3>1 DEF Of, Survivors
      <3> QED
        BY <1>3, <1>8, <3>2 DEF Of
    <2> QED
      BY <1>3, <1>16, <2>2, <2>3, <2>4
  <1>19. players' \cap melted' \subseteq DOMAIN tracked'
    <2> SUFFICES ASSUME NEW p \in players, p \in melted' PROVE p \in DOMAIN tracked'
      BY <1>3
    <2>1. CASE p \in melted
      <3>1. p \in DOMAIN tracked /\ Of(DOMAIN cell, p) = {}
        BY <1>17, <2>1 DEF BagIInv
      <3>2. p \notin Victims(t)
        <4>1. \A i \in DOMAIN t.events : t.events[i].eaten \in Lost(t)
          BY DEF Lost, ToSet
        <4> QED
          BY <1>10, <3>1, <4>1 DEF Victims, Of
      <3> QED
        BY <1>11, <1>12, <3>1, <3>2
    <2>2. CASE p \in Melting(t)
      <3>1. p \notin Victims(t) /\ Of(Alive, p) # {}
        BY <1>16, <2>2
      <3>2. p \in DOMAIN tracked
        BY <3>1 DEF BagIInv, Alive, Of
      <3> QED
        BY <1>11, <1>12, <3>1, <3>2
    <2> QED
      BY <1>3, <2>1, <2>2
  <1>20. melted' \subseteq players' \cup left'
    BY <1>3, <1>16 DEF BagIInv, Alive, Of
  <1>21. /\ \A p \in players' : eaten'[p] = IF p \in DOMAIN tracked' THEN 0 ELSE 1
         /\ \A p \in Players \ (players' \cup left') : eaten'[p] = 0
    BY <1>3, <1>11, <1>12 DEF BagIInv
  <1>22. /\ DOMAIN tracked' \subseteq players'
         /\ \A c \in DOMAIN cell' : c[1] \in players' \cup left'
         /\ \A c \in DOMAIN cell' : c \in marked' <=> c[1] \notin DOMAIN tracked'
    BY <1>3, <1>11, <1>12, <1>15
  <1> QED
    BY <1>13, <1>14, <1>18, <1>19, <1>20, <1>21, <1>22 DEF BagIInv

------------------------------------------------------------------------------
(* Every behaviour *)

\* The invariant holds in the empty session.
LEMMA BagIInvInit ==
    BagInit => BagIInv
  <1> SUFFICES ASSUME BagInit PROVE BagIInv
    OBVIOUS
  <1>1. /\ cell = <<>> /\ tracked = <<>> /\ DOMAIN cell = {} /\ DOMAIN tracked = {}
        /\ marked = {} /\ melted = {} /\ players = {} /\ left = {}
    BY DEF BagInit
  <1>2. IsFiniteSet(DOMAIN cell)
    BY <1>1, FS_EmptySet
  <1>3. BagTypeOK
    BY <1>1, <1>2 DEF BagInit, BagTypeOK
  <1>4. Sound(Now)
    BY <1>1, <1>3 DEF Sound, Now, Session, BagTypeOK
  <1> QED
    BY <1>1, <1>3, <1>4 DEF BagInit, BagIInv

\* Every step keeps it.
LEMMA BagIInvStep ==
    BagIInv /\ [BagNext]_bagVars => BagIInv'
  <1> SUFFICES ASSUME BagIInv, [BagNext]_bagVars PROVE BagIInv'
    OBVIOUS
  <1>1. ASSUME NEW p \in Players, Join(p) PROVE BagIInv'
    BY <1>1, JoinKeeps
  <1>2. ASSUME NEW p \in Players, Leave(p) PROVE BagIInv'
    BY <1>2, LeaveKeeps
  <1>3. ASSUME NEW p \in Players, PlayerSplit(p) PROVE BagIInv'
    BY <1>3, SplitKeeps
  <1>4. ASSUME NEW p \in Players, PlayerEjectMass(p) PROVE BagIInv'
    BY <1>4, EjectKeeps
  <1>5. CASE Move
    BY <1>5, MoveKeeps
  <1>6. CASE Update
    BY <1>6, UpdateKeeps
  <1>7. CASE UNCHANGED bagVars
    <2>1. /\ step' = step /\ players' = players /\ left' = left /\ cell' = cell
          /\ virus' = virus /\ marked' = marked /\ tracked' = tracked /\ eaten' = eaten
          /\ melted' = melted
      BY <1>7 DEF bagVars
    <2>2. cell' \in [DOMAIN cell -> CellData] /\ step' \in {"packets", "update"}
      BY <2>1 DEF BagIInv, BagTypeOK
    <2> QED
      BY <2>1, <2>2, MassesKeep
  <1> QED
    BY <1>1, <1>2, <1>3, <1>4, <1>5, <1>6, <1>7 DEF BagNext

\* So it always holds.
LEMMA AlwaysBagIInv == BagSpec => []BagIInv
  <1> QED
    BY BagIInvInit, BagIInvStep, PTL DEF BagSpec

(* Whatever players do, in whatever order cells meet and whatever they hit, *)
(* BagarioSession's maps, lists and registry keep their types.              *)
THEOREM BagTypeCorrect == BagSpec => []BagTypeOK
  <1>1. BagIInv => BagTypeOK
    BY DEF BagIInv
  <1> QED
    BY <1>1, AlwaysBagIInv, PTL

(* For any number of players, cells and viruses, m_player_cells lists the    *)
(* living cells of the players in it, and there is no other living cell.     *)
THEOREM TrackedAgreeHolds == BagSpec => []TrackedAgree
  <1>1. BagIInv => TrackedAgree
    <2> SUFFICES ASSUME BagIInv PROVE TrackedAgree
      OBVIOUS
    <2>1. \A p \in DOMAIN tracked : Of(Alive, p) = Of(DOMAIN cell, p)
      BY DEF BagIInv, Alive, Of
    <2>2. \A p \in DOMAIN tracked : IsInjective(tracked[p]) /\ ToSet(tracked[p]) = Of(Alive, p)
      BY <2>1, NowIs DEF BagIInv, Sound
    <2>3. \A c \in Alive : c[1] \in DOMAIN tracked
      BY DEF BagIInv, Alive
    <2> QED
      BY <2>2, <2>3 DEF TrackedAgree
  <1> QED
    BY <1>1, AlwaysBagIInv, PTL

(* Who plays was told that it was eaten once if it has no cell left, unless  *)
(* its last cells merged, and not at all if it has one.                      *)
THEOREM EatenOnceHolds == BagSpec => []EatenOnce
  <1>1. BagIInv => EatenOnce
    <2> SUFFICES ASSUME BagIInv, NEW p \in players
                 PROVE  eaten[p] = IF Of(Alive, p) # {} \/ p \in melted THEN 0 ELSE 1
      BY DEF EatenOnce
    <2>1. eaten[p] = IF p \in DOMAIN tracked THEN 0 ELSE 1
      BY DEF BagIInv
    <2>2. CASE p \in DOMAIN tracked
      <3>1. Of(Alive, p) = Of(DOMAIN cell, p) /\ ToSet(tracked[p]) = Of(DOMAIN cell, p)
        BY <2>2 DEF BagIInv, Alive, Of
      <3>2. tracked[p] \in Seq(DOMAIN cell)
        BY <2>2 DEF BagIInv, BagTypeOK
      <3>3. Of(Alive, p) = {} <=> tracked[p] = <<>>
        BY <3>1, <3>2, ListsNobody
      <3>4. tracked[p] = <<>> => p \in melted
        BY <2>2 DEF BagIInv
      <3> QED
        BY <2>1, <2>2, <3>3, <3>4
    <2>3. CASE p \notin DOMAIN tracked
      <3>1. Of(Alive, p) = {} /\ p \notin melted
        BY <2>3 DEF BagIInv, Alive, Of
      <3> QED
        BY <2>1, <2>3, <3>1
    <2> QED
      BY <2>2, <2>3
  <1> QED
    BY <1>1, AlwaysBagIInv, PTL

(* For any MAX_CELLS_PER_PLAYER and any number of pieces of a virus, no      *)
(* player has more living cells than the limit.                              *)
THEOREM CellLimitHolds == BagSpec => []CellLimit
  <1>1. BagIInv => CellLimit
    <2> SUFFICES ASSUME BagIInv, NEW p \in Players
                 PROVE  Cardinality(Of(Alive, p)) <= MaxCells
      BY DEF CellLimit
    <2>1. CASE p \in DOMAIN tracked
      <3> DEFINE q == tracked[p]
                 n == Len(q)
                 C == Of(Alive, p)
      <3>1. C = Of(DOMAIN cell, p)
        BY <2>1 DEF BagIInv, Alive, Of
      <3>2. ToSet(q) = C
        BY <2>1, <3>1 DEF BagIInv
      <3>3. q \in Seq(DOMAIN cell) /\ n \in Nat /\ n <= MaxCells
        BY <2>1, NowIs DEF BagIInv, Sound
      <3> HIDE DEF C
      <3>4. q \in Surjection(1..n, C)
        BY <3>2, <3>3 DEF ToSet, Surjection
      <3>5. ExistsSurjection(1..n, C)
        BY <3>4 DEF ExistsSurjection
      <3> HIDE DEF q, n
      <3>6. Cardinality(C) <= n
        BY <3>3, <3>5, FS_SurjCardinalityBound
      <3>7. Cardinality(C) \in Nat
        <4>1. IsFiniteSet(C)
          BY FS_Subset DEF C, Of, Alive, BagIInv, BagTypeOK
        <4> QED
          BY <4>1, FS_CardinalityType
      <3> QED
        BY <3>3, <3>6, <3>7, RoomForAll DEF C
    <2>2. CASE p \notin DOMAIN tracked
      <3>1. Of(Alive, p) = {}
        BY <2>2 DEF BagIInv, Alive, Of
      <3> QED
        BY <3>1, FS_EmptySet, RoomForAll
    <2> QED
      BY <2>1, <2>2
  <1> QED
    BY <1>1, AlwaysBagIInv, PTL

==============================================================================
