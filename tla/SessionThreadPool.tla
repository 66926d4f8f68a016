-------------------------- MODULE SessionThreadPool --------------------------
(***************************************************************************)
(* The threads of the R-Type server that run game sessions: the main       *)
(* thread of Server::run, which schedules one batch of session updates per *)
(* tick and waits for it (GameSessionManager::update_all), erases the      *)
(* sessions that ended (cleanup_inactive_sessions) and finally destroys    *)
(* the pool; and the workers of SessionThreadPool::worker_loop.            *)
(*                                                                         *)
(* One action is one access to a shared atomic, or one critical section    *)
(* that no other thread can see inside.  A std::condition_variable wait is *)
(* three steps: evaluate the predicate with the mutex held, release the    *)
(* mutex and sleep (one atomic step, as the standard requires), re-acquire *)
(* after a notification or a spurious wakeup.                              *)
(***************************************************************************)
EXTENDS Naturals, FiniteSets

CONSTANTS
    Workers,    \* the threads of workers_
    Sessions,   \* slots of sessions_; a slot stands for a fresh id when reused
    NoSession,  \* a worker's empty SessionTask
    Main,       \* the main thread, as the owner of a mutex
    Free        \* nobody owns the mutex

ASSUME WorkersAssumption == IsFiniteSet(Workers) /\ Workers # {}
ASSUME SessionsAssumption == IsFiniteSet(Sessions) /\ NoSession \notin Sessions
ASSUME OwnersAssumption == Main \notin Workers /\ Free \notin Workers /\ Main # Free

VARIABLES
    mpc,        \* where the main thread is
    wpc,        \* where each worker is
    tasks,      \* the batch update_all collected
    queue,      \* task_queue_
    qmutex,     \* owner of queue_mutex_
    cmutex,     \* owner of completion_mutex_
    pending,    \* tasks_pending_
    completed,  \* tasks_completed_
    shutdown,   \* shutdown_
    job,        \* each worker's local task
    seen,       \* each worker's local completed, the value fetch_add gave it
    sess,       \* sessions_, with each session's is_active_
    updated     \* history: sessions of this batch whose update() returned

mainVars == <<mpc, tasks>>
workerVars == <<wpc, job, seen>>
counters == <<pending, completed>>
vars == <<mpc, wpc, tasks, queue, qmutex, cmutex, pending, completed,
          shutdown, job, seen, sess, updated>>

MainPC == {"serial", "reset", "setPending", "push", "notify", "wait",
           "evaluate", "block", "asleep", "cleanup", "stopNotify", "join", "joined"}
WorkerPC == {"top", "lock", "check", "block", "asleep", "take", "run",
             "count", "compare", "signal", "exit"}

TypeOK ==
    /\ mpc \in MainPC
    /\ wpc \in [Workers -> WorkerPC]
    /\ tasks \subseteq Sessions
    /\ queue \subseteq Sessions
    /\ qmutex \in Workers \cup {Free}
    /\ cmutex \in {Main, Free}
    /\ pending \in Nat
    /\ completed \in Nat
    /\ shutdown \in BOOLEAN
    /\ job \in [Workers -> Sessions \cup {NoSession}]
    /\ \A w \in Workers : wpc[w] \in {"run", "count"} => job[w] # NoSession
    /\ seen \in [Workers -> Nat]
    /\ sess \in [Sessions -> {"none", "active", "inactive"}]
    /\ updated \subseteq Sessions

Init ==
    /\ mpc = "serial"
    /\ wpc = [w \in Workers |-> "top"]
    /\ tasks = {}
    /\ queue = {}
    /\ qmutex = Free
    /\ cmutex = Free
    /\ pending = 0
    /\ completed = 0
    /\ shutdown = FALSE
    /\ job = [w \in Workers |-> NoSession]
    /\ seen = [w \in Workers |-> 0]
    /\ sess = [s \in Sessions |-> "none"]
    /\ updated = {}

------------------------------------------------------------------------------
(* The main thread                                                         *)

\* on_game_start -> create_session, while packets and countdowns are processed
CreateSession(s) ==
    /\ mpc = "serial"
    /\ sess[s] = "none"
    /\ sess' = [sess EXCEPT ![s] = "active"]
    /\ UNCHANGED <<mainVars, workerVars, queue, qmutex, cmutex, counters, shutdown, updated>>

\* remove_player -> check_game_over found nobody left to play
EndSession(s) ==
    /\ mpc = "serial"
    /\ sess[s] = "active"
    /\ sess' = [sess EXCEPT ![s] = "inactive"]
    /\ UNCHANGED <<mainVars, workerVars, queue, qmutex, cmutex, counters, shutdown, updated>>

Active == {s \in Sessions : sess[s] = "active"}

\* mutant of CollectTasks: is_active is not tested
CollectTasks_All ==
    /\ mpc = "serial"
    /\ tasks' = {s \in Sessions : sess[s] # "none"}
    /\ mpc' = IF tasks' = {} THEN "cleanup" ELSE "reset"
    /\ updated' = {}
    /\ UNCHANGED <<workerVars, queue, qmutex, cmutex, counters, shutdown, sess>>

\* update_all: raw pointers to the active sessions; nothing to schedule, no wait
CollectTasks ==
    /\ mpc = "serial"
    /\ tasks' = Active
    /\ mpc' = IF Active = {} THEN "cleanup" ELSE "reset"
    /\ updated' = {}
    /\ UNCHANGED <<workerVars, queue, qmutex, cmutex, counters, shutdown, sess>>

\* mutant of ResetCompleted: the last batch's count is kept
ResetCompleted_Kept ==
    /\ mpc = "reset"
    /\ mpc' = "setPending"
    /\ UNCHANGED <<workerVars, tasks, queue, qmutex, cmutex, counters, shutdown, sess, updated>>

ResetCompleted ==
    /\ mpc = "reset"
    /\ completed' = 0
    /\ mpc' = "setPending"
    /\ UNCHANGED <<workerVars, tasks, queue, qmutex, cmutex, pending, shutdown, sess, updated>>

SetPending ==
    /\ mpc = "setPending"
    /\ pending' = Cardinality(tasks)
    /\ mpc' = "push"
    /\ UNCHANGED <<workerVars, tasks, queue, qmutex, cmutex, completed, shutdown, sess, updated>>

\* The order of sessions_ (an unordered_map) is arbitrary and the queue is
\* empty here (BarrierHolds), so the queue is a set popped in any order.
PushTasks ==
    /\ mpc = "push"
    /\ qmutex = Free
    /\ queue' = queue \cup tasks
    /\ mpc' = "notify"
    /\ UNCHANGED <<workerVars, tasks, qmutex, cmutex, counters, shutdown, sess, updated>>

\* task_cv_.notify_all(): every worker asleep competes for queue_mutex_ again
WakeWorkers == wpc' = [w \in Workers |-> IF wpc[w] = "asleep" THEN "lock" ELSE wpc[w]]

NotifyBatch ==
    /\ mpc = "notify"
    /\ WakeWorkers
    /\ mpc' = "wait"
    /\ UNCHANGED <<tasks, queue, qmutex, cmutex, counters, shutdown, job, seen, sess, updated>>

\* wait_for_completion
LockCompletion ==
    /\ mpc = "wait"
    /\ cmutex = Free
    /\ cmutex' = Main
    /\ mpc' = "evaluate"
    /\ UNCHANGED <<workerVars, tasks, queue, qmutex, counters, shutdown, sess, updated>>

\* mutant of EvaluateCompletion: waits for an empty queue, not for the count
EvaluateCompletion_Queue ==
    /\ mpc = "evaluate"
    /\ \/ queue = {} /\ cmutex' = Free /\ mpc' = "cleanup"
       \/ queue # {} /\ mpc' = "block" /\ UNCHANGED cmutex
    /\ UNCHANGED <<workerVars, tasks, queue, qmutex, counters, shutdown, sess, updated>>

EvaluateCompletion ==
    /\ mpc = "evaluate"
    /\ \/ completed = pending /\ cmutex' = Free /\ mpc' = "cleanup"
       \/ completed # pending /\ mpc' = "block" /\ UNCHANGED cmutex
    /\ UNCHANGED <<workerVars, tasks, queue, qmutex, counters, shutdown, sess, updated>>

BlockOnCompletion ==
    /\ mpc = "block"
    /\ cmutex' = Free
    /\ mpc' = "asleep"
    /\ UNCHANGED <<workerVars, tasks, queue, qmutex, counters, shutdown, sess, updated>>

SpuriousMain ==
    /\ mpc = "asleep"
    /\ mpc' = "wait"
    /\ UNCHANGED <<workerVars, tasks, queue, qmutex, cmutex, counters, shutdown, sess, updated>>

\* cleanup_inactive_sessions: the GameSession objects are destroyed
EraseInactive ==
    /\ mpc = "cleanup"
    /\ sess' = [s \in Sessions |-> IF sess[s] = "inactive" THEN "none" ELSE sess[s]]
    /\ mpc' = "serial"
    /\ UNCHANGED <<workerVars, tasks, queue, qmutex, cmutex, counters, shutdown, updated>>

\* ~SessionThreadPool, after Server::run has returned
StoreShutdown ==
    /\ mpc = "serial"
    /\ shutdown' = TRUE
    /\ mpc' = "stopNotify"
    /\ UNCHANGED <<workerVars, tasks, queue, qmutex, cmutex, counters, sess, updated>>

NotifyShutdown ==
    /\ mpc = "stopNotify"
    /\ WakeWorkers
    /\ mpc' = "join"
    /\ UNCHANGED <<tasks, queue, qmutex, cmutex, counters, shutdown, job, seen, sess, updated>>

JoinWorkers ==
    /\ mpc = "join"
    /\ \A w \in Workers : wpc[w] = "exit"
    /\ mpc' = "joined"
    /\ UNCHANGED <<workerVars, tasks, queue, qmutex, cmutex, counters, shutdown, sess, updated>>

------------------------------------------------------------------------------
(* A worker                                                                *)

goto(w, label) == wpc' = [wpc EXCEPT ![w] = label]

TestShutdown(w) ==
    /\ wpc[w] = "top"
    /\ goto(w, IF shutdown THEN "exit" ELSE "lock")
    /\ UNCHANGED <<mainVars, queue, qmutex, cmutex, counters, shutdown, job, seen, sess, updated>>

LockQueue(w) ==
    /\ wpc[w] = "lock"
    /\ qmutex = Free
    /\ qmutex' = w
    /\ goto(w, "check")
    /\ UNCHANGED <<mainVars, queue, cmutex, counters, shutdown, job, seen, sess, updated>>

EvaluateQueue(w) ==
    /\ wpc[w] = "check"
    /\ goto(w, IF queue # {} \/ shutdown THEN "take" ELSE "block")
    /\ UNCHANGED <<mainVars, queue, qmutex, cmutex, counters, shutdown, job, seen, sess, updated>>

BlockOnQueue(w) ==
    /\ wpc[w] = "block"
    /\ qmutex' = Free
    /\ goto(w, "asleep")
    /\ UNCHANGED <<mainVars, queue, cmutex, counters, shutdown, job, seen, sess, updated>>

SpuriousWorker(w) ==
    /\ wpc[w] = "asleep"
    /\ goto(w, "lock")
    /\ UNCHANGED <<mainVars, queue, qmutex, cmutex, counters, shutdown, job, seen, sess, updated>>

\* The wait returned: shutdown wins over a task still queued.  The code's
\* "else continue" cannot be taken: the predicate held and the mutex was kept.
TakeTask(w) ==
    /\ wpc[w] = "take"
    /\ qmutex' = Free
    /\ \/ /\ shutdown
          /\ goto(w, "exit")
          /\ UNCHANGED <<queue, job>>
       \/ /\ ~shutdown
          /\ \E s \in queue :
                /\ queue' = queue \ {s}
                /\ job' = [job EXCEPT ![w] = s]
          /\ goto(w, "run")
    /\ UNCHANGED <<mainVars, cmutex, counters, shutdown, seen, sess, updated>>

\* GameSession::update returns; the game may have ended in it
RunUpdate(w) ==
    /\ wpc[w] = "run"
    /\ updated' = updated \cup {job[w]}
    /\ \/ UNCHANGED sess
       \/ /\ sess[job[w]] = "active"
          /\ sess' = [sess EXCEPT ![job[w]] = "inactive"]
    /\ goto(w, "count")
    /\ UNCHANGED <<mainVars, queue, qmutex, cmutex, counters, shutdown, job, seen>>

CountCompleted(w) ==
    /\ wpc[w] = "count"
    /\ completed' = completed + 1
    /\ seen' = [seen EXCEPT ![w] = completed + 1]
    /\ job' = [job EXCEPT ![w] = NoSession]
    /\ goto(w, "compare")
    /\ UNCHANGED <<mainVars, queue, qmutex, cmutex, pending, shutdown, sess, updated>>

\* tasks_pending_ is read later than fetch_add: it may be the next batch's
ComparePending(w) ==
    /\ wpc[w] = "compare"
    /\ goto(w, IF seen[w] = pending THEN "signal" ELSE "top")
    /\ UNCHANGED <<mainVars, queue, qmutex, cmutex, counters, shutdown, job, seen, sess, updated>>

\* mutant of SignalCompletion: notifies without completion_mutex_
SignalCompletion_Unlocked(w) ==
    /\ wpc[w] = "signal"
    /\ mpc' = IF mpc = "asleep" THEN "wait" ELSE mpc
    /\ goto(w, "top")
    /\ UNCHANGED <<tasks, queue, qmutex, cmutex, counters, shutdown, job, seen, sess, updated>>

\* notify_one under completion_mutex_: only the main thread ever waits there
SignalCompletion(w) ==
    /\ wpc[w] = "signal"
    /\ cmutex = Free
    /\ mpc' = IF mpc = "asleep" THEN "wait" ELSE mpc
    /\ goto(w, "top")
    /\ UNCHANGED <<tasks, queue, qmutex, cmutex, counters, shutdown, job, seen, sess, updated>>

------------------------------------------------------------------------------
\* The pool is gone: the only way the system stops
Terminated == mpc = "joined" /\ UNCHANGED vars

MainStep ==
    \/ \E s \in Sessions : CreateSession(s) \/ EndSession(s)
    \/ CollectTasks \/ ResetCompleted \/ SetPending \/ PushTasks \/ NotifyBatch
    \/ LockCompletion \/ EvaluateCompletion \/ BlockOnCompletion \/ SpuriousMain
    \/ EraseInactive \/ StoreShutdown \/ NotifyShutdown \/ JoinWorkers

WorkerStep(w) ==
    \/ TestShutdown(w) \/ LockQueue(w) \/ EvaluateQueue(w) \/ BlockOnQueue(w)
    \/ SpuriousWorker(w) \/ TakeTask(w) \/ RunUpdate(w) \/ CountCompleted(w)
    \/ ComparePending(w) \/ SignalCompletion(w)

Next == MainStep \/ (\E w \in Workers : WorkerStep(w)) \/ Terminated

Spec == Init /\ [][Next]_vars

(***************************************************************************)
(* Fairness.  A thread that can run eventually runs (weak fairness); a     *)
(* thread that keeps finding the mutex released eventually gets it (strong *)
(* fairness of the two lock acquisitions), which a blocked std::mutex      *)
(* waiter is given by the kernel's wait queue.  GameSession::update has no *)
(* unbounded loop, so RunUpdate is fair.  Nothing is assumed of spurious   *)
(* wakeups or of what the clients do.                                      *)
(***************************************************************************)
MainFairness ==
    /\ WF_vars(ResetCompleted) /\ WF_vars(SetPending) /\ WF_vars(NotifyBatch)
    /\ WF_vars(EvaluateCompletion) /\ WF_vars(BlockOnCompletion)
    /\ WF_vars(EraseInactive) /\ WF_vars(NotifyShutdown) /\ WF_vars(JoinWorkers)
    /\ SF_vars(PushTasks) /\ SF_vars(LockCompletion)

WorkerFairness(w) ==
    /\ WF_vars(TestShutdown(w)) /\ WF_vars(EvaluateQueue(w))
    /\ WF_vars(BlockOnQueue(w)) /\ WF_vars(TakeTask(w)) /\ WF_vars(RunUpdate(w))
    /\ WF_vars(CountCompleted(w)) /\ WF_vars(ComparePending(w))
    /\ SF_vars(LockQueue(w)) /\ SF_vars(SignalCompletion(w))

FairSpec == Spec /\ MainFairness /\ \A w \in Workers : WorkerFairness(w)

------------------------------------------------------------------------------
(* Properties                                                              *)

Running == {w \in Workers : wpc[w] \in {"run", "count"}}
Serial == mpc \in {"serial", "reset", "setPending", "push", "cleanup",
                   "stopNotify", "join", "joined"}

\* The barrier (wait_for_completion): whenever the main thread is outside a
\* batch, no task is queued, no worker is inside update(), and every session
\* of the last batch was updated unless the batch has not been pushed yet.
BarrierHolds ==
    Serial =>
      /\ queue = {}
      /\ Running = {}
      /\ mpc \in {"serial", "cleanup", "stopNotify", "join", "joined"} => updated = tasks

\* Two workers never update one GameSession at once: a session has no lock.
OneWorkerPerSession ==
    \A v, w \in Running : job[v] = job[w] => v = w

\* A worker never holds a raw pointer to a session that cleanup has destroyed.
NoUseAfterErase ==
    /\ \A w \in Running : sess[job[w]] # "none"
    /\ \A s \in queue : sess[s] # "none"

\* The pool implements TickBarrier: the parallel phase is everything between
\* collecting a batch and leaving wait_for_completion; what is left to do is
\* what update() has not returned for.
ParallelPhase == mpc \in {"reset", "setPending", "push", "notify", "wait",
                          "evaluate", "block", "asleep"}

Barrier == INSTANCE TickBarrier WITH
    phase <- IF ParallelPhase THEN "parallel" ELSE "serial",
    todo <- IF ParallelPhase THEN tasks \ updated ELSE {}

\* Between two ticks' serial phases every active session is updated exactly
\* once, and no session appears or disappears while workers run.
ImplementsBarrier == Barrier!Spec

\* A scheduled batch completes: the main thread is never left waiting.
BatchCompletes == (mpc = "reset") ~> (mpc = "cleanup")

\* The destructor's contract: it waits for all workers to finish, joins them.
DestructorJoins == (mpc = "stopNotify") ~> (mpc = "joined")
==============================================================================
