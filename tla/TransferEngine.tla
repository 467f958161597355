---------------------------- MODULE TransferEngine ----------------------------
(***************************************************************************)
(* The transfer engine of ghost-daemon: TransferOrchestrator               *)
(* (orchestrator.rs) with the tasks its start method spawns, the           *)
(* TransferScheduler (scheduler.rs), the WorkerPool (worker.rs) and the    *)
(* completion handler, composed with the chunk table (ChunkStates) and the *)
(* transfer queue (TransferQueue).                                         *)
(*                                                                         *)
(*   client call --> jobs --> scheduler --> channel --> workers            *)
(*        \                                                |               *)
(*         +--> states <-- completion handler <-- completions              *)
(*                                                                         *)
(* A client call changes the chunk table under the table's mutex, releases *)
(* it and then submits its job: two steps.  A call that returns an error   *)
(* before it changes anything is a stuttering step.                        *)
(*                                                                         *)
(* Data is abstracted to what the control depends on: a job's size is the  *)
(* flag that picks its priority, contents and timestamps are left out.     *)
(* The pressure watch channel is created at zero and nothing sends on it,  *)
(* so should_throttle (scheduler.rs) is FALSE in the engine as wired.      *)
(* The auto-migration task is added by module AutoMigration.               *)
(***************************************************************************)
EXTENDS ChunkStates, TransferQueue

CONSTANTS
  Tier,             \* TierId
  Backend,          \* the tiers that have a storage backend
  ClientTier,       \* the tiers clients name in store and retrieve
  Route,            \* the <<from, to>> pairs clients ask migrate for
  Large,            \* the answers to "is the chunk larger than 1 MiB" at migrate
  Client,           \* concurrent callers of the orchestrator
  Worker,           \* the worker tasks
  ChannelCapacity,  \* of both mpsc channels: worker_count * 2 in WorkerPool::start
  MaxRetries,       \* OrchestratorConfig.max_retries
  DebugAssertions,  \* TRUE in a debug build
  NoJob             \* the absence of a job

ASSUME EngineAssumption ==
  /\ Backend \subseteq Tier
  /\ ClientTier \subseteq Tier
  /\ Route \subseteq Tier \X Tier
  /\ Large \subseteq BOOLEAN
  /\ ChannelCapacity \in Nat \ {0}
  /\ MaxRetries \in Nat
  /\ DebugAssertions \in BOOLEAN
  /\ Job = [chunk : Chunk, from : Tier, to : Tier, priority : TransferPriority]
  /\ NoJob \notin Job

VARIABLES
  poisoned,       \* the mutex of the chunk table is poisoned (a holder panicked)
  client,         \* the job a call still has to submit, or NoJob
  signal,         \* the shutdown watch channel
  shutdownCall,   \* the progress of TransferOrchestrator::shutdown
  scheduler,      \* the scheduler task
  held,           \* the job the scheduler has dequeued and not yet dispatched, or NoJob
  channel,        \* the mpsc channel from scheduler to workers
  worker,         \* the worker tasks
  completions,    \* the mpsc channel from workers to the completion handler
  handler         \* the completion handler task

engineVars ==
  <<poisoned, client, signal, shutdownCall, scheduler, held, channel, worker, completions, handler>>

vars == <<states, queueVars, engineVars>>

NewJob(c, from, to, priority) ==
  [chunk |-> c, from |-> from, to |-> to, priority |-> priority]

CrossTier(job) == job.from # job.to

IdleWorker(pc) == [pc |-> pc, job |-> NoJob, attempt |-> 0, success |-> FALSE]

Init ==
  /\ StatesInit
  /\ QueueInit
  /\ poisoned = FALSE
  /\ client = [k \in Client |-> NoJob]
  /\ signal = FALSE
  /\ shutdownCall = "none"
  /\ scheduler = "running"
  /\ held = NoJob
  /\ channel = << >>
  /\ worker = [w \in Worker |-> IdleWorker("top")]
  /\ completions = << >>
  /\ handler = "running"

-----------------------------------------------------------------------------
(* Client calls.                                                           *)

\* A caller can enter store, retrieve, migrate or evict: shutdown takes
\* &mut self, so nobody is inside it, and the table's mutex is not poisoned
\* (lock().unwrap() would panic before anything changes).
Callable(k) ==
  /\ client[k] = NoJob
  /\ shutdownCall # "waiting"
  /\ ~poisoned

\* An invalid transition: an error in release builds, a panic with the mutex
\* held in debug builds (ChunkState::transition_to).
InvalidTransition ==
  /\ poisoned' = DebugAssertions
  /\ UNCHANGED states

\* The state a chunk is in when store asks for the transition to Stored:
\* an unknown chunk has just been registered.
Registered(s) == IF s = Absent THEN "Allocated" ELSE s

Store(k, c, tier) ==
  /\ Callable(k)
  /\ states[c] \in {Absent, "Allocated", "Evicted", "Cached"}
  /\ IF IsValidTransition(Registered(states[c]), "Stored")
       THEN /\ Transition(c, "Stored")
            /\ client' = [client EXCEPT ![k] = NewJob(c, tier, tier, "Normal")]
            /\ UNCHANGED poisoned
       ELSE /\ InvalidTransition
            /\ UNCHANGED client
  /\ UNCHANGED <<queueVars, signal, shutdownCall, scheduler, held, channel, worker, completions, handler>>

Retrieve(k, c, tier) ==
  /\ Callable(k)
  /\ states[c] \in {"Stored", "Cached"}
  /\ client' = [client EXCEPT ![k] = NewJob(c, tier, tier, "High")]
  /\ UNCHANGED <<states, queueVars, poisoned, signal, shutdownCall, scheduler, held, channel, worker,
                 completions, handler>>

\* Mutant of Migrate: a chunk that is already Migrating is not refused.
MigrateAgain(k, c, route, large) ==
  /\ Callable(k)
  /\ states[c] \in {"Stored", "Cached", "Failed", "Allocated", "Migrating"}
  /\ Transition(c, "Migrating")
  /\ client' = [client EXCEPT ![k] =
                  NewJob(c, route[1], route[2], IF large THEN "Normal" ELSE "High")]
  /\ UNCHANGED <<queueVars, poisoned, signal, shutdownCall, scheduler, held, channel, worker,
                 completions, handler>>

\* Failed and Allocated chunks pass through Stored under the same lock.
Migrate(k, c, route, large) ==
  /\ Callable(k)
  /\ states[c] \in {"Stored", "Cached", "Failed", "Allocated"}
  /\ Transition(c, "Migrating")
  /\ client' = [client EXCEPT ![k] =
                  NewJob(c, route[1], route[2], IF large THEN "Normal" ELSE "High")]
  /\ UNCHANGED <<queueVars, poisoned, signal, shutdownCall, scheduler, held, channel, worker,
                 completions, handler>>

\* Mutant of Evict: whatever the table of transitions allows, Migrating included.
EvictAny(k, c) ==
  /\ Callable(k)
  /\ IsValidTransition(states[c], "Evicted")
  /\ Transition(c, "Evicted")
  /\ UNCHANGED <<queueVars, poisoned, client, signal, shutdownCall, scheduler, held, channel, worker,
                 completions, handler>>

Evict(k, c) ==
  /\ Callable(k)
  /\ states[c] \in {"Stored", "Cached"}
  /\ IF IsValidTransition(states[c], "Evicted")
       THEN Transition(c, "Evicted") /\ UNCHANGED poisoned
       ELSE InvalidTransition
  /\ UNCHANGED <<queueVars, client, signal, shutdownCall, scheduler, held, channel, worker,
                 completions, handler>>

\* submit_job: the queue takes the job or refuses it; the call returns, and
\* a refusal undoes nothing.
SubmitJob(k) ==
  /\ client[k] # NoJob
  /\ \/ SubmitPriority(client[k])
     \/ Refuses /\ UNCHANGED queueVars
  /\ client' = [client EXCEPT ![k] = NoJob]
  /\ UNCHANGED <<states, poisoned, signal, shutdownCall, scheduler, held, channel, worker, completions,
                 handler>>

-----------------------------------------------------------------------------
(* shutdown: close the queue, signal the tasks, wait for an empty queue.   *)

\* &mut self: no other call is in progress.
ShutdownSignal ==
  /\ shutdownCall # "waiting"
  /\ \A k \in Client : client[k] = NoJob
  /\ Shutdown
  /\ signal' = TRUE
  /\ shutdownCall' = "waiting"
  /\ UNCHANGED <<states, poisoned, client, scheduler, held, channel, worker, completions, handler>>

\* The wait loop ends when the queue is empty or at the timeout.
ShutdownReturn ==
  /\ shutdownCall = "waiting"
  /\ shutdownCall' = IF current_depth = 0 THEN "drained" ELSE "timed out"
  /\ UNCHANGED <<states, queueVars, poisoned, client, signal, scheduler, held, channel, worker,
                 completions, handler>>

-----------------------------------------------------------------------------
(* The scheduler task (TransferScheduler::run).                            *)

\* Mutant of ChannelAccepts: an unbounded channel.
ChannelAcceptsAll == \E w \in Worker : worker[w].pc # "stopped"

\* try_send fails when the channel is full, or closed because every worker
\* has dropped the receiver.
ChannelAccepts ==
  /\ Len(channel) < ChannelCapacity
  /\ \E w \in Worker : worker[w].pc # "stopped"

\* dequeue_wait yields a job.
DequeueJob ==
  /\ scheduler = "running"
  /\ held = NoJob
  /\ PopFront
  /\ held' = Head(jobs)
  /\ UNCHANGED <<states, poisoned, client, signal, shutdownCall, scheduler, channel, worker,
                 completions, handler>>

\* dispatch_job: a job the channel does not accept is dropped with a log line.
DispatchJob ==
  /\ held # NoJob
  /\ channel' = IF ChannelAccepts THEN Append(channel, held) ELSE channel
  /\ held' = NoJob
  /\ UNCHANGED <<states, queueVars, poisoned, client, signal, shutdownCall, scheduler, worker,
                 completions, handler>>

SchedulerStop ==
  /\ scheduler = "running"
  /\ held = NoJob
  /\ signal
  /\ scheduler' = "stopped"
  /\ UNCHANGED <<states, queueVars, poisoned, client, signal, shutdownCall, held, channel, worker,
                 completions, handler>>

-----------------------------------------------------------------------------
(* The worker tasks (the loop in WorkerPool::start, execute_transfer).     *)

\* What a worker step leaves alone, whatever it does to the channels.
WorkerFrame ==
  UNCHANGED <<states, queueVars, poisoned, client, signal, shutdownCall, scheduler, held, handler>>

\* The top of the loop without a shutdown signal: look for a job.
WorkerTop(w) ==
  /\ worker[w].pc = "top"
  /\ ~signal
  /\ worker' = [worker EXCEPT ![w] = IdleWorker("recv")]
  /\ UNCHANGED <<channel, completions>>
  /\ WorkerFrame

\* The top of the loop with it: the task ends, and the last one to end drops
\* the shared receiver with the jobs it holds.
WorkerStop(w) ==
  /\ worker[w].pc = "top"
  /\ signal
  /\ worker' = [worker EXCEPT ![w] = IdleWorker("stopped")]
  /\ channel' = IF \A v \in Worker \ {w} : worker[v].pc = "stopped" THEN << >> ELSE channel
  /\ UNCHANGED completions
  /\ WorkerFrame

\* try_recv finds a job.
WorkerTake(w) ==
  /\ worker[w].pc = "recv"
  /\ channel # << >>
  /\ worker' = [worker EXCEPT ![w] =
                  [pc |-> "exec", job |-> Head(channel), attempt |-> 0, success |-> FALSE]]
  /\ channel' = Tail(channel)
  /\ UNCHANGED completions
  /\ WorkerFrame

\* try_recv finds none: sleep 10 ms (or be woken by the signal), loop.
WorkerIdle(w) ==
  /\ worker[w].pc = "recv"
  /\ channel = << >>
  /\ worker' = [worker EXCEPT ![w] = IdleWorker("top")]
  /\ UNCHANGED <<channel, completions>>
  /\ WorkerFrame

\* Mutant of RetryTransfer: the attempt counter wraps round instead of ending.
RetryTransferForEver(w) ==
  /\ worker[w].pc = "exec"
  /\ {worker[w].job.from, worker[w].job.to} \subseteq Backend
  /\ worker' = [worker EXCEPT ![w].attempt = IF @ = MaxRetries THEN 0 ELSE @ + 1]
  /\ UNCHANGED <<channel, completions>>
  /\ WorkerFrame

\* The write to the target backend fails with attempts left: back off, retry.
RetryTransfer(w) ==
  /\ worker[w].pc = "exec"
  /\ {worker[w].job.from, worker[w].job.to} \subseteq Backend
  /\ worker[w].attempt < MaxRetries
  /\ worker' = [worker EXCEPT ![w].attempt = @ + 1]
  /\ UNCHANGED <<channel, completions>>
  /\ WorkerFrame

\* Mutant of FinishTransfer: the error branch does not report.
FinishTransferSilently(w, success) ==
  /\ worker[w].pc = "exec"
  /\ success => {worker[w].job.from, worker[w].job.to} \subseteq Backend
  /\ worker' = [worker EXCEPT ![w] =
                  IF success /\ CrossTier(@.job)
                    THEN [@ EXCEPT !.pc = "send", !.success = success]
                    ELSE IdleWorker("top")]
  /\ UNCHANGED <<channel, completions>>
  /\ WorkerFrame

\* execute_transfer returns: Ok only if both tiers have a backend; an error
\* from a missing tier, a failed read, or the last failed write.  Only a
\* cross-tier job goes on to report to the orchestrator.
FinishTransfer(w, success) ==
  /\ worker[w].pc = "exec"
  /\ success => {worker[w].job.from, worker[w].job.to} \subseteq Backend
  /\ worker' = [worker EXCEPT ![w] =
                  IF CrossTier(@.job)
                    THEN [@ EXCEPT !.pc = "send", !.success = success]
                    ELSE IdleWorker("top")]
  /\ UNCHANGED <<channel, completions>>
  /\ WorkerFrame

\* Mutant of ReportCompletion: the send goes on waiting for a handler that has ended.
ReportCompletionBlocks(w) ==
  /\ worker[w].pc = "send"
  /\ handler = "running"
  /\ Len(completions) < ChannelCapacity
  /\ completions' = Append(completions, [chunk   |-> worker[w].job.chunk,
                                         success |-> worker[w].success])
  /\ worker' = [worker EXCEPT ![w] = IdleWorker("top")]
  /\ UNCHANGED channel
  /\ WorkerFrame

\* completion_tx.send().await waits for room; once the handler is gone the
\* receiver is dropped and the send fails at once, its error ignored.
ReportCompletion(w) ==
  /\ worker[w].pc = "send"
  /\ \/ /\ handler = "running"
        /\ Len(completions) < ChannelCapacity
        /\ completions' = Append(completions, [chunk   |-> worker[w].job.chunk,
                                               success |-> worker[w].success])
     \/ /\ handler = "stopped"
        /\ UNCHANGED completions
  /\ worker' = [worker EXCEPT ![w] = IdleWorker("top")]
  /\ UNCHANGED channel
  /\ WorkerFrame

-----------------------------------------------------------------------------
(* The completion handler task, spawned by TransferOrchestrator::start.    *)

HandlerFrame ==
  UNCHANGED <<queueVars, client, signal, shutdownCall, scheduler, held, channel, worker>>

\* Mutant of Outcome: a failed migration evicts the chunk.
OutcomeEvicts(completion) == IF completion.success THEN "Stored" ELSE "Evicted"

Outcome(completion) == IF completion.success THEN "Stored" ELSE "Failed"

\* The handler applies the outcome and ignores a refusal (let _ = ...).  A
\* poisoned lock, or in a debug build an invalid transition, panics: the
\* task ends and its receiver is dropped with all it holds.
HandleCompletion ==
  /\ handler = "running"
  /\ completions # << >>
  /\ LET c     == Head(completions).chunk
         valid == IsValidTransition(states[c], Outcome(Head(completions)))
         panic == poisoned \/ (DebugAssertions /\ ~valid)
     IN  IF panic
           THEN /\ poisoned' = TRUE
                /\ handler' = "stopped"
                /\ completions' = << >>
                /\ UNCHANGED states
           ELSE /\ IF valid THEN Transition(c, Outcome(Head(completions))) ELSE UNCHANGED states
                /\ completions' = Tail(completions)
                /\ UNCHANGED <<poisoned, handler>>
  /\ HandlerFrame

HandlerStop ==
  /\ handler = "running"
  /\ signal
  /\ handler' = "stopped"
  /\ completions' = << >>
  /\ UNCHANGED <<states, poisoned>>
  /\ HandlerFrame

-----------------------------------------------------------------------------

ClientNext(k) ==
  \/ \E c \in Chunk :
       \/ \E tier \in ClientTier : Store(k, c, tier) \/ Retrieve(k, c, tier)
       \/ \E route \in Route, large \in Large : Migrate(k, c, route, large)
       \/ Evict(k, c)
  \/ SubmitJob(k)

SchedulerNext == DequeueJob \/ DispatchJob \/ SchedulerStop

WorkerNext(w) ==
  \/ WorkerTop(w) \/ WorkerStop(w)
  \/ WorkerTake(w) \/ WorkerIdle(w)
  \/ RetryTransfer(w)
  \/ \E success \in BOOLEAN : FinishTransfer(w, success)
  \/ ReportCompletion(w)

HandlerNext == HandleCompletion \/ HandlerStop

Next ==
  \/ \E k \in Client : ClientNext(k)
  \/ ShutdownSignal \/ ShutdownReturn
  \/ SchedulerNext
  \/ \E w \in Worker : WorkerNext(w)
  \/ HandlerNext

Spec == Init /\ [][Next]_vars

\* One conjunct per task: the tokio runtime polls every task that is ready,
\* and a call that has begun runs to its end.  Nobody has to call the daemon,
\* and no preference among the branches of a select! is assumed.  Strong
\* fairness for ReportCompletion: tokio's bounded channel hands out its free
\* slots in the order in which the senders began to wait, so a waiting worker
\* is not overtaken for ever by the others.
Fairness ==
  /\ \A k \in Client : WF_vars(SubmitJob(k))
  /\ WF_vars(ShutdownReturn)
  /\ WF_vars(SchedulerNext)
  /\ \A w \in Worker : WF_vars(WorkerNext(w)) /\ SF_vars(ReportCompletion(w))
  /\ WF_vars(HandlerNext)

FairSpec == Spec /\ Fairness

-----------------------------------------------------------------------------
(* Properties.                                                             *)

WorkerState ==
  [pc : {"top", "recv", "exec", "send", "stopped"}, job : Job \cup {NoJob},
   attempt : 0..MaxRetries, success : BOOLEAN]

TypeOK ==
  /\ StatesType
  /\ QueueType
  /\ poisoned \in BOOLEAN
  /\ client \in [Client -> Job \cup {NoJob}]
  /\ signal \in BOOLEAN
  /\ shutdownCall \in {"none", "waiting", "drained", "timed out"}
  /\ scheduler \in {"running", "stopped"}
  /\ held \in Job \cup {NoJob}
  /\ channel \in Seq(Job) /\ Len(channel) <= ChannelCapacity
  /\ worker \in [Worker -> WorkerState]
  /\ \A w \in Worker : worker[w].pc \in {"exec", "send"} <=> worker[w].job # NoJob
  /\ completions \in Seq([chunk : Chunk, success : BOOLEAN])
  /\ Len(completions) <= ChannelCapacity
  /\ handler \in {"running", "stopped"}

\* The jobs that move chunk c to another tier, and the reports of such a move.
Moving(c)  == {job \in Job : job.chunk = c /\ CrossTier(job)}
Reports(c) == [chunk : {c}, success : BOOLEAN]

\* The positions of a sequence or function at which a member of M stands.
Spots(tag, s, M) == {<<tag, i>> : i \in {i \in DOMAIN s : s[i] \in M}}

WorkerJobs == [w \in Worker |-> worker[w].job]

\* The places that hold a migration of c which has not settled yet.
Carrying(c) ==
  UNION { Spots("client",     client,      Moving(c)),
          Spots("queue",      jobs,        Moving(c)),
          Spots("held",       <<held>>,    Moving(c)),
          Spots("channel",    channel,     Moving(c)),
          Spots("worker",     WorkerJobs,  Moving(c)),
          Spots("completion", completions, Reports(c)) }

\* While a cross-tier job for a chunk is anywhere between the migrate call and
\* the completion handler, the chunk is Migrating: store, retrieve and evict
\* refuse it, so nothing else happens to a chunk in the middle of a move.
InFlightIsMigrating ==
  \A c \in Chunk : Carrying(c) # {} => states[c] = "Migrating"

\* Two callers of migrate, a retry after a failure, a full queue: whatever the
\* interleaving, at most one move of a chunk is in flight, so two workers never
\* copy the same chunk and no late report of an earlier attempt can settle
\* a later one.
OneMigrationInFlight ==
  \A c \in Chunk : \A p, q \in Carrying(c) : p = q

\* The completion handler consumed a report for c, and lives.
Consumes(c) ==
  /\ handler' = "running"
  /\ completions # << >>
  /\ completions' = Tail(completions)
  /\ Head(completions).chunk = c

\* The handler ignores the result of the transition it asks for, and a comment
\* there says the chunk was Migrating.  It always was: each report it consumes
\* settles a migration, and nothing but a report ever settles one.
ReportsSettleMigrations ==
  [][\A c \in Chunk :
       Consumes(c) <=> (states[c] = "Migrating" /\ states'[c] # "Migrating")]_vars

Lifecycle == INSTANCE ChunkLifecycle

\* What clients see of the table under all interleavings is the narrow
\* lifecycle of ChunkLifecycle.
ImplementsLifecycle == Lifecycle!LifecycleSpec

-----------------------------------------------------------------------------

\* A migration of c has reached the workers.
Dispatched(c) ==
  \E p \in Carrying(c) : p[1] \in {"channel", "worker", "completion"}

\* A migration the workers have been given ends: through failing writes and
\* retries, a full completion channel and whatever the other clients do, the
\* chunk leaves Migrating, unless the engine is shut down or its table is
\* poisoned.
DispatchedMigrationSettles ==
  \A c \in Chunk : Dispatched(c) ~> (states[c] # "Migrating" \/ signal \/ poisoned)

\* An urgent migration that is in the queue leaves the pipeline: no flow of
\* other jobs, urgent ones included, holds it back for ever.
UrgentMigrationLeavesPipeline ==
  \A c \in Chunk :
    (\E i \in 1..Len(jobs) : jobs[i] \in Moving(c) /\ Urgent(jobs[i]))
      ~> (Carrying(c) = {} \/ signal \/ poisoned)

AllTasksStopped ==
  /\ scheduler = "stopped"
  /\ handler = "stopped"
  /\ \A w \in Worker : worker[w].pc = "stopped"

\* The shutdown signal ends every task: in particular no worker stays blocked
\* on the completion channel of a handler that has already gone.
ShutdownStopsEveryTask == signal ~> AllTasksStopped

-----------------------------------------------------------------------------
(* What the repository's documents say and the code does not do.           *)

\* state.rs calls a Migrating chunk "Actively moving between tiers": one job
\* for it exists.
MigratingIsMoving ==
  signal \/ \A c \in Chunk : states[c] = "Migrating" => Carrying(c) # {}

\* shutdown "waits for in-flight jobs to complete (up to the configured
\* timeout)": when it returns before the timeout, no migration is in flight.
ShutdownCompletesJobs ==
  [][shutdownCall = "waiting" /\ shutdownCall' = "drained"
       => \A c \in Chunk : Carrying(c) = {}]_vars

\* transition_to calls an invalid transition "a system bug": none is asked
\* for, so the table's mutex is never poisoned in a debug build.
NeverPoisoned == ~poisoned

=============================================================================
