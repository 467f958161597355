------------------------- MODULE TransferEngineProofs -------------------------
(***************************************************************************)
(* What holds of the transfer engine for any number of chunks, clients,    *)
(* workers and retries and any capacities.                                 *)
(*                                                                         *)
(* The inductive invariant EngineInv is Shape with the two facts about a   *)
(* migration in flight, which are proved chunk by chunk (Settled).         *)
(***************************************************************************)
EXTENDS TransferEngineShape

EngineInv == Shape /\ InFlightIsMigrating /\ OneMigrationInFlight

-----------------------------------------------------------------------------
(* Each step keeps every chunk settled.                                    *)

\* A place without a job carries no chunk.
LEMMA NoJobMovesNothing ==
  ASSUME NEW c  PROVE NoJob \notin Moving(c)
BY EngineAssumption DEF Moving

\* The six places before and after a step.
LEMMA PartsAre ==
  ASSUME NEW c
  PROVE  /\ InClients(c) = Spots("client", client, Moving(c))
         /\ InQueue(c) = Spots("queue", jobs, Moving(c))
         /\ InHeld(c) = Spots("held", <<held>>, Moving(c))
         /\ InChannel(c) = Spots("channel", channel, Moving(c))
         /\ InWorkers(c) = Spots("worker", WorkerJobs, Moving(c))
         /\ InReports(c) = Spots("completion", completions, Reports(c))
         /\ InClients(c)' = Spots("client", client', Moving(c))
         /\ InQueue(c)' = Spots("queue", jobs', Moving(c))
         /\ InHeld(c)' = Spots("held", <<held'>>, Moving(c))
         /\ InChannel(c)' = Spots("channel", channel', Moving(c))
         /\ InWorkers(c)' = Spots("worker", WorkerJobs', Moving(c))
         /\ InReports(c)' = Spots("completion", completions', Reports(c))
BY DEF InClients, InQueue, InHeld, InChannel, InWorkers, InReports, Spots, Moving, Reports,
       WorkerJobs, CrossTier

\* A place that a step leaves alone.
LEMMA PartsUnchanged ==
  ASSUME NEW c
  PROVE  /\ client' = client => Kept(InClients(c), InClients(c)')
         /\ jobs' = jobs => Kept(InQueue(c), InQueue(c)')
         /\ held' = held => Kept(InHeld(c), InHeld(c)')
         /\ channel' = channel => Kept(InChannel(c), InChannel(c)')
         /\ worker' = worker => Kept(InWorkers(c), InWorkers(c)')
         /\ completions' = completions => Kept(InReports(c), InReports(c)')
<1>1. worker' = worker => WorkerJobs' = WorkerJobs
  BY DEF WorkerJobs
<1> QED
  BY <1>1, PartsAre DEF Kept

\* A step after which c is where it was, and in the state it was in unless
\* it was nowhere.
LEMMA StaysSettled ==
  ASSUME NEW c, Settled(c),
         Kept(InClients(c), InClients(c)'), Kept(InQueue(c), InQueue(c)'),
         Kept(InHeld(c), InHeld(c)'), Kept(InChannel(c), InChannel(c)'),
         Kept(InWorkers(c), InWorkers(c)'), Kept(InReports(c), InReports(c)'),
         states'[c] = states[c] \/ states[c] # "Migrating"
  PROVE  Settled(c)'
BY DEF Settled, Alone, AtMostOne, Nowhere, Kept

\* A call that puts a job in the hands of client k, who had none.
LEMMA ClientGets ==
  ASSUME Shape, NEW k \in Client, client[k] = NoJob, NEW job,
         client' = [client EXCEPT ![k] = job], NEW c
  PROVE  /\ job \notin Moving(c) => Kept(InClients(c), InClients(c)')
         /\ Filled(InClients(c), InClients(c)')
<1>1. client[k] \notin Moving(c)
  BY NoJobMovesNothing
<1>2. Overwritten(client, k, job, client')
  BY DEF Overwritten, Shape, TypeOK
<1>3. /\ job \notin Moving(c) =>
           Kept(Spots("client", client, Moving(c)), Spots("client", client', Moving(c)))
      /\ Filled(Spots("client", client, Moving(c)), Spots("client", client', Moving(c)))
  BY <1>1, <1>2, OverwriteSpots, Zenon
<1> QED
  BY <1>3, PartsAre

\* store, retrieve, migrate, evict and the submission of their jobs.
LEMMA ClientSettled ==
  ASSUME Shape, \A c \in Chunk : Settled(c), NEW k \in Client, ClientNext(k), NEW d \in Chunk
  PROVE  Settled(d)'
<1>1. ASSUME NEW c \in Chunk, NEW tier \in ClientTier, NEW priority \in TransferPriority
      PROVE  NewJob(c, tier, tier, priority) \notin Moving(d)
  BY EngineAssumption, NewJobType DEF Moving, CrossTier
<1>2. states \in [Chunk -> ChunkState \cup {Absent}] /\ Settled(d)
  BY DEF Shape, TypeOK, StatesType
<1>3. ASSUME NEW c \in Chunk, NEW tier \in ClientTier, Store(k, c, tier)  PROVE Settled(d)'
  <2>1. Kept(InClients(d), InClients(d)')
    BY <1>1, <1>3, ClientGets, PartsUnchanged DEF Store, Callable, TransferPriority
  <2>2. states'[d] = states[d] \/ states[d] # "Migrating"
    BY <1>2, <1>3 DEF Store, Transition, InvalidTransition, Absent
  <2>3. UNCHANGED <<jobs, held, channel, worker, completions>>
    BY <1>3 DEF Store, queueVars
  <2> QED BY <1>2, <2>1, <2>2, <2>3, PartsUnchanged, StaysSettled
<1>4. ASSUME NEW c \in Chunk, NEW tier \in ClientTier, Retrieve(k, c, tier)  PROVE Settled(d)'
  <2>1. Kept(InClients(d), InClients(d)')
    BY <1>1, <1>4, ClientGets DEF Retrieve, Callable, TransferPriority
  <2>2. UNCHANGED <<states, jobs, held, channel, worker, completions>>
    BY <1>4 DEF Retrieve, queueVars
  <2> QED BY <1>2, <2>1, <2>2, PartsUnchanged, StaysSettled
<1>5. ASSUME NEW c \in Chunk, NEW route \in Route, NEW large \in Large,
             Migrate(k, c, route, large)
      PROVE  Settled(d)'
  <2> DEFINE job == NewJob(c, route[1], route[2], IF large THEN "Normal" ELSE "High")
  <2>1. job.chunk = c
    BY DEF NewJob
  <2>2. UNCHANGED <<jobs, held, channel, worker, completions>>
    BY <1>5 DEF Migrate, queueVars
  <2>3. /\ client[k] = NoJob /\ client' = [client EXCEPT ![k] = job]
        /\ states[c] # "Migrating" /\ states'[c] = "Migrating"
        /\ \A x \in Chunk \ {c} : states'[x] = states[x]
    BY <1>2, <1>5 DEF Migrate, Callable, Transition
  <2> HIDE DEF job
  <2>4. CASE job \notin Moving(d)
    <3>1. Kept(InClients(d), InClients(d)')
      BY <2>3, <2>4, ClientGets
    <3> QED BY <1>2, <2>2, <2>3, <3>1, PartsUnchanged, StaysSettled
  <2>5. CASE job \in Moving(d)
    <3>1. d = c /\ Nowhere(d)
      BY <1>2, <2>1, <2>3, <2>5 DEF Moving, Settled
    <3>2. Filled(InClients(d), InClients(d)')
      BY <2>3, ClientGets
    <3>3. /\ Kept(InQueue(d), InQueue(d)') /\ Kept(InHeld(d), InHeld(d)')
          /\ Kept(InChannel(d), InChannel(d)') /\ Kept(InWorkers(d), InWorkers(d)')
          /\ Kept(InReports(d), InReports(d)')
      BY <2>2, PartsUnchanged
    <3>4. Alone(d)'
      BY <1>2, <3>1, <3>2, <3>3 DEF Settled, Alone, AtMostOne, Nowhere, Kept, Filled
    <3> QED BY <2>3, <3>1, <3>4 DEF Settled
  <2> QED BY <2>4, <2>5
<1>6. ASSUME NEW c \in Chunk, Evict(k, c)  PROVE Settled(d)'
  <2>1. states'[d] = states[d] \/ states[d] # "Migrating"
    BY <1>2, <1>6 DEF Evict, Transition, InvalidTransition
  <2>2. UNCHANGED <<client, jobs, held, channel, worker, completions>>
    BY <1>6 DEF Evict, queueVars
  <2> QED BY <1>2, <2>1, <2>2, PartsUnchanged, StaysSettled
<1>7. CASE SubmitJob(k)
  <2> DEFINE job == client[k]
  <2>1. /\ UNCHANGED <<states, held, channel, worker, completions>>
        /\ client' = [client EXCEPT ![k] = NoJob]
    BY <1>7 DEF SubmitJob
  <2>2. /\ job \in Job
        /\ client \in [Client -> Job \cup {NoJob}]
    BY <1>7 DEF SubmitJob, Shape, TypeOK
  <2>3. Overwritten(client, k, NoJob, client')
    BY <2>1, <2>2 DEF Overwritten
  <2>4. /\ job \notin Moving(d) => Kept(InClients(d), InClients(d)')
        /\ job \in Moving(d) => Emptied(InClients(d), InClients(d)')
    <3> DEFINE X == Spots("client", client, Moving(d))
               Y == Spots("client", client', Moving(d))
    <3>1. NoJob \notin Moving(d)
      BY NoJobMovesNothing
    <3>2. job \notin Moving(d) => Kept(X, Y)
      BY <2>3, <3>1, OverwriteSpots, Zenon
    <3>3. job \in Moving(d) => Emptied(X, Y)
      BY <2>3, <3>1, RemoveSpots, Zenon
    <3>4. InClients(d) = X /\ InClients(d)' = Y
      BY PartsAre
    <3> QED BY <3>2, <3>3, <3>4
  <2>5. /\ job \notin Moving(d) => Kept(InQueue(d), InQueue(d)')
        /\ Filled(InQueue(d), InQueue(d)')
    <3>1. CASE SubmitPriority(job)
      <4>1. jobs \in Seq(Job) /\ QueueInv
        BY DEF Shape, QueueInv, QueueType
      <4> DEFINE p == InsertPosition(jobs, job)
                 X == Spots("queue", jobs, Moving(d))
                 Y == Spots("queue", jobs', Moving(d))
      <4>2. p \in 1..(Len(jobs) + 1) /\ jobs' \in Seq(Job) /\ Inserted(jobs, p, job, jobs')
        BY <2>2, <3>1, <4>1, SubmitInserts
      <4> HIDE DEF p, job
      <4>3. (job \notin Moving(d) => Kept(X, Y)) /\ Filled(X, Y)
        BY <4>1, <4>2, InsertSpots, Zenon
      <4> QED BY <4>3, PartsAre
    <3>2. CASE UNCHANGED queueVars
      BY <3>2, PartsUnchanged DEF queueVars, Kept, Filled, Single
    <3> QED BY <1>7, <3>1, <3>2 DEF SubmitJob
  <2> HIDE DEF job
  <2>6. /\ Kept(InHeld(d), InHeld(d)') /\ Kept(InChannel(d), InChannel(d)')
        /\ Kept(InWorkers(d), InWorkers(d)') /\ Kept(InReports(d), InReports(d)')
        /\ states'[d] = states[d]
    BY <2>1, PartsUnchanged
  <2>7. CASE job \in Moving(d)
    BY <1>2, <2>4, <2>5, <2>6, <2>7
       DEF Settled, Alone, AtMostOne, Nowhere, Kept, Filled, Emptied
  <2>8. CASE job \notin Moving(d)
    BY <1>2, <2>4, <2>5, <2>6, <2>8, StaysSettled
  <2> QED BY <2>7, <2>8
<1> QED
  BY <1>3, <1>4, <1>5, <1>6, <1>7 DEF ClientNext

\* The scheduler's hand: Spots of the one-element sequence.
LEMMA HeldSpots ==
  ASSUME NEW c
  PROVE  /\ held \notin Moving(c) <=> InHeld(c) = {}
         /\ held' \notin Moving(c) <=> InHeld(c)' = {}
         /\ Single(InHeld(c)')
<1>1. ASSUME NEW h  PROVE /\ h \notin Moving(c) <=> Spots("held", <<h>>, Moving(c)) = {}
                          /\ Single(Spots("held", <<h>>, Moving(c)))
  <2>1. DOMAIN <<h>> = {1} /\ <<h>>[1] = h
    OBVIOUS
  <2> QED BY <2>1 DEF Spots, Single
<1> QED
  BY <1>1, PartsAre

\* shutdown and the scheduler task.
LEMMA SchedulerSettled ==
  ASSUME Shape, NEW d \in Chunk, Settled(d), ShutdownSignal \/ ShutdownReturn \/ SchedulerNext
  PROVE  Settled(d)'
<1>1. CASE ShutdownSignal \/ ShutdownReturn \/ SchedulerStop
  <2>1. UNCHANGED <<states, client, jobs, held, channel, worker, completions>>
    BY <1>1 DEF ShutdownSignal, ShutdownReturn, SchedulerStop, Shutdown, queueVars
  <2> QED BY <2>1, PartsUnchanged, StaysSettled
<1>2. CASE DequeueJob
  <2>1. /\ jobs \in Seq(Job) /\ jobs # << >> /\ jobs' = Tail(jobs) /\ held' = Head(jobs)
        /\ UNCHANGED <<states, client, channel, worker, completions>>
    BY <1>2 DEF DequeueJob, PopFront, Shape, TypeOK, QueueType
  <2>2. InHeld(d) = {}
    BY <1>2, NoJobMovesNothing, HeldSpots DEF DequeueJob
  <2> DEFINE X == Spots("queue", jobs, Moving(d))
             Y == Spots("queue", Tail(jobs), Moving(d))
  <2>3. Kept(X, Y) /\ (Head(jobs) \in Moving(d) => Emptied(X, Y))
    BY <2>1, TailSpots, Zenon
  <2>4. InQueue(d) = X /\ InQueue(d)' = Y
    BY <2>1, PartsAre
  <2> HIDE DEF X, Y
  <2>5. /\ Kept(InClients(d), InClients(d)') /\ Kept(InChannel(d), InChannel(d)')
        /\ Kept(InWorkers(d), InWorkers(d)') /\ Kept(InReports(d), InReports(d)')
        /\ states'[d] = states[d]
    BY <2>1, PartsUnchanged
  <2>6. CASE Head(jobs) \in Moving(d)
    <3>1. Emptied(InQueue(d), InQueue(d)') /\ Single(InHeld(d)')
      BY <2>3, <2>4, <2>6, HeldSpots
    <3> QED BY <2>2, <2>5, <3>1
            DEF Settled, Alone, AtMostOne, Nowhere, Kept, Emptied
  <2>7. CASE Head(jobs) \notin Moving(d)
    <3>1. Kept(InQueue(d), InQueue(d)') /\ Kept(InHeld(d), InHeld(d)')
      BY <2>1, <2>3, <2>4, <2>7, HeldSpots DEF Kept
    <3> QED BY <2>5, <3>1, StaysSettled
  <2> QED BY <2>6, <2>7
<1>3. CASE DispatchJob
  <2>1. /\ channel \in Seq(Job) /\ held \in Job /\ held' = NoJob
        /\ channel' = Append(channel, held) \/ channel' = channel
        /\ UNCHANGED <<states, client, jobs, worker, completions>>
    BY <1>3 DEF DispatchJob, queueVars, Shape, TypeOK
  <2>2. InHeld(d)' = {}
    BY <2>1, NoJobMovesNothing, HeldSpots
  <2>3. /\ held \notin Moving(d) => Kept(InChannel(d), InChannel(d)')
        /\ Filled(InChannel(d), InChannel(d)')
    <3>1. CASE channel' = Append(channel, held)
      <4> DEFINE X == Spots("channel", channel, Moving(d))
                 Y == Spots("channel", Append(channel, held), Moving(d))
      <4>1. (held \notin Moving(d) => Kept(X, Y)) /\ Filled(X, Y)
        BY <2>1, AppendSpots, Zenon
      <4>2. InChannel(d) = X /\ InChannel(d)' = Y
        BY <3>1, PartsAre
      <4> QED BY <4>1, <4>2
    <3>2. CASE channel' = channel
      BY <3>2, PartsUnchanged DEF Kept, Filled, Single
    <3> QED BY <2>1, <3>1, <3>2
  <2>4. /\ Kept(InClients(d), InClients(d)') /\ Kept(InQueue(d), InQueue(d)')
        /\ Kept(InWorkers(d), InWorkers(d)') /\ Kept(InReports(d), InReports(d)')
        /\ states'[d] = states[d]
    BY <2>1, PartsUnchanged
  <2>5. CASE held \in Moving(d)
    <3>1. InHeld(d) # {} /\ Single({})
      BY <2>5, HeldSpots DEF Single
    <3> QED BY <2>2, <2>3, <2>4, <3>1
            DEF Settled, Alone, AtMostOne, Nowhere, Kept, Filled
  <2>6. CASE held \notin Moving(d)
    <3>1. Kept(InHeld(d), InHeld(d)')
      BY <2>2, HeldSpots DEF Kept
    <3> QED BY <2>3, <2>4, <2>6, <3>1, StaysSettled
  <2> QED BY <2>5, <2>6
<1> QED
  BY <1>1, <1>2, <1>3 DEF SchedulerNext

\* A worker step as a change of what the workers hold.
LEMMA WorkerHolds ==
  ASSUME Shape, NEW w \in Worker, NEW r, worker' = [worker EXCEPT ![w] = r], NEW c
  PROVE  /\ worker[w].job \notin Moving(c) =>
              /\ r.job \notin Moving(c) => Kept(InWorkers(c), InWorkers(c)')
              /\ Filled(InWorkers(c), InWorkers(c)')
         /\ worker[w].job \in Moving(c) /\ r.job \notin Moving(c) =>
              Emptied(InWorkers(c), InWorkers(c)')
         /\ r.job = worker[w].job => Kept(InWorkers(c), InWorkers(c)')
<1>1. worker \in [Worker -> WorkerState]
  BY DEF Shape, TypeOK
<1>2. Overwritten(WorkerJobs, w, r.job, WorkerJobs')
  BY <1>1 DEF Overwritten, WorkerJobs
<1>3. WorkerJobs[w] = worker[w].job
  BY DEF WorkerJobs
<1> DEFINE X == Spots("worker", WorkerJobs, Moving(c))
           Y == Spots("worker", WorkerJobs', Moving(c))
<1>4. WorkerJobs[w] \notin Moving(c) => (r.job \notin Moving(c) => Kept(X, Y)) /\ Filled(X, Y)
  BY <1>2, OverwriteSpots, Zenon
<1>5. WorkerJobs[w] \in Moving(c) /\ r.job \notin Moving(c) => Emptied(X, Y)
  BY <1>2, RemoveSpots, Zenon
<1>6. r.job = worker[w].job => Kept(X, Y)
  <2>1. r.job = worker[w].job => WorkerJobs' = WorkerJobs
    BY <1>1 DEF WorkerJobs
  <2> QED BY <2>1 DEF Kept
<1> QED
  BY <1>3, <1>4, <1>5, <1>6, PartsAre

\* A channel whose receiver is dropped.
LEMMA DroppedSpots ==
  ASSUME NEW tag, NEW M, NEW X
  PROVE  Kept(X, Spots(tag, << >>, M)) /\ Spots(tag, << >>, M) = {}
<1>1. DOMAIN << >> = {}
  OBVIOUS
<1>2. Spots(tag, << >>, M) = {}
  BY <1>1 DEF Spots
<1> QED
  BY <1>2 DEF Kept, Single

\* The worker tasks.
LEMMA WorkerSettled ==
  ASSUME Shape, NEW d \in Chunk, Settled(d), NEW w \in Worker, WorkerNext(w)
  PROVE  Settled(d)'
<1>1. /\ worker \in [Worker -> WorkerState]
      /\ worker[w].pc \in {"exec", "send"} <=> worker[w].job # NoJob
      /\ worker[w].pc = "send" => CrossTier(worker[w].job)
      /\ channel \in Seq(Job) /\ completions \in Seq([chunk : Chunk, success : BOOLEAN])
  BY DEF Shape, TypeOK, SendersMove
<1>2. NoJob \notin Moving(d)
  BY NoJobMovesNothing
<1>3. ASSUME WorkerFrame
      PROVE  /\ Kept(InClients(d), InClients(d)') /\ Kept(InQueue(d), InQueue(d)')
             /\ Kept(InHeld(d), InHeld(d)') /\ states'[d] = states[d]
  BY <1>3, PartsUnchanged DEF WorkerFrame, queueVars
<1>4. CASE WorkerTop(w) \/ WorkerIdle(w) \/ WorkerStop(w)
  <2>1. PICK pc \in {"top", "recv", "stopped"} : worker' = [worker EXCEPT ![w] = IdleWorker(pc)]
    BY <1>4 DEF WorkerTop, WorkerIdle, WorkerStop
  <2>2. worker[w].job = NoJob /\ IdleWorker(pc).job = NoJob
    BY <1>1, <1>4, IdleWorkerType DEF WorkerTop, WorkerIdle, WorkerStop
  <2>3. Kept(InWorkers(d), InWorkers(d)')
    BY <2>1, <2>2, WorkerHolds
  <2>4. Kept(InChannel(d), InChannel(d)')
    <3>1. channel' = channel \/ channel' = << >>
      BY <1>4 DEF WorkerTop, WorkerIdle, WorkerStop
    <3> QED BY <3>1, PartsUnchanged, PartsAre, DroppedSpots
  <2>5. WorkerFrame /\ Kept(InReports(d), InReports(d)')
    BY <1>4, PartsUnchanged DEF WorkerTop, WorkerIdle, WorkerStop
  <2> QED BY <1>3, <2>3, <2>4, <2>5, StaysSettled
<1>5. CASE WorkerTake(w)
  <2> DEFINE r == [pc |-> "exec", job |-> Head(channel), attempt |-> 0, success |-> FALSE]
             X == Spots("channel", channel, Moving(d))
             Y == Spots("channel", Tail(channel), Moving(d))
  <2>1. /\ worker' = [worker EXCEPT ![w] = r] /\ channel # << >> /\ channel' = Tail(channel)
        /\ WorkerFrame /\ completions' = completions /\ worker[w].job = NoJob
    BY <1>1, <1>5 DEF WorkerTake
  <2>2. r.job = Head(channel)
    OBVIOUS
  <2>3. Kept(X, Y) /\ (Head(channel) \in Moving(d) => Emptied(X, Y))
    BY <1>1, <2>1, TailSpots, Zenon
  <2>4. InChannel(d) = X /\ InChannel(d)' = Y
    BY <2>1, PartsAre
  <2> HIDE DEF r, X, Y
  <2>5. /\ r.job \notin Moving(d) => Kept(InWorkers(d), InWorkers(d)')
        /\ Filled(InWorkers(d), InWorkers(d)')
    BY <1>2, <2>1, WorkerHolds
  <2>6. Kept(InReports(d), InReports(d)')
    BY <2>1, PartsUnchanged
  <2>7. CASE Head(channel) \in Moving(d)
    <3>1. Emptied(InChannel(d), InChannel(d)')
      BY <2>3, <2>4, <2>7
    <3> QED BY <1>3, <2>1, <2>5, <2>6, <3>1
            DEF Settled, Alone, AtMostOne, Nowhere, Kept, Filled, Emptied
  <2>8. CASE Head(channel) \notin Moving(d)
    BY <1>3, <2>1, <2>2, <2>3, <2>4, <2>5, <2>6, <2>8, StaysSettled
  <2> QED BY <2>7, <2>8
<1>6. CASE RetryTransfer(w)
  <2> DEFINE r == [worker[w] EXCEPT !.attempt = @ + 1]
  <2>1. worker' = [worker EXCEPT ![w] = r] /\ r.job = worker[w].job
    BY <1>1, <1>6 DEF RetryTransfer, WorkerState
  <2> HIDE DEF r
  <2>2. Kept(InWorkers(d), InWorkers(d)')
    BY <2>1, WorkerHolds
  <2>3. WorkerFrame /\ Kept(InChannel(d), InChannel(d)') /\ Kept(InReports(d), InReports(d)')
    BY <1>6, PartsUnchanged DEF RetryTransfer
  <2> QED BY <1>3, <2>2, <2>3, StaysSettled
<1>7. ASSUME NEW success \in BOOLEAN, FinishTransfer(w, success)  PROVE Settled(d)'
  <2>1. Kept(InWorkers(d), InWorkers(d)')
    <3>1. CASE CrossTier(worker[w].job)
      <4> DEFINE r == [worker[w] EXCEPT !.pc = "send", !.success = success]
      <4>1. worker' = [worker EXCEPT ![w] = r] /\ r.job = worker[w].job
        BY <1>1, <1>7, <3>1 DEF FinishTransfer, WorkerState
      <4> HIDE DEF r
      <4> QED BY <4>1, WorkerHolds
    <3>2. CASE ~CrossTier(worker[w].job)
      <4>1. worker' = [worker EXCEPT ![w] = IdleWorker("top")] /\ worker[w].job \notin Moving(d)
        BY <1>7, <3>2 DEF FinishTransfer, Moving
      <4>2. IdleWorker("top").job = NoJob
        BY IdleWorkerType
      <4> QED BY <1>2, <4>1, <4>2, WorkerHolds
    <3> QED BY <3>1, <3>2
  <2>2. WorkerFrame /\ Kept(InChannel(d), InChannel(d)') /\ Kept(InReports(d), InReports(d)')
    BY <1>7, PartsUnchanged DEF FinishTransfer
  <2> QED BY <1>3, <2>1, <2>2, StaysSettled
<1>8. CASE ReportCompletion(w)
  <2> DEFINE report == [chunk |-> worker[w].job.chunk, success |-> worker[w].success]
             X == Spots("completion", completions, Reports(d))
             Y == Spots("completion", Append(completions, report), Reports(d))
  <2>1. worker[w].job \in Job /\ worker[w].success \in BOOLEAN /\ CrossTier(worker[w].job)
    BY <1>1, <1>8 DEF ReportCompletion, WorkerState
  <2>2. /\ report \in [chunk : Chunk, success : BOOLEAN]
        /\ report \in Reports(d) <=> worker[w].job \in Moving(d)
    BY <2>1, EngineAssumption DEF Reports, Moving
  <2>3. /\ worker' = [worker EXCEPT ![w] = IdleWorker("top")]
        /\ completions' = Append(completions, report) \/ completions' = completions
        /\ WorkerFrame /\ channel' = channel
    BY <1>8 DEF ReportCompletion
  <2> HIDE DEF report, Y
  <2>4. (report \notin Reports(d) => Kept(X, Y)) /\ Filled(X, Y)
    BY <1>1, <2>2, AppendSpots, Zenon DEF Y
  <2> HIDE DEF X
  <2>5. /\ report \notin Reports(d) => Kept(InReports(d), InReports(d)')
        /\ Filled(InReports(d), InReports(d)')
    <3>1. CASE completions' = Append(completions, report)
      BY <2>4, <3>1, PartsAre DEF X, Y
    <3>2. CASE completions' = completions
      BY <3>2, PartsUnchanged DEF Kept, Filled, Single
    <3> QED BY <2>3, <3>1, <3>2
  <2>6. IdleWorker("top").job \notin Moving(d)
    BY <1>2, IdleWorkerType
  <2>7. /\ worker[w].job \notin Moving(d) => Kept(InWorkers(d), InWorkers(d)')
        /\ worker[w].job \in Moving(d) => Emptied(InWorkers(d), InWorkers(d)')
    BY <2>3, <2>6, WorkerHolds
  <2>8. Kept(InChannel(d), InChannel(d)')
    BY <2>3, PartsUnchanged
  <2>9. CASE worker[w].job \in Moving(d)
    BY <1>3, <2>3, <2>5, <2>7, <2>8, <2>9
       DEF Settled, Alone, AtMostOne, Nowhere, Kept, Filled, Emptied
  <2>10. CASE worker[w].job \notin Moving(d)
    BY <1>3, <2>2, <2>3, <2>5, <2>7, <2>8, <2>10, StaysSettled
  <2> QED BY <2>9, <2>10
<1> QED
  BY <1>4, <1>5, <1>6, <1>7, <1>8 DEF WorkerNext

\* A report at the head of the completion channel is of a Migrating chunk, and
\* the transition the handler asks for is valid.
LEMMA HeadReport ==
  ASSUME Shape, NEW d \in Chunk, Settled(d), completions # << >>, Head(completions).chunk = d
  PROVE  /\ states[d] = "Migrating"
         /\ IsValidTransition(states[d], Outcome(Head(completions)))
         /\ Head(completions) \in Reports(d)
<1>1. Head(completions) \in [chunk : Chunk, success : BOOLEAN] /\ 1 \in DOMAIN completions
      /\ Head(completions) = completions[1]
  <2> DEFINE Report == [chunk : Chunk, success : BOOLEAN]
  <2>1. completions \in Seq(Report)
    BY DEF Shape, TypeOK
  <2> HIDE DEF Report
  <2>2. Head(completions) \in Report /\ Len(completions) \in Nat \ {0}
    BY <2>1, TailType
  <2>3. DOMAIN completions = 1..Len(completions) /\ Head(completions) = completions[1]
    BY <2>1, <2>2
  <2> QED BY <2>2, <2>3 DEF Report
<1>2. Head(completions) \in Reports(d)
  BY <1>1 DEF Reports
<1>3. InReports(d) # {}
  <2>1. <<"completion", 1>> \in Spots("completion", completions, Reports(d))
    <3>1. 1 \in DOMAIN completions /\ completions[1] \in Reports(d)
      BY <1>1, <1>2, Zenon
    <3> QED BY <3>1, SpotsMember, Zenon
  <2> QED BY <2>1, PartsAre
<1>4. states[d] = "Migrating"
  BY <1>3 DEF Settled, Nowhere
<1> QED
  BY <1>2, <1>4 DEF IsValidTransition, Outcome

\* The completion handler.
LEMMA HandlerSettled ==
  ASSUME Shape, \A c \in Chunk : Settled(c), HandlerNext, NEW d \in Chunk
  PROVE  Settled(d)'
<1>1. /\ Settled(d) /\ completions \in Seq([chunk : Chunk, success : BOOLEAN])
      /\ states \in [Chunk -> ChunkState \cup {Absent}]
  BY DEF Shape, TypeOK, StatesType
<1>2. ASSUME HandlerFrame
      PROVE  /\ Kept(InClients(d), InClients(d)') /\ Kept(InQueue(d), InQueue(d)')
             /\ Kept(InHeld(d), InHeld(d)') /\ Kept(InChannel(d), InChannel(d)')
             /\ Kept(InWorkers(d), InWorkers(d)')
  BY <1>2, PartsUnchanged DEF HandlerFrame, queueVars
<1>3. HandlerFrame
  BY DEF HandlerNext, HandleCompletion, HandlerStop
<1>4. CASE completions' = << >> /\ UNCHANGED states
  <2>1. Kept(InReports(d), InReports(d)')
    BY <1>4, PartsAre, DroppedSpots
  <2> QED BY <1>1, <1>2, <1>3, <1>4, <2>1, StaysSettled
<1>5. CASE /\ HandleCompletion /\ completions # << >> /\ completions' = Tail(completions)
           /\ \A x \in Chunk : x # Head(completions).chunk => states'[x] = states[x]
  <2> DEFINE X == Spots("completion", completions, Reports(d))
             Y == Spots("completion", Tail(completions), Reports(d))
  <2>1. Kept(X, Y) /\ (Head(completions) \in Reports(d) => Emptied(X, Y))
    BY <1>1, <1>5, TailSpots, Zenon
  <2>2. InReports(d) = X /\ InReports(d)' = Y
    BY <1>5, PartsAre
  <2> HIDE DEF X, Y
  <2>3. CASE Head(completions).chunk = d
    <3>1. Emptied(InReports(d), InReports(d)')
      BY <1>1, <1>5, <2>1, <2>2, <2>3, HeadReport
    <3> QED BY <1>1, <1>2, <1>3, <3>1 DEF Settled, Alone, AtMostOne, Nowhere, Kept, Emptied
  <2>4. CASE Head(completions).chunk # d
    BY <1>1, <1>2, <1>3, <1>5, <2>1, <2>2, <2>4, StaysSettled
  <2> QED BY <2>3, <2>4
<1>6. CASE HandleCompletion
  <2>1. \/ completions' = << >> /\ UNCHANGED states
        \/ /\ completions' = Tail(completions)
           /\ UNCHANGED states \/ Transition(Head(completions).chunk, Outcome(Head(completions)))
    BY <1>6 DEF HandleCompletion
  <2>2. completions # << >>
    BY <1>6 DEF HandleCompletion
  <2>3. CASE completions' = Tail(completions) /\
             (UNCHANGED states \/ Transition(Head(completions).chunk, Outcome(Head(completions))))
    <3>1. \A x \in Chunk : x # Head(completions).chunk => states'[x] = states[x]
      BY <1>1, <2>3 DEF Transition
    <3> QED BY <1>5, <1>6, <2>2, <2>3, <3>1
  <2> QED BY <1>4, <2>1, <2>3
<1>7. CASE HandlerStop
  BY <1>4, <1>7 DEF HandlerStop
<1> QED
  BY <1>6, <1>7 DEF HandlerNext

-----------------------------------------------------------------------------
(* The theorems.                                                           *)

\* No migration is in flight when the engine starts.
LEMMA InitEngine == Init => EngineInv
<1> SUFFICES ASSUME Init  PROVE EngineInv
  OBVIOUS
<1>1. Shape
  BY InitShape
<1>2. ASSUME NEW c \in Chunk  PROVE Settled(c)
  <2>1. /\ Spots("queue", << >>, Moving(c)) = {} /\ Spots("channel", << >>, Moving(c)) = {}
        /\ Spots("completion", << >>, Reports(c)) = {}
    BY DroppedSpots
  <2>2. InQueue(c) = {} /\ InChannel(c) = {} /\ InReports(c) = {}
    BY <2>1, PartsAre DEF Init, QueueInit
  <2>3. NoJob \notin Moving(c)
    BY NoJobMovesNothing
  <2>4. InHeld(c) = {}
    BY <2>3, HeldSpots DEF Init
  <2>5. InClients(c) = {}
    BY <2>3 DEF Init, InClients, Spots
  <2>6. \A w \in Worker : WorkerJobs[w] = NoJob
    BY IdleWorkerType DEF Init, WorkerJobs
  <2>7. InWorkers(c) = {}
    BY <2>3, <2>6 DEF InWorkers, Spots, WorkerJobs
  <2> QED BY <2>2, <2>4, <2>5, <2>7 DEF Settled, Alone, AtMostOne, Nowhere, Single
<1> QED
  BY <1>1, <1>2, InFlightParts DEF EngineInv

\* EngineInv is inductive.
LEMMA NextEngine == EngineInv /\ [Next]_vars => EngineInv'
<1> SUFFICES ASSUME EngineInv, [Next]_vars  PROVE EngineInv'
  OBVIOUS
<1>1. Shape /\ \A c \in Chunk : Settled(c)
  BY InFlightParts DEF EngineInv
<1>2. Shape'
  <2>1. CASE UNCHANGED vars
    <3>1. RestType'
      BY <1>1, <2>1, ShapeParts DEF vars, engineVars, RestType
    <3> QED BY <1>1, <2>1, <3>1, ShapeParts, WorkersUnchanged, StatesUnchanged, QueueUnchanged
            DEF vars, engineVars
  <2> QED BY <1>1, <2>1, ClientShape, SchedulerShape, WorkerShape, HandlerShape DEF Next
<1>3. ASSUME NEW d \in Chunk  PROVE Settled(d)'
  <2>1. Settled(d)
    BY <1>1
  <2>2. CASE UNCHANGED vars
    <3>1. UNCHANGED <<states, client, jobs, held, channel, worker, completions>>
      BY <2>2 DEF vars, engineVars, queueVars
    <3> QED BY <2>1, <3>1, PartsUnchanged, StaysSettled
  <2>3. ASSUME NEW k \in Client, ClientNext(k)  PROVE Settled(d)'
    BY <1>1, <2>3, ClientSettled
  <2>4. CASE ShutdownSignal \/ ShutdownReturn \/ SchedulerNext
    BY <1>1, <2>1, <2>4, SchedulerSettled
  <2>5. ASSUME NEW w \in Worker, WorkerNext(w)  PROVE Settled(d)'
    BY <1>1, <2>1, <2>5, WorkerSettled
  <2>6. CASE HandlerNext
    BY <1>1, <2>6, HandlerSettled
  <2> QED BY <2>2, <2>3, <2>4, <2>5, <2>6 DEF Next
<1> QED
  BY <1>2, <1>3, InFlightParts DEF EngineInv

\* The inductive invariant holds in every reachable state.
THEOREM EngineInvariant == Spec => []EngineInv
  BY InitEngine, NextEngine, PTL DEF Spec

\* Every variable of the engine keeps its type; in particular neither channel
\* ever holds more than its capacity, and a worker has a job exactly while it
\* executes or reports one.
THEOREM EngineTypeCorrect == Spec => []TypeOK
  BY EngineInvariant, PTL DEF EngineInv, Shape

\* From the migrate call to the completion handler a moving chunk is Migrating,
\* for any number of chunks, clients and workers and any capacities.
THEOREM InFlightCorrect == Spec => []InFlightIsMigrating
  BY EngineInvariant, PTL DEF EngineInv

\* No two migrations of one chunk are ever in flight together.
THEOREM OneMigrationCorrect == Spec => []OneMigrationInFlight
  BY EngineInvariant, PTL DEF EngineInv

=============================================================================
