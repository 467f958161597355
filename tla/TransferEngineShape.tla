------------------------- MODULE TransferEngineShape --------------------------
(***************************************************************************)
(* The shape of the transfer engine's state, and where the job of a        *)
(* migration can be: the lemmas the proofs about the engine rest on.       *)
(*                                                                         *)
(* Shape adds three facts to the type: the queue's own invariant (its      *)
(* counter is the length of the deque), a worker about to report holds a   *)
(* cross-tier job, and no chunk is ever seen Allocated or Cached.          *)
(***************************************************************************)
EXTENDS TransferEngine, TransferQueueProofs

\* The six places a migration passes through.
InClients(c) == Spots("client", client, Moving(c))
InQueue(c)   == Spots("queue", jobs, Moving(c))
InHeld(c)    == Spots("held", <<held>>, Moving(c))
InChannel(c) == Spots("channel", channel, Moving(c))
InWorkers(c) == Spots("worker", WorkerJobs, Moving(c))
InReports(c) == Spots("completion", completions, Reports(c))

Single(X) == \A p, q \in X : p = q

\* A worker that is about to report has executed a cross-tier job.
SendersMove ==
  \A w \in Worker : worker[w].pc = "send" => CrossTier(worker[w].job)

\* The states a chunk is seen in between two calls.
VisibleStates ==
  \A c \in Chunk : states[c] \in {Absent, "Stored", "Migrating", "Evicted", "Failed"}

\* The type, with what its preservation needs.
Shape == TypeOK /\ QueueInv /\ SendersMove /\ VisibleStates

-----------------------------------------------------------------------------
(* Types.                                                                  *)

\* Sending on a channel.
LEMMA AppendType ==
  ASSUME NEW S, NEW s \in Seq(S), NEW e \in S
  PROVE  Append(s, e) \in Seq(S) /\ Len(Append(s, e)) = Len(s) + 1 /\ Len(s) \in Nat
OBVIOUS

\* Receiving from a channel that is not empty.
LEMMA TailType ==
  ASSUME NEW S, NEW s \in Seq(S), s # << >>
  PROVE  /\ Tail(s) \in Seq(S) /\ Len(Tail(s)) = Len(s) - 1 /\ Head(s) \in S
         /\ Len(s) \in Nat \ {0}
OBVIOUS

\* What a call submits is a job.
LEMMA NewJobType ==
  ASSUME NEW c \in Chunk, NEW from \in Tier, NEW to \in Tier, NEW priority \in TransferPriority
  PROVE  /\ NewJob(c, from, to, priority) \in Job
         /\ NewJob(c, from, to, priority).chunk = c
         /\ NewJob(c, from, to, priority).from = from
         /\ NewJob(c, from, to, priority).to = to
BY EngineAssumption DEF NewJob

\* A worker without a job.
LEMMA IdleWorkerType ==
  ASSUME NEW pc \in {"top", "recv", "stopped"}
  PROVE  /\ IdleWorker(pc) \in WorkerState
         /\ IdleWorker(pc).pc = pc /\ IdleWorker(pc).job = NoJob
BY EngineAssumption DEF IdleWorker, WorkerState

\* The part of the type that speaks of the workers.
WorkersType ==
  /\ worker \in [Worker -> WorkerState]
  /\ \A w \in Worker : worker[w].pc \in {"exec", "send"} <=> worker[w].job # NoJob

\* The initial state has the type.
LEMMA InitShape == Init => Shape
<1> SUFFICES ASSUME Init  PROVE Shape
  OBVIOUS
<1>1. QueueInv
  BY InitQueueInv DEF Init
<1>2. WorkersType /\ SendersMove
  BY IdleWorkerType DEF Init, WorkersType, SendersMove
<1>3. StatesType /\ VisibleStates
  BY DEF Init, StatesInit, StatesType, VisibleStates, Absent
<1>4. channel \in Seq(Job) /\ Len(channel) <= ChannelCapacity
  BY EngineAssumption DEF Init
<1>5. /\ completions \in Seq([chunk : Chunk, success : BOOLEAN])
      /\ Len(completions) <= ChannelCapacity
  BY EngineAssumption DEF Init
<1>6. client \in [Client -> Job \cup {NoJob}]
  BY DEF Init
<1> QED
  BY <1>1, <1>2, <1>3, <1>4, <1>5, <1>6 DEF Init, Shape, TypeOK, QueueInv, WorkersType

\* The part of the type that is neither the workers' nor the chunk table's
\* nor the queue's.
RestType ==
  /\ poisoned \in BOOLEAN
  /\ client \in [Client -> Job \cup {NoJob}]
  /\ signal \in BOOLEAN
  /\ shutdownCall \in {"none", "waiting", "drained", "timed out"}
  /\ scheduler \in {"running", "stopped"}
  /\ held \in Job \cup {NoJob}
  /\ channel \in Seq(Job) /\ Len(channel) <= ChannelCapacity
  /\ completions \in Seq([chunk : Chunk, success : BOOLEAN])
  /\ Len(completions) <= ChannelCapacity
  /\ handler \in {"running", "stopped"}

\* The parts of a state's shape, before a step and after it.
LEMMA ShapeParts ==
  /\ Shape => /\ RestType /\ WorkersType /\ SendersMove
              /\ StatesType /\ VisibleStates /\ QueueInv
  /\ RestType' /\ WorkersType' /\ SendersMove' /\ StatesType' /\ VisibleStates' /\ QueueInv'
       => Shape'
BY DEF Shape, TypeOK, RestType, WorkersType, QueueInv

\* A step that leaves the workers alone.
LEMMA WorkersUnchanged ==
  WorkersType /\ SendersMove /\ UNCHANGED worker => WorkersType' /\ SendersMove'
BY DEF WorkersType, SendersMove, CrossTier

\* A step that leaves the chunk table alone.
LEMMA StatesUnchanged ==
  StatesType /\ VisibleStates /\ UNCHANGED states => StatesType' /\ VisibleStates'
BY DEF StatesType, VisibleStates

\* A step that leaves the transfer queue alone.
LEMMA QueueUnchanged ==
  QueueInv /\ UNCHANGED queueVars => QueueInv'
BY DEF QueueInv, QueueType, DepthIsLength, UrgentFirst, queueVars

\* A chunk that changes its state to a visible one.
LEMMA TransitionType ==
  ASSUME StatesType, VisibleStates, NEW c \in Chunk,
         NEW to \in {"Stored", "Migrating", "Evicted", "Failed"}, Transition(c, to)
  PROVE  StatesType' /\ VisibleStates'
BY DEF StatesType, VisibleStates, Transition, ChunkState

\* The client calls.
LEMMA ClientShape ==
  ASSUME Shape, NEW k \in Client, ClientNext(k)
  PROVE  Shape'
<1> USE ShapeParts
<1>1. ASSUME NEW c \in Chunk, NEW tier \in ClientTier, Store(k, c, tier)  PROVE Shape'
  <2>1. NewJob(c, tier, tier, "Normal") \in Job
    BY EngineAssumption, NewJobType DEF TransferPriority
  <2>2. RestType'
    BY <1>1, <2>1, EngineAssumption DEF RestType, Store, InvalidTransition
  <2>3. StatesType' /\ VisibleStates'
    BY <1>1, TransitionType, StatesUnchanged DEF Store, InvalidTransition
  <2> QED BY <1>1, <2>2, <2>3, WorkersUnchanged, QueueUnchanged DEF Store
<1>2. ASSUME NEW c \in Chunk, NEW tier \in ClientTier, Retrieve(k, c, tier)  PROVE Shape'
  <2>1. NewJob(c, tier, tier, "High") \in Job
    BY EngineAssumption, NewJobType DEF TransferPriority
  <2>2. RestType'
    BY <1>2, <2>1 DEF RestType, Retrieve
  <2> QED BY <1>2, <2>2, StatesUnchanged, WorkersUnchanged, QueueUnchanged DEF Retrieve
<1>3. ASSUME NEW c \in Chunk, NEW route \in Route, NEW large \in Large,
             Migrate(k, c, route, large)
      PROVE  Shape'
  <2>1. NewJob(c, route[1], route[2], IF large THEN "Normal" ELSE "High") \in Job
    BY EngineAssumption, NewJobType DEF TransferPriority
  <2>2. RestType'
    BY <1>3, <2>1 DEF RestType, Migrate
  <2>3. StatesType' /\ VisibleStates'
    BY <1>3, TransitionType DEF Migrate
  <2> QED BY <1>3, <2>2, <2>3, WorkersUnchanged, QueueUnchanged DEF Migrate
<1>4. ASSUME NEW c \in Chunk, Evict(k, c)  PROVE Shape'
  <2>1. RestType'
    BY <1>4, EngineAssumption DEF RestType, Evict, InvalidTransition
  <2>2. StatesType' /\ VisibleStates'
    BY <1>4, TransitionType, StatesUnchanged DEF Evict, InvalidTransition
  <2> QED BY <1>4, <2>1, <2>2, WorkersUnchanged, QueueUnchanged DEF Evict
<1>5. CASE SubmitJob(k)
  <2>1. RestType' /\ client[k] \in Job
    BY <1>5 DEF RestType, SubmitJob
  <2>2. QueueInv'
    BY <1>5, <2>1, SubmitKeepsQueueInv, QueueUnchanged DEF SubmitJob
  <2> QED BY <1>5, <2>1, <2>2, StatesUnchanged, WorkersUnchanged DEF SubmitJob
<1> QED
  BY <1>1, <1>2, <1>3, <1>4, <1>5 DEF ClientNext

\* shutdown and the scheduler task.
LEMMA SchedulerShape ==
  ASSUME Shape, ShutdownSignal \/ ShutdownReturn \/ SchedulerNext
  PROVE  Shape'
<1> USE ShapeParts
<1>1. CASE ShutdownSignal
  <2>1. QueueInv'
    BY <1>1 DEF ShutdownSignal, Shutdown, QueueInv, QueueType, DepthIsLength, UrgentFirst
  <2>2. RestType'
    BY <1>1 DEF ShutdownSignal, RestType
  <2> QED BY <1>1, <2>1, <2>2, StatesUnchanged, WorkersUnchanged DEF ShutdownSignal
<1>2. CASE ShutdownReturn
  <2>1. RestType'
    BY <1>2 DEF ShutdownReturn, RestType
  <2> QED BY <1>2, <2>1, StatesUnchanged, WorkersUnchanged, QueueUnchanged DEF ShutdownReturn
<1>3. CASE DequeueJob
  <2>1. Head(jobs) \in Job
    BY <1>3, TailType DEF DequeueJob, PopFront, QueueInv, QueueType
  <2>2. QueueInv'
    BY <1>3, PopKeepsQueueInv DEF DequeueJob
  <2>3. RestType'
    BY <1>3, <2>1 DEF DequeueJob, RestType
  <2> QED BY <1>3, <2>2, <2>3, StatesUnchanged, WorkersUnchanged DEF DequeueJob
<1>4. CASE DispatchJob
  <2>1. held \in Job
    BY <1>4 DEF DispatchJob, RestType
  <2>2. channel' \in Seq(Job) /\ Len(channel') <= ChannelCapacity
    <3>1. CASE ChannelAccepts
      <4>1. channel' = Append(channel, held) /\ Len(channel) < ChannelCapacity
        BY <1>4, <3>1 DEF DispatchJob, ChannelAccepts
      <4>2. channel' \in Seq(Job) /\ Len(channel') = Len(channel) + 1 /\ Len(channel) \in Nat
        BY <2>1, <4>1, AppendType DEF RestType
      <4> QED BY <4>1, <4>2, EngineAssumption
    <3>2. CASE ~ChannelAccepts
      BY <1>4, <3>2 DEF DispatchJob, RestType
    <3> QED BY <3>1, <3>2
  <2>3. RestType'
    BY <1>4, <2>2 DEF DispatchJob, RestType
  <2> QED BY <1>4, <2>3, StatesUnchanged, WorkersUnchanged, QueueUnchanged DEF DispatchJob
<1>5. CASE SchedulerStop
  <2>1. RestType'
    BY <1>5 DEF SchedulerStop, RestType
  <2> QED BY <1>5, <2>1, StatesUnchanged, WorkersUnchanged, QueueUnchanged DEF SchedulerStop
<1> QED
  BY <1>1, <1>2, <1>3, <1>4, <1>5 DEF SchedulerNext

\* The worker tasks.
LEMMA WorkerShape ==
  ASSUME Shape, NEW w \in Worker, WorkerNext(w)
  PROVE  Shape'
<1> USE ShapeParts
<1>1. /\ worker \in [Worker -> WorkerState] /\ worker[w] \in WorkerState
      /\ \A v \in Worker : worker[v].pc \in {"exec", "send"} <=> worker[v].job # NoJob
      /\ \A v \in Worker : worker[v].pc = "send" => CrossTier(worker[v].job)
  BY DEF WorkersType, SendersMove
<1>2. ASSUME WorkerFrame  PROVE StatesType' /\ VisibleStates' /\ QueueInv'
  BY <1>2, StatesUnchanged, QueueUnchanged DEF WorkerFrame
<1>3. ASSUME NEW r \in WorkerState, worker' = [worker EXCEPT ![w] = r],
             r.pc \in {"exec", "send"} <=> r.job # NoJob,
             r.pc = "send" => CrossTier(r.job)
      PROVE  WorkersType' /\ SendersMove'
  BY <1>1, <1>3 DEF WorkersType, SendersMove
<1>4. ASSUME NEW pc \in {"top", "recv", "stopped"}, worker' = [worker EXCEPT ![w] = IdleWorker(pc)]
      PROVE  WorkersType' /\ SendersMove'
  BY <1>3, <1>4, IdleWorkerType
<1>5. CASE WorkerTop(w) \/ WorkerIdle(w)
  <2>1. RestType'
    BY <1>5 DEF WorkerTop, WorkerIdle, WorkerFrame, RestType
  <2> QED BY <1>2, <1>4, <1>5, <2>1 DEF WorkerTop, WorkerIdle
<1>6. CASE WorkerStop(w)
  <2>1. channel' \in Seq(Job) /\ Len(channel') <= ChannelCapacity
    <3>1. << >> \in Seq(Job) /\ Len(<< >>) <= ChannelCapacity
      BY EngineAssumption
    <3> QED BY <1>6, <3>1 DEF WorkerStop, RestType
  <2>2. RestType'
    BY <1>6, <2>1 DEF WorkerStop, WorkerFrame, RestType
  <2> QED BY <1>2, <1>4, <1>6, <2>2 DEF WorkerStop
<1>7. CASE WorkerTake(w)
  <2>1. /\ Tail(channel) \in Seq(Job) /\ Len(Tail(channel)) <= ChannelCapacity
        /\ Head(channel) \in Job
    <3>1. channel \in Seq(Job) /\ channel # << >> /\ Len(channel) <= ChannelCapacity
      BY <1>7 DEF WorkerTake, RestType
    <3>2. /\ Tail(channel) \in Seq(Job) /\ Len(Tail(channel)) = Len(channel) - 1
          /\ Head(channel) \in Job /\ Len(channel) \in Nat \ {0}
      BY <3>1, TailType
    <3> QED BY <3>1, <3>2, EngineAssumption
  <2>2. RestType'
    BY <1>7, <2>1 DEF WorkerTake, WorkerFrame, RestType
  <2> DEFINE r == [pc |-> "exec", job |-> Head(channel), attempt |-> 0, success |-> FALSE]
  <2>3. r \in WorkerState /\ r.pc = "exec" /\ r.job # NoJob
    BY <2>1, EngineAssumption DEF WorkerState
  <2>4. worker' = [worker EXCEPT ![w] = r]
    BY <1>7 DEF WorkerTake
  <2> QED BY <1>2, <1>3, <1>7, <2>2, <2>3, <2>4 DEF WorkerTake
<1>8. CASE RetryTransfer(w)
  <2>1. RestType'
    BY <1>8 DEF RetryTransfer, WorkerFrame, RestType
  <2> DEFINE r == [worker[w] EXCEPT !.attempt = @ + 1]
  <2>2. r \in WorkerState /\ r.pc = "exec" /\ r.job = worker[w].job /\ r.job # NoJob
    BY <1>1, <1>8, EngineAssumption DEF RetryTransfer, WorkerState
  <2>3. worker' = [worker EXCEPT ![w] = r]
    BY <1>8 DEF RetryTransfer
  <2> HIDE DEF r
  <2> QED BY <1>2, <1>3, <1>8, <2>1, <2>2, <2>3 DEF RetryTransfer
<1>9. ASSUME NEW success \in BOOLEAN, FinishTransfer(w, success)  PROVE Shape'
  <2>1. RestType'
    BY <1>9 DEF FinishTransfer, WorkerFrame, RestType
  <2>2. CASE CrossTier(worker[w].job)
    <3> DEFINE r == [worker[w] EXCEPT !.pc = "send", !.success = success]
    <3>1. r \in WorkerState /\ r.pc = "send" /\ r.job = worker[w].job /\ r.job # NoJob
      BY <1>1, <1>9 DEF FinishTransfer, WorkerState
    <3>2. worker' = [worker EXCEPT ![w] = r]
      BY <1>9, <2>2 DEF FinishTransfer
    <3> HIDE DEF r
    <3> QED BY <1>2, <1>3, <1>9, <2>1, <2>2, <3>1, <3>2 DEF FinishTransfer
  <2>3. CASE ~CrossTier(worker[w].job)
    BY <1>2, <1>4, <1>9, <2>1, <2>3 DEF FinishTransfer
  <2> QED BY <2>2, <2>3
<1>10. CASE ReportCompletion(w)
  <2>1. worker[w].job \in Job /\ worker[w].success \in BOOLEAN
    BY <1>1, <1>10 DEF ReportCompletion, WorkerState
  <2>2. /\ completions' \in Seq([chunk : Chunk, success : BOOLEAN])
        /\ Len(completions') <= ChannelCapacity
    <3> DEFINE report == [chunk |-> worker[w].job.chunk, success |-> worker[w].success]
    <3>1. report \in [chunk : Chunk, success : BOOLEAN]
      BY <2>1, EngineAssumption
    <3> HIDE DEF report
    <3>2. CASE completions' = Append(completions, report) /\ Len(completions) < ChannelCapacity
      <4>1. /\ completions' \in Seq([chunk : Chunk, success : BOOLEAN])
            /\ Len(completions') = Len(completions) + 1 /\ Len(completions) \in Nat
        BY <3>1, <3>2, AppendType DEF RestType
      <4> QED BY <3>2, <4>1, EngineAssumption
    <3>3. CASE UNCHANGED completions
      BY <3>3 DEF RestType
    <3> QED BY <1>10, <3>2, <3>3 DEF ReportCompletion, report
  <2>3. RestType'
    BY <1>10, <2>2 DEF ReportCompletion, WorkerFrame, RestType
  <2> QED BY <1>2, <1>4, <1>10, <2>3 DEF ReportCompletion
<1> QED
  BY <1>5, <1>6, <1>7, <1>8, <1>9, <1>10 DEF WorkerNext

\* The completion handler.
LEMMA HandlerShape ==
  ASSUME Shape, HandlerNext
  PROVE  Shape'
<1> USE ShapeParts
<1>1. ASSUME HandlerFrame  PROVE WorkersType' /\ SendersMove' /\ QueueInv'
  BY <1>1, WorkersUnchanged, QueueUnchanged DEF HandlerFrame
<1>2. /\ << >> \in Seq([chunk : Chunk, success : BOOLEAN])
      /\ Len(<< >>) <= ChannelCapacity
  BY EngineAssumption
<1>3. CASE HandleCompletion
  <2>1. /\ Tail(completions) \in Seq([chunk : Chunk, success : BOOLEAN])
        /\ Len(Tail(completions)) <= ChannelCapacity
        /\ Head(completions) \in [chunk : Chunk, success : BOOLEAN]
    <3> DEFINE Report == [chunk : Chunk, success : BOOLEAN]
    <3>1. completions \in Seq(Report) /\ completions # << >> /\ Len(completions) <= ChannelCapacity
      BY <1>3 DEF HandleCompletion, RestType
    <3> HIDE DEF Report
    <3>2. /\ Tail(completions) \in Seq(Report) /\ Len(Tail(completions)) = Len(completions) - 1
          /\ Head(completions) \in Report /\ Len(completions) \in Nat \ {0}
      BY <3>1, TailType
    <3> QED BY <3>1, <3>2, EngineAssumption DEF Report
  <2>2. RestType'
    BY <1>2, <1>3, <2>1 DEF HandleCompletion, HandlerFrame, RestType
  <2>3. Outcome(Head(completions)) \in {"Stored", "Failed"} /\ Head(completions).chunk \in Chunk
    BY <2>1 DEF Outcome
  <2>4. \/ UNCHANGED states
        \/ Transition(Head(completions).chunk, Outcome(Head(completions)))
    BY <1>3 DEF HandleCompletion
  <2>5. StatesType' /\ VisibleStates'
    BY <2>3, <2>4, StatesUnchanged, TransitionType
  <2> QED BY <1>1, <1>3, <2>2, <2>5 DEF HandleCompletion
<1>4. CASE HandlerStop
  <2>1. RestType'
    BY <1>2, <1>4 DEF HandlerStop, HandlerFrame, RestType
  <2> QED BY <1>1, <1>4, <2>1, StatesUnchanged DEF HandlerStop
<1> QED
  BY <1>3, <1>4 DEF HandlerNext

-----------------------------------------------------------------------------
(* The places of a migration: each step of the engine adds an element to   *)
(* one of them, takes one away, or hands one over.                         *)

\* What a step does to the spots X of one place, which become Y.
Kept(X, Y)    == (X = {} => Y = {}) /\ (Single(X) => Single(Y))
Filled(X, Y)  == X = {} => Single(Y)
Emptied(X, Y) == X # {} /\ (Single(X) => Y = {})

\* A spot is the position of an element that carries the chunk.
LEMMA SpotsMember ==
  ASSUME NEW tag, NEW s, NEW M, NEW p
  PROVE  p \in Spots(tag, s, M) <=> \E i \in DOMAIN s : s[i] \in M /\ p = <<tag, i>>
BY DEF Spots

\* Sending on a channel fills its place only if the element carries the chunk.
LEMMA AppendSpots ==
  ASSUME NEW tag, NEW M, NEW S, NEW s \in Seq(S), NEW e \in S
  PROVE  /\ e \notin M => Kept(Spots(tag, s, M), Spots(tag, Append(s, e), M))
         /\ Filled(Spots(tag, s, M), Spots(tag, Append(s, e), M))
<1>1. /\ DOMAIN s = 1..Len(s) /\ DOMAIN Append(s, e) = 1..(Len(s) + 1) /\ Len(s) \in Nat
      /\ \A i \in 1..Len(s) : Append(s, e)[i] = s[i]
      /\ Append(s, e)[Len(s) + 1] = e
  OBVIOUS
<1>2. ASSUME NEW i  PROVE i \in 1..(Len(s) + 1) <=> i \in 1..Len(s) \/ i = Len(s) + 1
  BY <1>1
<1>3. e \notin M => Spots(tag, Append(s, e), M) = Spots(tag, s, M)
  BY <1>1, <1>2, Zenon DEF Spots
<1>4. ASSUME Spots(tag, s, M) = {}, NEW p \in Spots(tag, Append(s, e), M)
      PROVE  p = <<tag, Len(s) + 1>>
  <2>1. PICK i \in DOMAIN Append(s, e) : Append(s, e)[i] \in M /\ p = <<tag, i>>
    BY DEF Spots
  <2>2. i \notin DOMAIN s \/ s[i] \notin M
    BY <1>4 DEF Spots
  <2> QED BY <1>1, <1>2, <2>1, <2>2, Zenon
<1>5. Filled(Spots(tag, s, M), Spots(tag, Append(s, e), M))
  BY <1>4, Zenon DEF Filled, Single
<1> QED
  BY <1>3, <1>5 DEF Kept

\* Overwriting one entry of a function.
Overwritten(f, k, e, g) ==
  /\ DOMAIN g = DOMAIN f /\ k \in DOMAIN f /\ g[k] = e
  /\ \A i \in DOMAIN f : i # k => g[i] = f[i]

\* A client or a worker that takes a job.
LEMMA OverwriteSpots ==
  ASSUME NEW tag, NEW M, NEW f, NEW k, NEW e, NEW g, Overwritten(f, k, e, g), f[k] \notin M
  PROVE  /\ e \notin M => Kept(Spots(tag, f, M), Spots(tag, g, M))
         /\ Filled(Spots(tag, f, M), Spots(tag, g, M))
<1>1. e \notin M => Spots(tag, g, M) = Spots(tag, f, M)
  BY DEF Spots, Overwritten
<1>2. ASSUME Spots(tag, f, M) = {}, NEW p \in Spots(tag, g, M)  PROVE p = <<tag, k>>
  BY <1>2 DEF Spots, Overwritten
<1>3. Filled(Spots(tag, f, M), Spots(tag, g, M))
  BY <1>2, Zenon DEF Filled, Single
<1> QED
  BY <1>1, <1>3 DEF Kept

\* A client or a worker that gives its job away.
LEMMA RemoveSpots ==
  ASSUME NEW tag, NEW M, NEW f, NEW k, NEW e, NEW g, Overwritten(f, k, e, g),
         f[k] \in M, e \notin M
  PROVE  Emptied(Spots(tag, f, M), Spots(tag, g, M))
<1>1. \A i : <<tag, i>> = <<tag, k>> => i = k
  OBVIOUS
<1>2. <<tag, k>> \in Spots(tag, f, M)
  BY DEF Spots, Overwritten
<1>3. ASSUME Single(Spots(tag, f, M)), NEW p \in Spots(tag, g, M)  PROVE FALSE
  <2>1. PICK i \in DOMAIN f : f[i] \in M /\ i # k
    BY <1>3 DEF Spots, Overwritten
  <2>2. <<tag, i>> \in Spots(tag, f, M)
    BY <2>1 DEF Spots
  <2> QED BY <1>1, <1>2, <1>3, <2>1, <2>2 DEF Single
<1> QED
  BY <1>2, <1>3 DEF Emptied

\* Taking the head.
LEMMA TailSpots ==
  ASSUME NEW tag, NEW M, NEW S, NEW s \in Seq(S), s # << >>
  PROVE  /\ Kept(Spots(tag, s, M), Spots(tag, Tail(s), M))
         /\ Head(s) \in M => Emptied(Spots(tag, s, M), Spots(tag, Tail(s), M))
<1>1. /\ DOMAIN s = 1..Len(s) /\ Len(s) \in Nat \ {0}
      /\ DOMAIN Tail(s) = 1..(Len(s) - 1)
      /\ \A i \in 1..(Len(s) - 1) : Tail(s)[i] = s[i + 1]
      /\ Head(s) = s[1]
  OBVIOUS
<1>2. ASSUME NEW i \in DOMAIN Tail(s), Tail(s)[i] \in M
      PROVE  <<tag, i + 1>> \in Spots(tag, s, M) /\ i + 1 # 1
  <2>1. i + 1 \in DOMAIN s /\ s[i + 1] \in M /\ i + 1 # 1
    BY <1>1, <1>2
  <2> QED BY <2>1, SpotsMember, Zenon
<1>3. Spots(tag, s, M) = {} => Spots(tag, Tail(s), M) = {}
  BY <1>2, SpotsMember, Zenon
<1>4. ASSUME Single(Spots(tag, s, M)), NEW p \in Spots(tag, Tail(s), M),
             NEW q \in Spots(tag, Tail(s), M)
      PROVE  p = q
  <2>1. PICK i \in DOMAIN Tail(s) : Tail(s)[i] \in M /\ p = <<tag, i>>
    BY DEF Spots
  <2>2. PICK j \in DOMAIN Tail(s) : Tail(s)[j] \in M /\ q = <<tag, j>>
    BY DEF Spots
  <2>3. <<tag, i + 1>> = <<tag, j + 1>>
    BY <1>2, <1>4, <2>1, <2>2, Zenon DEF Single
  <2>4. i = j
    BY <1>1, <2>3
  <2> QED BY <2>1, <2>2, <2>4
<1>5. ASSUME Head(s) \in M
      PROVE  <<tag, 1>> \in Spots(tag, s, M)
  <2>1. 1 \in DOMAIN s /\ s[1] \in M
    BY <1>1, <1>5
  <2> QED BY <2>1, SpotsMember, Zenon
<1>6. ASSUME Head(s) \in M, Single(Spots(tag, s, M)), NEW p \in Spots(tag, Tail(s), M)
      PROVE  FALSE
  <2>1. PICK i \in DOMAIN Tail(s) : Tail(s)[i] \in M /\ p = <<tag, i>>
    BY DEF Spots
  <2>2. <<tag, i + 1>> = <<tag, 1>>
    BY <1>2, <1>5, <1>6, <2>1, Zenon DEF Single
  <2> QED BY <1>2, <2>1, <2>2
<1>7. Single(Spots(tag, s, M)) => Single(Spots(tag, Tail(s), M))
  BY <1>4 DEF Single
<1> QED
  BY <1>3, <1>5, <1>6, <1>7 DEF Kept, Emptied

\* Inserting into the deque.
LEMMA InsertSpots ==
  ASSUME NEW tag, NEW M, NEW S, NEW s \in Seq(S), NEW r \in Seq(S),
         NEW p \in 1..(Len(s) + 1), NEW e, Inserted(s, p, e, r)
  PROVE  /\ e \notin M => Kept(Spots(tag, s, M), Spots(tag, r, M))
         /\ Filled(Spots(tag, s, M), Spots(tag, r, M))
<1>1. /\ DOMAIN s = 1..Len(s) /\ Len(s) \in Nat /\ DOMAIN r = 1..(Len(s) + 1)
      /\ \A i \in 1..(p - 1) : r[i] = s[i]
      /\ r[p] = e
      /\ \A i \in (p + 1)..(Len(s) + 1) : r[i] = s[i - 1]
  BY DEF Inserted
<1> DEFINE old(i) == IF i < p THEN i ELSE i - 1
<1>2. ASSUME NEW i \in DOMAIN r, r[i] \in M, i # p
      PROVE  old(i) \in DOMAIN s /\ s[old(i)] \in M
  <2>1. CASE i < p
    BY <1>1, <1>2, <2>1
  <2>2. CASE i > p
    <3>1. i \in (p + 1)..(Len(s) + 1) /\ i - 1 \in 1..Len(s)
      BY <1>1, <2>2
    <3> QED BY <1>1, <1>2, <2>2, <3>1
  <2> QED BY <1>1, <1>2, <2>1, <2>2
<1>3. ASSUME NEW i \in DOMAIN r, r[i] \in M, i # p
      PROVE  <<tag, old(i)>> \in Spots(tag, s, M)
  BY <1>2, <1>3, SpotsMember
<1>4. ASSUME NEW i \in DOMAIN r, NEW j \in DOMAIN r, i # p, j # p, old(i) = old(j)
      PROVE  i = j
  BY <1>1, <1>4
<1> HIDE DEF old
<1>5. ASSUME e \notin M, Spots(tag, s, M) = {}  PROVE Spots(tag, r, M) = {}
  BY <1>1, <1>3, <1>5, SpotsMember, Zenon
<1>6. ASSUME e \notin M, Single(Spots(tag, s, M)), NEW x \in Spots(tag, r, M),
             NEW y \in Spots(tag, r, M)
      PROVE  x = y
  <2>1. PICK i \in DOMAIN r : r[i] \in M /\ x = <<tag, i>>
    BY DEF Spots
  <2>2. PICK j \in DOMAIN r : r[j] \in M /\ y = <<tag, j>>
    BY DEF Spots
  <2>3. i # p /\ j # p
    BY <1>1, <1>6, <2>1, <2>2
  <2>4. <<tag, old(i)>> = <<tag, old(j)>>
    BY <1>3, <1>6, <2>1, <2>2, <2>3, Zenon DEF Single
  <2>5. old(i) = old(j)
    BY <2>4
  <2> QED BY <1>4, <2>1, <2>2, <2>3, <2>5
<1>7. ASSUME Spots(tag, s, M) = {}, NEW x \in Spots(tag, r, M)  PROVE x = <<tag, p>>
  <2>1. PICK i \in DOMAIN r : r[i] \in M /\ x = <<tag, i>>
    BY DEF Spots
  <2> QED BY <1>3, <1>7, <2>1
<1> QED
  BY <1>5, <1>6, <1>7, Zenon DEF Single, Kept, Filled

\* At most one of six sets has an element, and at most one.
AtMostOne(A, B, C, D, E, F) ==
  /\ Single(A) /\ Single(B) /\ Single(C) /\ Single(D) /\ Single(E) /\ Single(F)
  /\ A # {} => B = {} /\ C = {} /\ D = {} /\ E = {} /\ F = {}
  /\ B # {} => C = {} /\ D = {} /\ E = {} /\ F = {}
  /\ C # {} => D = {} /\ E = {} /\ F = {}
  /\ D # {} => E = {} /\ F = {}
  /\ E # {} => F = {}

\* The migration of c is in one of the six places, or in none.
Alone(c) ==
  AtMostOne(InClients(c), InQueue(c), InHeld(c), InChannel(c), InWorkers(c), InReports(c))

Nowhere(c) ==
  /\ InClients(c) = {} /\ InQueue(c) = {} /\ InHeld(c) = {}
  /\ InChannel(c) = {} /\ InWorkers(c) = {} /\ InReports(c) = {}

\* The tags keep the six places apart.
LEMMA SixParts ==
  ASSUME NEW A, NEW B, NEW C, NEW D, NEW E, NEW F,
         \A p \in A : p[1] = "client", \A p \in B : p[1] = "queue",
         \A p \in C : p[1] = "held", \A p \in D : p[1] = "channel",
         \A p \in E : p[1] = "worker", \A p \in F : p[1] = "completion"
  PROVE  /\ Single(UNION {A, B, C, D, E, F}) <=> AtMostOne(A, B, C, D, E, F)
         /\ UNION {A, B, C, D, E, F} = {} <=>
              A = {} /\ B = {} /\ C = {} /\ D = {} /\ E = {} /\ F = {}
<1> DEFINE U == UNION {A, B, C, D, E, F}
<1>1. \A p : p \in U <=> p \in A \/ p \in B \/ p \in C \/ p \in D \/ p \in E \/ p \in F
  OBVIOUS
<1> HIDE DEF U
<1>2. ASSUME Single(U)  PROVE AtMostOne(A, B, C, D, E, F)
  <2>1. /\ Single(A) /\ Single(B) /\ Single(C) /\ Single(D) /\ Single(E) /\ Single(F)
    BY <1>1, <1>2, Zenon DEF Single
  <2>2. \A p, q \in U : p[1] = q[1]
    BY <1>2, Zenon DEF Single
  <2> QED BY <1>1, <2>1, <2>2 DEF AtMostOne
<1>3. ASSUME AtMostOne(A, B, C, D, E, F)  PROVE Single(U)
  BY <1>1, <1>3 DEF AtMostOne, Single
<1>4. U = {} <=> A = {} /\ B = {} /\ C = {} /\ D = {} /\ E = {} /\ F = {}
  BY <1>1
<1> QED
  BY <1>2, <1>3, <1>4 DEF U

\* What the invariants say, place by place.
LEMMA CarryingParts ==
  \A c : /\ Single(Carrying(c)) <=> Alone(c)
         /\ Carrying(c) = {} <=> Nowhere(c)
<1> SUFFICES ASSUME NEW c
             PROVE  /\ Single(Carrying(c)) <=> Alone(c)
                    /\ Carrying(c) = {} <=> Nowhere(c)
  OBVIOUS
<1>1. /\ \A p \in InClients(c) : p[1] = "client"
      /\ \A p \in InQueue(c) : p[1] = "queue"
      /\ \A p \in InHeld(c) : p[1] = "held"
      /\ \A p \in InChannel(c) : p[1] = "channel"
      /\ \A p \in InWorkers(c) : p[1] = "worker"
      /\ \A p \in InReports(c) : p[1] = "completion"
  BY DEF InClients, InQueue, InHeld, InChannel, InWorkers, InReports, Spots
<1>2. Carrying(c) =
        UNION {InClients(c), InQueue(c), InHeld(c), InChannel(c), InWorkers(c), InReports(c)}
  BY DEF Carrying, InClients, InQueue, InHeld, InChannel, InWorkers, InReports
<1>3. /\ Single(Carrying(c)) <=>
           AtMostOne(InClients(c), InQueue(c), InHeld(c), InChannel(c), InWorkers(c), InReports(c))
      /\ Carrying(c) = {} <=>
           /\ InClients(c) = {} /\ InQueue(c) = {} /\ InHeld(c) = {}
           /\ InChannel(c) = {} /\ InWorkers(c) = {} /\ InReports(c) = {}
  BY <1>1, <1>2, SixParts, SMT
<1> QED
  BY <1>3 DEF Alone, Nowhere

\* The same after a step.
LEMMA CarryingPartsNext ==
  \A c : /\ Single(Carrying(c)') <=> Alone(c)'
         /\ Carrying(c)' = {} <=> Nowhere(c)'
<1>1. (\A c : /\ Single(Carrying(c)) <=> Alone(c)
              /\ Carrying(c) = {} <=> Nowhere(c))'
  BY CarryingParts, PTL
<1> QED
  BY <1>1 DEF Single

\* The invariants, chunk by chunk.
Settled(c) == /\ Alone(c)
              /\ ~Nowhere(c) => states[c] = "Migrating"

\* The two checked invariants say that every chunk is settled.
LEMMA InFlightParts ==
  /\ InFlightIsMigrating /\ OneMigrationInFlight <=> \A c \in Chunk : Settled(c)
  /\ InFlightIsMigrating' /\ OneMigrationInFlight' <=> \A c \in Chunk : Settled(c)'
<1>1. InFlightIsMigrating /\ OneMigrationInFlight <=> \A c \in Chunk : Settled(c)
  BY CarryingParts DEF InFlightIsMigrating, OneMigrationInFlight, Settled, Single
<1>2. InFlightIsMigrating' /\ OneMigrationInFlight' <=> \A c \in Chunk : Settled(c)'
  BY CarryingPartsNext DEF InFlightIsMigrating, OneMigrationInFlight, Settled, Single
<1> QED
  BY <1>1, <1>2

=============================================================================
