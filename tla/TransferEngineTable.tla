------------------------- MODULE TransferEngineTable --------------------------
(***************************************************************************)
(* What a step of the transfer engine may do to the chunk table: the       *)
(* refinement of ChunkLifecycle, and what a report settles.                *)
(***************************************************************************)
EXTENDS TransferEngineProofs

\* Nothing but the handler consumes a report.
LEMMA NotConsumed ==
  ASSUME NEW S, completions \in Seq(S), NEW c,
         \/ completions' = completions
         \/ \E e \in S : completions' = Append(completions, e)
         \/ handler' = "stopped"
  PROVE  ~Consumes(c)
<1>1. ASSUME completions # << >>, completions' = Tail(completions)
      PROVE  /\ completions' # completions
             /\ \A e \in S : completions' # Append(completions, e)
  <2>1. Len(Tail(completions)) = Len(completions) - 1 /\ Len(completions) \in Nat \ {0}
    BY <1>1, TailType
  <2>2. \A e \in S : Len(Append(completions, e)) = Len(completions) + 1
    BY AppendType
  <2>3. Len(completions') = Len(completions) - 1
    BY <1>1, <2>1
  <2> QED BY ONLY <2>1, <2>2, <2>3, SMT
<1> QED
  BY <1>1 DEF Consumes

\* The steps of the lifecycle that a client call takes.
Step(c) == Lifecycle!Create(c) \/ Lifecycle!Begin(c) \/ Lifecycle!Remove(c)

\* A step of a client leaves the table alone or creates, removes or begins to
\* migrate one chunk; none of these settles a migration.
LEMMA ClientTable ==
  ASSUME Shape, NEW k \in Client, ClientNext(k)
  PROVE  /\ UNCHANGED <<completions, handler>>
         /\ states' = states \/ \E c \in Chunk : Step(c)
<1>1. \A c \in Chunk : states[c] \in {Absent, "Stored", "Migrating", "Evicted", "Failed"}
  BY DEF Shape, VisibleStates
<1>2. ASSUME NEW c \in Chunk, NEW tier \in ClientTier, Store(k, c, tier)
      PROVE  states' = states \/ Step(c)
  BY <1>1, <1>2
     DEF Store, Registered, IsValidTransition, InvalidTransition, Step, Lifecycle!Create,
         Transition, Lifecycle!Transition, Absent, Lifecycle!Absent
<1>3. ASSUME NEW c \in Chunk, NEW route \in Route, NEW large \in Large, Migrate(k, c, route, large)
      PROVE  Step(c)
  BY <1>1, <1>3
     DEF Migrate, Step, Lifecycle!Begin, Transition, Lifecycle!Transition, Absent
<1>4. ASSUME NEW c \in Chunk, Evict(k, c)  PROVE states' = states \/ Step(c)
  BY <1>1, <1>4
     DEF Evict, InvalidTransition, Step, Lifecycle!Remove, Transition, Lifecycle!Transition, Absent
<1>5. UNCHANGED <<completions, handler>>
  BY DEF ClientNext, Store, Retrieve, Migrate, Evict, SubmitJob
<1>6. (\E c \in Chunk, tier \in ClientTier : Retrieve(k, c, tier)) \/ SubmitJob(k) => states' = states
  BY DEF Retrieve, SubmitJob
<1> QED
  BY <1>2, <1>3, <1>4, <1>5, <1>6 DEF ClientNext

\* The steps of the lifecycle keep a Migrating chunk Migrating.
LEMMA StepKeepsMigrating ==
  ASSUME Shape, NEW c \in Chunk, Step(c), NEW d \in Chunk, states[d] = "Migrating"
  PROVE  states'[d] = "Migrating"
BY DEF Shape, TypeOK, StatesType, Step, Lifecycle!Create, Lifecycle!Begin, Lifecycle!Remove,
       Lifecycle!Transition, Lifecycle!Absent

\* The steps of all other tasks but the handler leave the table alone and
\* consume nothing.
LEMMA OtherTable ==
  ASSUME Shape,
         \/ ShutdownSignal \/ ShutdownReturn \/ SchedulerNext
         \/ \E w \in Worker : WorkerNext(w)
         \/ HandlerStop
  PROVE  states' = states /\ \A c \in Chunk : ~Consumes(c)
<1> DEFINE Report == [chunk : Chunk, success : BOOLEAN]
<1>1. completions \in Seq(Report)
  BY DEF Shape, TypeOK
<1>2. CASE ShutdownSignal \/ ShutdownReturn \/ SchedulerNext
  <2>1. states' = states /\ completions' = completions
    BY <1>2 DEF ShutdownSignal, ShutdownReturn, SchedulerNext, DequeueJob, DispatchJob, SchedulerStop
  <2> QED BY <1>1, <2>1, NotConsumed
<1>3. ASSUME NEW w \in Worker, WorkerNext(w)
      PROVE  states' = states /\ \A c \in Chunk : ~Consumes(c)
  <2>1. states' = states
    BY <1>3 DEF WorkerNext, WorkerTop, WorkerStop, WorkerTake, WorkerIdle, RetryTransfer,
                FinishTransfer, ReportCompletion, WorkerFrame
  <2>2. CASE ~ReportCompletion(w)
    <3>1. completions' = completions
      BY <1>3, <2>2 DEF WorkerNext, WorkerTop, WorkerStop, WorkerTake, WorkerIdle, RetryTransfer,
                        FinishTransfer
    <3> QED BY <1>1, <2>1, <3>1, NotConsumed
  <2>3. CASE ReportCompletion(w)
    <3> DEFINE report == [chunk |-> worker[w].job.chunk, success |-> worker[w].success]
    <3>1. completions' = completions \/ completions' = Append(completions, report)
      BY <2>3 DEF ReportCompletion
    <3>2. worker[w] \in WorkerState /\ worker[w].job # NoJob
      BY <2>3 DEF ReportCompletion, Shape, TypeOK
    <3>3. report \in Report
      BY <3>2, EngineAssumption DEF WorkerState
    <3> HIDE DEF report, Report
    <3> QED BY <1>1, <2>1, <3>1, <3>3, NotConsumed
  <2> QED BY <2>2, <2>3
<1>4. CASE HandlerStop
  <2>1. states' = states /\ handler' = "stopped"
    BY <1>4 DEF HandlerStop
  <2> QED BY <1>1, <2>1, NotConsumed
<1> QED
  BY <1>2, <1>3, <1>4

\* The handler consumes a report and settles its chunk, or panics and stops.
LEMMA HandlerTable ==
  ASSUME Shape, \A c \in Chunk : Settled(c), HandleCompletion
  PROVE  \/ states' = states /\ \A c \in Chunk : ~Consumes(c)
         \/ \E c \in Chunk :
              /\ states[c] = "Migrating"
              /\ Transition(c, "Stored") \/ Transition(c, "Failed")
              /\ \A d \in Chunk : Consumes(d) <=> d = c
<1> DEFINE c == Head(completions).chunk
<1>1. completions # << >> /\ handler = "running"
  BY DEF HandleCompletion
<1>2. c \in Chunk
  <2> DEFINE Report == [chunk : Chunk, success : BOOLEAN]
  <2>1. completions \in Seq(Report)
    BY DEF Shape, TypeOK
  <2> HIDE DEF Report
  <2>2. Head(completions) \in Report
    BY <1>1, <2>1, TailType
  <2> QED BY <2>2 DEF Report
<1>3. /\ states[c] = "Migrating"
      /\ IsValidTransition(states[c], Outcome(Head(completions)))
  BY <1>1, <1>2, HeadReport
<1>4. \/ states' = states /\ handler' = "stopped"
      \/ /\ Transition(c, Outcome(Head(completions)))
         /\ completions' = Tail(completions) /\ handler' = handler
  BY <1>3 DEF HandleCompletion
<1>5. CASE states' = states /\ handler' = "stopped"
  BY <1>5 DEF Consumes
<1>6. CASE /\ Transition(c, Outcome(Head(completions)))
           /\ completions' = Tail(completions) /\ handler' = handler
  <2>1. \A d \in Chunk : Consumes(d) <=> d = c
    BY <1>1, <1>6 DEF Consumes
  <2>2. Transition(c, "Stored") \/ Transition(c, "Failed")
    BY <1>6 DEF Outcome
  <2> HIDE DEF c
  <2> QED BY <1>2, <1>3, <2>1, <2>2
<1> QED
  BY <1>4, <1>5, <1>6

\* Every report the completion handler consumes settles a migration, and
\* nothing else does: the result it ignores is never an error in a state the
\* engine can reach.
THEOREM ReportsSettleCorrect == Spec => ReportsSettleMigrations
<1> DEFINE A == \A c \in Chunk : Consumes(c) <=> (states[c] = "Migrating" /\ states'[c] # "Migrating")
<1>1. EngineInv /\ Next => A
  <2> SUFFICES ASSUME EngineInv, Next  PROVE A
    OBVIOUS
  <2>1. /\ Shape /\ \A c \in Chunk : Settled(c)
        /\ states \in [Chunk -> ChunkState \cup {Absent}]
    BY InFlightParts DEF EngineInv, Shape, TypeOK, StatesType
  <2>2. ASSUME states' = states, \A c \in Chunk : ~Consumes(c)  PROVE A
    BY <2>2
  <2>3. ASSUME NEW k \in Client, ClientNext(k)  PROVE A
    <3> DEFINE Report == [chunk : Chunk, success : BOOLEAN]
    <3>1. completions \in Seq(Report) /\ completions' = completions
      BY <2>1, <2>3, ClientTable DEF Shape, TypeOK
    <3>2. \A c \in Chunk : ~Consumes(c)
      BY <3>1, NotConsumed
    <3>3. \A c \in Chunk : states[c] = "Migrating" => states'[c] = "Migrating"
      BY <2>1, <2>3, ClientTable, StepKeepsMigrating
    <3> QED BY <3>2, <3>3
  <2>4. CASE HandleCompletion
    BY <2>1, <2>2, <2>4, HandlerTable DEF Transition
  <2>5. CASE \/ ShutdownSignal \/ ShutdownReturn \/ SchedulerNext
             \/ \E w \in Worker : WorkerNext(w)
             \/ HandlerStop
    BY <2>1, <2>2, <2>5, OtherTable
  <2> QED BY <2>3, <2>4, <2>5 DEF Next, HandlerNext
<1>2. EngineInv /\ [Next]_vars => [A]_vars
  BY <1>1
<1> QED
  BY <1>2, EngineInvariant, PTL DEF Spec, ReportsSettleMigrations

\* The chunk table follows the lifecycle of ChunkLifecycle.
THEOREM LifecycleRefinement == Spec => ImplementsLifecycle
<1>1. Init => Lifecycle!StatesInit
  BY DEF Init, StatesInit, Lifecycle!StatesInit, Absent, Lifecycle!Absent
<1>2. EngineInv /\ [Next]_vars => [Lifecycle!LifecycleNext]_states
  <2> SUFFICES ASSUME EngineInv, [Next]_vars, states' # states
               PROVE  Lifecycle!LifecycleNext
    OBVIOUS
  <2>1. Shape /\ \A c \in Chunk : Settled(c)
    BY InFlightParts DEF EngineInv
  <2>2. Next
    BY DEF vars
  <2>3. ASSUME NEW k \in Client, ClientNext(k)  PROVE Lifecycle!LifecycleNext
    BY <2>1, <2>3, ClientTable DEF Step, Lifecycle!LifecycleNext
  <2>4. CASE HandleCompletion
    BY <2>1, <2>4, HandlerTable
       DEF Transition, Lifecycle!Transition, Lifecycle!Succeed, Lifecycle!Fail,
           Lifecycle!LifecycleNext
  <2>5. CASE \/ ShutdownSignal \/ ShutdownReturn \/ SchedulerNext
             \/ \E w \in Worker : WorkerNext(w)
             \/ HandlerStop
    BY <2>1, <2>5, OtherTable
  <2> QED BY <2>2, <2>3, <2>4, <2>5 DEF Next, HandlerNext
<1> QED
  BY <1>1, <1>2, EngineInvariant, PTL DEF Spec, ImplementsLifecycle, Lifecycle!LifecycleSpec

=============================================================================
