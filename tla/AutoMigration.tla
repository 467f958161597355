---------------------------- MODULE AutoMigration ----------------------------
(***************************************************************************)
(* The auto-migration task of TransferOrchestrator::start with the         *)
(* MigrationEngine it asks (migration.rs), on top of the transfer engine.  *)
(*                                                                         *)
(* On each tick the task evaluates the chunk table and then submits its    *)
(* candidates one by one, without touching the table.  The policy is a     *)
(* parameter of the orchestrator.  The model takes LruPolicy (lru.rs),     *)
(* the one the orchestrator's own tests are built with: at the zero        *)
(* pressure the orchestrator is wired with it sends cold chunks of RAM to  *)
(* AutoTarget with priority Low and leaves hot ones alone.  (main.rs       *)
(* installs PressureAwarePolicy, which answers None at zero pressure: the  *)
(* task then submits nothing and the engine is the one of TransferEngine.) *)
(* The backpressure controller allows everything at zero pressure.         *)
(* Hotness is left out: any set of chunks may be cold, in any order.       *)
(***************************************************************************)
EXTENDS TransferEngine, FiniteSets

CONSTANTS
  RamTier,        \* the tier evaluate assumes for every stored chunk
  AutoTarget,     \* the tier the policy answers for a cold chunk
  MaxConcurrent,  \* MigrationConfig.max_concurrent_migrations
  MaxPerCycle     \* MigrationConfig.max_migrations_per_cycle

ASSUME AutoAssumption ==
  /\ RamTier \in Tier
  /\ AutoTarget \in Tier \ {RamTier}
  /\ MaxConcurrent \in Nat
  /\ MaxPerCycle \in Nat

VARIABLES
  auto,               \* the auto-migration task
  candidates,         \* the jobs of this tick that are still to be submitted
  active_migrations   \* MigrationEngine.active_migrations

autoVars == <<auto, candidates, active_migrations>>

AutoInit ==
  /\ Init
  /\ auto = "running"
  /\ candidates = {}
  /\ active_migrations = {}

-----------------------------------------------------------------------------

\* The chunks evaluate offers to the policy.  Its rate limit reads
\* last_migration, which only mark_complete writes, and nothing calls that.
Eligible == {c \in Chunk : states[c] = "Stored"} \ active_migrations

\* A tick: MigrationEngine::evaluate.  A poisoned table panics the task.
Evaluate ==
  /\ auto = "running"
  /\ candidates = {}
  /\ IF poisoned
       THEN auto' = "stopped" /\ UNCHANGED candidates
       ELSE /\ \E cold \in SUBSET Eligible :
                 /\ cold # {} /\ Cardinality(cold) <= MaxPerCycle
                 /\ candidates' = {NewJob(c, RamTier, AutoTarget, "Low") : c \in cold}
            /\ UNCHANGED auto
  /\ UNCHANGED <<states, queueVars, engineVars, active_migrations>>

\* Mutant of HasCapacity: off by one.
HasCapacityLate == Cardinality(active_migrations) <= MaxConcurrent

HasCapacity == Cardinality(active_migrations) < MaxConcurrent

\* Mutant of SubmitCandidate: the chunk is not marked active.
SubmitCandidateUnmarked(job) ==
  /\ auto = "running"
  /\ \/ SubmitPriority(job)
     \/ Refuses /\ UNCHANGED queueVars
  /\ candidates' = candidates \ {job}
  /\ UNCHANGED <<states, engineVars, auto, active_migrations>>

\* One turn of the loop over the candidates: at capacity, drop the rest of
\* them; else submit the job and, if the queue takes it, mark the chunk active.
SubmitCandidate(job) ==
  /\ auto = "running"
  /\ \/ /\ ~HasCapacity
        /\ candidates' = {}
        /\ UNCHANGED <<queueVars, active_migrations>>
     \/ /\ HasCapacity
        /\ Refuses
        /\ candidates' = candidates \ {job}
        /\ UNCHANGED <<queueVars, active_migrations>>
     \/ /\ HasCapacity
        /\ SubmitPriority(job)
        /\ candidates' = candidates \ {job}
        /\ active_migrations' = active_migrations \cup {job.chunk}
  /\ UNCHANGED <<states, engineVars, auto>>

\* The signal is seen only between two ticks.
AutoStop ==
  /\ auto = "running"
  /\ candidates = {}
  /\ signal
  /\ auto' = "stopped"
  /\ UNCHANGED <<states, queueVars, engineVars, candidates, active_migrations>>

AutoTask ==
  \/ Evaluate
  \/ \E job \in candidates : SubmitCandidate(job)
  \/ AutoStop

AutoNext == (Next /\ UNCHANGED autoVars) \/ AutoTask

AutoSpec == AutoInit /\ [][AutoNext]_<<vars, autoVars>>

-----------------------------------------------------------------------------

AutoType ==
  /\ TypeOK
  /\ auto \in {"running", "stopped"}
  /\ candidates \subseteq Job
  /\ active_migrations \subseteq Chunk

\* The check of has_capacity and the later mark_active are made by one task
\* over many turns and ticks: the number of chunks marked active never passes
\* max_concurrent_migrations.
ActiveWithinLimit == Cardinality(active_migrations) <= MaxConcurrent

\* The places that hold an automatic migration of c (only the auto-migration
\* task submits with priority Low), candidates and reports left aside.
AutoCarrying(c) ==
  {p \in Carrying(c) :
     \/ p[1] = "queue"   /\ jobs[p[2]].priority = "Low"
     \/ p[1] = "held"    /\ held.priority = "Low"
     \/ p[1] = "channel" /\ channel[p[2]].priority = "Low"
     \/ p[1] = "worker"  /\ worker[p[2]].job.priority = "Low"}

\* However many ticks pass while a job is queued, dispatched or executed, the
\* task never has two automatic migrations of one chunk under way.
OneAutoMigration ==
  \A c \in Chunk : \A p, q \in AutoCarrying(c) : p = q

-----------------------------------------------------------------------------
(* What the repository's comments say and the code does not do.            *)

\* active_migrations is the "Set of chunks currently being migrated".
ActiveIsMigrating ==
  signal \/ \A c \in active_migrations : Carrying(c) # {}

\* The handler's comment: "Transition chunk from Migrating to Stored".
ReportsAreOfMigratingChunks ==
  \A i \in 1..Len(completions) : states[completions[i].chunk] = "Migrating"

=============================================================================
