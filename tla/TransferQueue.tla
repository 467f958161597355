---------------------------- MODULE TransferQueue ----------------------------
(***************************************************************************)
(* The bounded priority queue of transfer jobs:                            *)
(* crates/ghost-daemon/src/queue.rs, with TransferPriority and TransferJob *)
(* from crates/ghost-core/src/transfer.rs.                                 *)
(*                                                                         *)
(* Every method of TransferQueue takes the parking_lot mutex once and      *)
(* holds it to its end, so each is one action.  The wake-up protocol of    *)
(* dequeue_wait, which releases the mutex before it sleeps, is the subject *)
(* of module DequeueWait.                                                  *)
(***************************************************************************)
EXTENDS Integers, Sequences, SequencesExt

CONSTANTS Job,          \* the jobs that can be submitted: records with a priority
          Capacity      \* TransferQueue.capacity

ASSUME CapacityAssumption == Capacity \in Nat

VARIABLES jobs,           \* TransferQueueInner.jobs, a VecDeque
          current_depth,  \* TransferQueueInner.current_depth
          shutdown        \* TransferQueueInner.shutdown

queueVars == <<jobs, current_depth, shutdown>>

-----------------------------------------------------------------------------

TransferPriority == {"Low", "Normal", "High", "Critical"}

\* TransferPriority::value
Value(p) == CASE p = "Low" -> 0 [] p = "Normal" -> 1 [] p = "High" -> 2 [] p = "Critical" -> 3

IsHigherThan(p, q) == Value(p) > Value(q)

\* The test submit_priority applies to the new job and to the queued ones.
Urgent(job) == IsHigherThan(job.priority, "Normal")

\* The jobs an urgent job is inserted in front of.
NonUrgentPositions(q) == {i \in 1..Len(q) : ~Urgent(q[i])}

\* Mutants of InsertPosition: every job at the back, urgent jobs at the front.
InsertPositionBack(q, job) == Len(q) + 1
InsertPositionFront(q, job) == IF Urgent(job) THEN 1 ELSE Len(q) + 1

\* Where submit_priority puts a job: an urgent one before the first
\* non-urgent one, every other at the back.
InsertPosition(q, job) ==
  IF Urgent(job) /\ NonUrgentPositions(q) # {}
    THEN Min(NonUrgentPositions(q))
    ELSE Len(q) + 1

-----------------------------------------------------------------------------

QueueInit ==
  /\ jobs = << >>
  /\ current_depth = 0
  /\ shutdown = FALSE

\* Mutant of Refuses: one job too many.
RefusesLate == shutdown \/ current_depth > Capacity

\* submit_priority returns Cancelled, or Internal("transfer queue is full").
Refuses == shutdown \/ current_depth >= Capacity

\* submit_priority, accepted.
SubmitPriority(job) ==
  /\ ~Refuses
  /\ jobs' = InsertAt(jobs, InsertPosition(jobs, job), job)
  /\ current_depth' = current_depth + 1
  /\ UNCHANGED shutdown

\* Mutant of PopFront: the counter is not decremented.
PopFrontKeepsDepth ==
  /\ jobs # << >>
  /\ jobs' = Tail(jobs)
  /\ UNCHANGED <<current_depth, shutdown>>

\* try_dequeue, and dequeue_wait when it finds a job.
PopFront ==
  /\ jobs # << >>
  /\ jobs' = Tail(jobs)
  /\ current_depth' = current_depth - 1
  /\ UNCHANGED shutdown

\* TransferQueue::shutdown
Shutdown ==
  /\ shutdown' = TRUE
  /\ UNCHANGED <<jobs, current_depth>>

QueueNext ==
  \/ \E job \in Job : SubmitPriority(job)
  \/ PopFront
  \/ Shutdown

QueueSpec == QueueInit /\ [][QueueNext]_queueVars

-----------------------------------------------------------------------------

QueueType ==
  /\ jobs \in Seq(Job)
  /\ current_depth \in 0..Capacity
  /\ shutdown \in BOOLEAN

\* The counter that is_full, is_empty, depth and the full check read is kept
\* apart from the deque: it never drifts from the number of queued jobs, so the
\* queue holds at most Capacity jobs and reports empty exactly when it is.
DepthIsLength == current_depth = Len(jobs)

\* submit_priority puts High and Critical jobs "at the front of the queue
\* (after other high-priority jobs)": no urgent job ever waits behind a
\* Normal or Low one.
UrgentFirst ==
  \A i, j \in 1..Len(jobs) : i < j /\ Urgent(jobs[j]) => Urgent(jobs[i])

\* The length of the prefix of urgent jobs, and the deque cut there.
UrgentPrefix(q) == InsertPosition(q, [priority |-> "Critical"]) - 1
UrgentLane(q)   == SubSeq(q, 1, UrgentPrefix(q))
OrdinaryLane(q) == SubSeq(q, UrgentPrefix(q) + 1, Len(q))

Lanes == INSTANCE PriorityFifo
  WITH UrgentJob   <- {job \in Job : Urgent(job)},
       OrdinaryJob <- {job \in Job : ~Urgent(job)},
       urgent      <- UrgentLane(jobs),
       ordinary    <- OrdinaryLane(jobs),
       closed      <- shutdown

\* The one deque behaves as two FIFO lanes: jobs of one class leave in the
\* order they were submitted, and an urgent job is served before every
\* Normal or Low one, whatever mix of submit and dequeue calls came before.
ImplementsLanes == Lanes!FifoSpec

=============================================================================
