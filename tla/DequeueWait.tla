----------------------------- MODULE DequeueWait -----------------------------
(***************************************************************************)
(* The sleeping and waking of TransferQueue::dequeue_wait (queue.rs), at   *)
(* the grain of its lock: a consumer checks the queue under the mutex,     *)
(* releases it, and only then starts to wait on the tokio Notify; a        *)
(* submitter or shutdown releases the mutex before it notifies.            *)
(*                                                                         *)
(* Notify is external (tokio): notify_one wakes the first waiter or, with  *)
(* none, leaves one permit; notify_waiters wakes the present waiters and   *)
(* leaves no permit; awaiting notified() consumes a permit or waits.       *)
(***************************************************************************)
EXTENDS TransferQueue

CONSTANTS Producer,     \* tasks that call submit_priority
          Consumer      \* tasks that call dequeue_wait, again and again

VARIABLES producer,     \* "ready", or "notify": between unlock and notify_one
          consumer,     \* where each consumer stands in dequeue_wait
          closer,       \* "ready", "notify" or "done": the one call of shutdown
          permit,       \* Notify: a stored notification
          waiters       \* Notify: the consumers waiting, oldest first

waitVars == <<producer, consumer, closer, permit, waiters>>
allVars == <<queueVars, waitVars>>

DequeueInit ==
  /\ QueueInit
  /\ producer = [p \in Producer |-> "ready"]
  /\ consumer = [c \in Consumer |-> "check"]
  /\ closer = "ready"
  /\ permit = FALSE
  /\ waiters = << >>

-----------------------------------------------------------------------------

\* submit_priority up to drop(inner).
Submit(p, job) ==
  /\ producer[p] = "ready"
  /\ SubmitPriority(job)
  /\ producer' = [producer EXCEPT ![p] = "notify"]
  /\ UNCHANGED <<consumer, closer, permit, waiters>>

\* Mutant of NotifyOne: notify_waiters in its place, which leaves no permit.
NotifyAll ==
  /\ consumer' = [c \in Consumer |-> IF consumer[c] = "waiting" THEN "check" ELSE consumer[c]]
  /\ waiters' = << >>
  /\ UNCHANGED permit

\* self.notify.notify_one() (external: tokio::sync::Notify)
NotifyOne ==
  IF waiters = << >>
    THEN permit' = TRUE /\ UNCHANGED <<consumer, waiters>>
    ELSE /\ consumer' = [consumer EXCEPT ![Head(waiters)] = "check"]
         /\ waiters' = Tail(waiters)
         /\ UNCHANGED permit

\* Mutant of SubmitNotifies: an urgent job at the front suppresses the notification.
SubmitNotifiesOrdinary(p) ==
  /\ producer[p] = "notify"
  /\ IF jobs # << >> /\ Urgent(Head(jobs))
       THEN UNCHANGED <<consumer, permit, waiters>>
       ELSE NotifyOne
  /\ producer' = [producer EXCEPT ![p] = "ready"]
  /\ UNCHANGED <<queueVars, closer>>

SubmitNotifies(p) ==
  /\ producer[p] = "notify"
  /\ NotifyOne
  /\ producer' = [producer EXCEPT ![p] = "ready"]
  /\ UNCHANGED <<queueVars, closer>>

\* dequeue_wait under the mutex: a job is popped and returned, and the
\* consumer calls dequeue_wait again.
Take(c) ==
  /\ consumer[c] = "check"
  /\ PopFront
  /\ UNCHANGED waitVars

\* Mutant of ReturnNone: the shutdown flag is looked at before the queue.
ReturnNoneAtOnce(c) ==
  /\ consumer[c] = "check"
  /\ shutdown
  /\ consumer' = [consumer EXCEPT ![c] = "ended"]
  /\ UNCHANGED <<queueVars, producer, closer, permit, waiters>>

\* dequeue_wait returns None: shut down and empty.
ReturnNone(c) ==
  /\ consumer[c] = "check"
  /\ jobs = << >>
  /\ shutdown
  /\ consumer' = [consumer EXCEPT ![c] = "ended"]
  /\ UNCHANGED <<queueVars, producer, closer, permit, waiters>>

\* Nothing to take: the block ends and the mutex is released.
Unlock(c) ==
  /\ consumer[c] = "check"
  /\ jobs = << >>
  /\ ~shutdown
  /\ consumer' = [consumer EXCEPT ![c] = "unlocked"]
  /\ UNCHANGED <<queueVars, producer, closer, permit, waiters>>

\* self.notify.notified().await (external: tokio::sync::Notify)
Await(c) ==
  /\ consumer[c] = "unlocked"
  /\ IF permit
       THEN /\ permit' = FALSE
            /\ consumer' = [consumer EXCEPT ![c] = "check"]
            /\ UNCHANGED waiters
       ELSE /\ consumer' = [consumer EXCEPT ![c] = "waiting"]
            /\ waiters' = Append(waiters, c)
            /\ UNCHANGED permit
  /\ UNCHANGED <<queueVars, producer, closer>>

\* shutdown up to drop(inner)
CloseQueue ==
  /\ closer = "ready"
  /\ Shutdown
  /\ closer' = "notify"
  /\ UNCHANGED <<producer, consumer, permit, waiters>>

\* self.notify.notify_waiters() (external: tokio::sync::Notify)
NotifyWaiters ==
  /\ closer = "notify"
  /\ consumer' = [c \in Consumer |-> IF consumer[c] = "waiting" THEN "check" ELSE consumer[c]]
  /\ waiters' = << >>
  /\ closer' = "done"
  /\ UNCHANGED <<queueVars, producer, permit>>

-----------------------------------------------------------------------------

ConsumerStep(c) == Take(c) \/ ReturnNone(c) \/ Unlock(c) \/ Await(c)

DequeueNext ==
  \/ \E p \in Producer : (\E job \in Job : Submit(p, job)) \/ SubmitNotifies(p)
  \/ \E c \in Consumer : ConsumerStep(c)
  \/ CloseQueue
  \/ NotifyWaiters

\* A task that is running keeps running: a consumer that is not waiting
\* takes its next step, a submitter that released the lock notifies, and so
\* does shutdown.  Nothing forces anyone to submit or to shut down.
DequeueFairness ==
  /\ \A p \in Producer : WF_allVars(SubmitNotifies(p))
  /\ \A c \in Consumer : WF_allVars(ConsumerStep(c))
  /\ WF_allVars(NotifyWaiters)

DequeueSpec == DequeueInit /\ [][DequeueNext]_allVars /\ DequeueFairness

-----------------------------------------------------------------------------

DequeueType ==
  /\ QueueType
  /\ producer \in [Producer -> {"ready", "notify"}]
  /\ consumer \in [Consumer -> {"check", "unlocked", "waiting", "ended"}]
  /\ closer \in {"ready", "notify", "done"}
  /\ permit \in BOOLEAN
  /\ waiters \in Seq(Consumer)

\* No lost wake-up on submission: when a job is queued and every consumer
\* that has not ended sleeps on the Notify, some submitter is still on its
\* way to notify_one.  dequeue_wait checks and waits in two steps, so this
\* rests on the permit that notify_one leaves behind.
SleepersAreNotified ==
  (jobs # << >> /\ \A c \in Consumer : consumer[c] = "waiting")
    => \E p \in Producer : producer[p] = "notify"

\* A queued job is eventually taken, or the consumers are gone: the queue
\* never keeps jobs while all its consumers sleep for ever.
NoJobSleptOn ==
  []<>(jobs = << >> \/ \E c \in Consumer : consumer[c] # "waiting")

\* Jobs accepted before shutdown are still handed out: once shutdown is
\* called the queue drains, even if the consumer was asleep at that moment.
DrainsAfterShutdown == shutdown ~> (jobs = << >>)

\* queue.rs: "any waiting dequeue will return `None` once the queue is drained".
ShutdownEndsDequeues ==
  \A c \in Consumer : shutdown ~> (consumer[c] = "ended")

=============================================================================
