------------------------- MODULE TransferQueueProofs -------------------------
(***************************************************************************)
(* Proofs about the transfer queue, for every set of jobs and every        *)
(* capacity: its invariants, and that the one deque with an insertion      *)
(* point implements the two FIFO lanes of PriorityFifo.                    *)
(***************************************************************************)
EXTENDS TransferQueue, SequenceTheorems, WellFoundedInduction, TLAPS

-----------------------------------------------------------------------------
(* Lemmas on the operators the queue is built from.                        *)

\* Min picks the least element of a nonempty set of naturals, as the scan of
\* submit_priority for the first non-urgent job does.
LEMMA MinOfNaturals ==
  ASSUME NEW S \in SUBSET Nat, S # {}
  PROVE  Min(S) \in S /\ \A y \in S : Min(S) <= y
<1>1. \E x \in S : \A y \in S : <<y, x>> \notin OpToRel(<, Nat)
  BY NatLessThanWellFounded, WFMin
<1>2. OpToRel(<, Nat) = {r \in Nat \X Nat : r[1] < r[2]}
  BY Zenon DEF OpToRel
<1>3. \A x, y \in Nat : <<y, x>> \in OpToRel(<, Nat) <=> y < x
  <2>1. \A x, y \in Nat : <<y, x>> \in {r \in Nat \X Nat : r[1] < r[2]} <=> y < x
    OBVIOUS
  <2> QED BY <1>2, <2>1, Zenon
<1>4. PICK x \in S : \A y \in S : <<y, x>> \notin OpToRel(<, Nat)
  BY <1>1
<1>5. \A y \in S : ~(y < x)
  BY <1>3, <1>4, Zenon
<1>6. \A y \in S : x <= y
  BY <1>5
<1> QED
  BY <1>6 DEF Min

\* r is s with e at position p and the elements from there on moved back.
Inserted(s, p, e, r) ==
  /\ Len(r) = Len(s) + 1
  /\ \A i \in 1..(p - 1) : r[i] = s[i]
  /\ r[p] = e
  /\ \A i \in (p + 1)..(Len(s) + 1) : r[i] = s[i - 1]

\* InsertAt is VecDeque::insert: the jobs from the insertion point on move
\* back by one.
LEMMA InsertAtProperties ==
  ASSUME NEW S, NEW s \in Seq(S), NEW p \in 1..(Len(s) + 1), NEW e \in S,
         NEW r, r = InsertAt(s, p, e)
  PROVE  r \in Seq(S) /\ Inserted(s, p, e, r)
<1> DEFINE front == SubSeq(s, 1, p - 1)
           back  == SubSeq(s, p, Len(s))
<1>1. Len(s) \in Nat /\ \A i \in 1..Len(s) : s[i] \in S
  BY LenProperties, ElementOfSeq
<1>2. /\ front \in Seq(S) /\ Len(front) = p - 1
      /\ \A i \in 1..(p - 1) : front[i] = s[i]
  <2>1. \A i \in 1..(p - 1) : s[i] \in S
    BY <1>1
  <2> QED BY <2>1, <1>1, SubSeqProperties
<1>3. /\ back \in Seq(S) /\ Len(back) = Len(s) - p + 1
      /\ \A i \in 1..(Len(s) - p + 1) : back[i] = s[p + i - 1]
  <2>1. \A i \in p..Len(s) : s[i] \in S
    BY <1>1
  <2> QED BY <2>1, <1>1, SubSeqProperties
<1>4. <<e>> \in Seq(S) /\ Len(<<e>>) = 1 /\ <<e>>[1] = e
  OBVIOUS
<1> DEFINE grown == front \o <<e>>
<1> HIDE DEF front, back
<1>5. /\ grown \in Seq(S) /\ Len(grown) = p
      /\ \A i \in 1..(p - 1) : grown[i] = s[i]
      /\ grown[p] = e
  <2>1. /\ grown \in Seq(S) /\ Len(grown) = Len(front) + Len(<<e>>)
        /\ \A i \in 1..(Len(front) + Len(<<e>>)) :
             grown[i] = IF i <= Len(front) THEN front[i] ELSE <<e>>[i - Len(front)]
    BY <1>2, <1>4, ConcatProperties, Zenon
  <2> HIDE DEF grown
  <2>2. Len(front) + Len(<<e>>) = p /\ Len(front) = p - 1
    BY <1>2, <1>4
  <2>3. \A i \in 1..p : grown[i] = IF i <= p - 1 THEN front[i] ELSE <<e>>[i - (p - 1)]
    BY <2>1, <2>2, Zenon
  <2>4. grown[p] = e
    <3>1. p \in 1..p /\ ~(p <= p - 1) /\ p - (p - 1) = 1
      BY <1>1
    <3> QED BY <1>4, <2>3, <3>1
  <2>5. ASSUME NEW i \in 1..(p - 1)  PROVE grown[i] = s[i]
    <3>1. i \in 1..p /\ i <= p - 1
      BY <1>1
    <3> QED BY <1>2, <2>3, <3>1
  <2> QED BY <2>1, <2>2, <2>4, <2>5
<1> HIDE DEF grown
<1>6. r = grown \o back
  BY DEF InsertAt, front, back, grown
<1>7. /\ grown \o back \in Seq(S) /\ Len(grown \o back) = Len(grown) + Len(back)
       /\ \A i \in 1..(Len(grown) + Len(back)) :
            (grown \o back)[i] = IF i <= Len(grown) THEN grown[i] ELSE back[i - Len(grown)]
  BY <1>3, <1>5, ConcatProperties, Zenon
<1>8. Len(grown) + Len(back) = Len(s) + 1 /\ Len(grown) = p
  BY <1>1, <1>3, <1>5
<1>9. /\ r \in Seq(S) /\ Len(r) = Len(s) + 1
      /\ \A i \in 1..(Len(s) + 1) : r[i] = IF i <= p THEN grown[i] ELSE back[i - p]
  BY <1>6, <1>7, <1>8, Zenon
<1>10. \A i \in 1..(p - 1) : r[i] = s[i]
  <2> SUFFICES ASSUME NEW i \in 1..(p - 1)  PROVE r[i] = s[i]
    OBVIOUS
  <2>1. i \in 1..(Len(s) + 1) /\ i <= p
    BY <1>1
  <2> QED BY <1>5, <1>9, <2>1
<1>11. r[p] = e
  BY <1>1, <1>5, <1>9
<1>12. \A i \in (p + 1)..(Len(s) + 1) : r[i] = s[i - 1]
  <2> SUFFICES ASSUME NEW i \in (p + 1)..(Len(s) + 1)  PROVE r[i] = s[i - 1]
    OBVIOUS
  <2>1. i \in 1..(Len(s) + 1) /\ ~(i <= p) /\ i - p \in 1..(Len(s) - p + 1)
        /\ p + (i - p) - 1 = i - 1
    BY <1>1
  <2>2. back[i - p] = s[i - 1]
    BY <1>3, <2>1
  <2> QED BY <1>9, <2>1, <2>2
<1> QED
  BY <1>9, <1>10, <1>11, <1>12 DEF Inserted

\* Where an urgent job goes: behind a run of urgent jobs, in front of a
\* non-urgent one or at the end.
LEMMA UrgentInsertPosition ==
  ASSUME NEW S, NEW q \in Seq(S), NEW job, Urgent(job)
  PROVE  /\ InsertPosition(q, job) \in 1..(Len(q) + 1)
         /\ \A i \in 1..(InsertPosition(q, job) - 1) : Urgent(q[i])
         /\ InsertPosition(q, job) <= Len(q) => ~Urgent(q[InsertPosition(q, job)])
<1>1. Len(q) \in Nat
  BY LenProperties
<1>2. CASE NonUrgentPositions(q) = {}
  BY <1>1, <1>2 DEF InsertPosition, NonUrgentPositions
<1>3. CASE NonUrgentPositions(q) # {}
  <2>1. NonUrgentPositions(q) \in SUBSET Nat
    BY <1>1 DEF NonUrgentPositions
  <2>2. /\ Min(NonUrgentPositions(q)) \in NonUrgentPositions(q)
        /\ \A y \in NonUrgentPositions(q) : Min(NonUrgentPositions(q)) <= y
    BY <1>3, <2>1, MinOfNaturals
  <2>3. InsertPosition(q, job) = Min(NonUrgentPositions(q))
    BY <1>3 DEF InsertPosition
  <2> DEFINE p == InsertPosition(q, job)
  <2>4. p \in 1..Len(q) /\ ~Urgent(q[p])
    BY <2>2, <2>3 DEF NonUrgentPositions
  <2>5. ASSUME NEW i \in 1..(p - 1)  PROVE Urgent(q[i])
    <3> HIDE DEF p
    <3>1. i \in 1..Len(q) /\ ~(p <= i)
      BY <1>1, <2>4
    <3>2. i \notin NonUrgentPositions(q)
      BY <2>2, <2>3, <3>1 DEF p
    <3> QED BY <3>1, <3>2 DEF NonUrgentPositions
  <2> QED
    BY <1>1, <2>4, <2>5
<1> QED
  BY <1>2, <1>3

\* The insertion point is always a position of the deque or its end.
LEMMA InsertPositionRange ==
  ASSUME NEW S, NEW q \in Seq(S), NEW job
  PROVE  InsertPosition(q, job) \in 1..(Len(q) + 1)
<1>1. CASE Urgent(job)
  BY <1>1, UrgentInsertPosition
<1>2. CASE ~Urgent(job)
  BY <1>2, LenProperties DEF InsertPosition
<1> QED
  BY <1>1, <1>2

-----------------------------------------------------------------------------
(* The invariants.                                                         *)

\* QueueType is not inductive alone: the counter stays above zero only
\* because it equals the length of the deque.
QueueInv == QueueType /\ DepthIsLength /\ UrgentFirst

\* submit_priority puts the job at the insertion point and moves the jobs from
\* there on back by one.
LEMMA SubmitInserts ==
  ASSUME QueueInv, NEW job \in Job, SubmitPriority(job),
         NEW p, p = InsertPosition(jobs, job)
  PROVE  /\ p \in 1..(Len(jobs) + 1)
         /\ jobs' \in Seq(Job) /\ Inserted(jobs, p, job, jobs')
<1>1. jobs \in Seq(Job)
  BY DEF QueueInv, QueueType
<1>2. p \in 1..(Len(jobs) + 1)
  BY <1>1, InsertPositionRange
<1>3. jobs' = InsertAt(jobs, p, job)
  BY DEF SubmitPriority
<1> QED
  BY <1>1, <1>2, <1>3, InsertAtProperties, Zenon

\* A submitted job is put where it keeps the urgent jobs together at the front.
LEMMA SubmitKeepsQueueInv ==
  ASSUME QueueInv, NEW job \in Job, SubmitPriority(job)
  PROVE  QueueInv'
<1> DEFINE p == InsertPosition(jobs, job)
<1>1. /\ jobs \in Seq(Job) /\ Len(jobs) \in Nat /\ current_depth = Len(jobs)
      /\ shutdown \in BOOLEAN /\ Capacity \in Nat /\ current_depth \in 0..Capacity
  BY CapacityAssumption, LenProperties DEF QueueInv, QueueType, DepthIsLength
<1>2. p \in 1..(Len(jobs) + 1)
  BY SubmitInserts
<1>3. /\ jobs' \in Seq(Job)
      /\ Len(jobs') = Len(jobs) + 1
      /\ \A i \in 1..(p - 1) : jobs'[i] = jobs[i]
      /\ jobs'[p] = job
      /\ \A i \in (p + 1)..(Len(jobs) + 1) : jobs'[i] = jobs[i - 1]
  BY SubmitInserts DEF Inserted
<1>4. QueueType' /\ DepthIsLength'
  BY <1>1, <1>3 DEF SubmitPriority, Refuses, QueueType, DepthIsLength
<1>5. \A i, j \in 1..Len(jobs) : i < j /\ Urgent(jobs[j]) => Urgent(jobs[i])
  BY DEF QueueInv, UrgentFirst
<1>6. UrgentFirst'
  <2> SUFFICES ASSUME NEW i \in 1..Len(jobs'), NEW j \in 1..Len(jobs'),
                      i < j, Urgent(jobs'[j])
               PROVE  Urgent(jobs'[i])
    BY DEF UrgentFirst, Urgent, IsHigherThan, Value
  <2>1. CASE Urgent(job)
    <3>1. /\ \A n \in 1..(p - 1) : Urgent(jobs[n])
          /\ p <= Len(jobs) => ~Urgent(jobs[p])
      BY <1>1, <2>1, UrgentInsertPosition
    <3>2. CASE j <= p
      <4>1. jobs'[i] = jobs[i] /\ i \in 1..(p - 1)
        BY <1>1, <1>2, <1>3, <3>2
      <4> QED BY <4>1, <3>1
    <3>3. CASE j > p
      <4>1. jobs'[j] = jobs[j - 1] /\ j - 1 \in 1..Len(jobs) /\ p <= j - 1 /\ p \in 1..Len(jobs)
        BY <1>1, <1>2, <1>3, <3>3
      <4>2. ~Urgent(jobs[j - 1])
        BY <1>1, <1>5, <3>1, <4>1
      <4> QED BY <4>1, <4>2
    <3> QED BY <1>1, <1>2, <1>3, <3>2, <3>3
  <2>2. CASE ~Urgent(job)
    <3>1. p = Len(jobs) + 1
      BY <2>2 DEF InsertPosition
    <3>2. j # p
      BY <1>1, <1>3, <2>2, <3>1
    <3>3. jobs'[i] = jobs[i] /\ jobs'[j] = jobs[j] /\ i \in 1..Len(jobs) /\ j \in 1..Len(jobs)
      BY <1>1, <1>3, <3>1, <3>2
    <3> QED BY <1>5, <3>3
  <2> QED BY <2>1, <2>2
<1> QED
  BY <1>4, <1>6 DEF QueueInv

\* Taking the front job keeps the invariant.
LEMMA PopKeepsQueueInv ==
  ASSUME QueueInv, PopFront
  PROVE  QueueInv'
<1>1. /\ jobs \in Seq(Job) /\ Len(jobs) \in Nat \ {0} /\ current_depth = Len(jobs)
      /\ shutdown \in BOOLEAN /\ Capacity \in Nat /\ current_depth \in 0..Capacity
  BY CapacityAssumption, LenProperties, EmptySeq DEF QueueInv, QueueType, DepthIsLength, PopFront
<1>2. /\ jobs' \in Seq(Job) /\ Len(jobs') = Len(jobs) - 1
      /\ \A i \in 1..Len(jobs') : jobs'[i] = jobs[i + 1]
  BY <1>1, HeadTailProperties DEF PopFront
<1>3. QueueType' /\ DepthIsLength'
  BY <1>1, <1>2 DEF PopFront, QueueType, DepthIsLength
<1>4. \A i, j \in 1..Len(jobs) : i < j /\ Urgent(jobs[j]) => Urgent(jobs[i])
  BY DEF QueueInv, UrgentFirst
<1>5. UrgentFirst'
  <2> SUFFICES ASSUME NEW i \in 1..Len(jobs'), NEW j \in 1..Len(jobs'),
                      i < j, Urgent(jobs'[j])
               PROVE  Urgent(jobs'[i])
    BY DEF UrgentFirst, Urgent, IsHigherThan, Value
  <2>1. jobs'[i] = jobs[i + 1] /\ jobs'[j] = jobs[j + 1]
    BY <1>2
  <2>2. i + 1 \in 1..Len(jobs) /\ j + 1 \in 1..Len(jobs) /\ i + 1 < j + 1
    BY <1>1, <1>2
  <2> QED BY <1>4, <2>1, <2>2
<1> QED
  BY <1>3, <1>5 DEF QueueInv

\* The empty queue of TransferQueue::new.
LEMMA InitQueueInv == QueueInit => QueueInv
<1> SUFFICES ASSUME QueueInit  PROVE QueueInv
  OBVIOUS
<1>1. jobs = << >> /\ Len(jobs) = 0 /\ 1..Len(jobs) = {}
  BY DEF QueueInit
<1>2. QueueType /\ DepthIsLength
  <2>1. jobs \in Seq(Job)
    BY <1>1, EmptySeq, Zenon
  <2>2. current_depth \in 0..Capacity /\ current_depth = Len(jobs)
    BY <1>1, CapacityAssumption DEF QueueInit
  <2>3. shutdown \in BOOLEAN
    BY DEF QueueInit
  <2> QED BY <2>1, <2>2, <2>3 DEF QueueType, DepthIsLength
<1>3. UrgentFirst
  BY <1>1, Zenon DEF UrgentFirst
<1> QED
  BY <1>2, <1>3 DEF QueueInv

\* The inductive invariant holds in every reachable state.
THEOREM QueueInvariant == QueueSpec => []QueueInv
<1>1. QueueInit => QueueInv
  BY InitQueueInv
<1>2. QueueInv /\ [QueueNext]_queueVars => QueueInv'
  <2> SUFFICES ASSUME QueueInv, [QueueNext]_queueVars  PROVE QueueInv'
    OBVIOUS
  <2>1. ASSUME NEW job \in Job, SubmitPriority(job)  PROVE QueueInv'
    BY <2>1, SubmitKeepsQueueInv
  <2>2. CASE PopFront
    BY <2>2, PopKeepsQueueInv
  <2>3. CASE Shutdown
    BY <2>3 DEF Shutdown, QueueInv, QueueType, DepthIsLength, UrgentFirst
  <2>4. CASE UNCHANGED queueVars
    BY <2>4 DEF queueVars, QueueInv, QueueType, DepthIsLength, UrgentFirst
  <2> QED
    BY <2>1, <2>2, <2>3, <2>4 DEF QueueNext
<1> QED
  BY <1>1, <1>2, PTL DEF QueueSpec

\* The variables of the queue keep their types; the depth never passes the
\* capacity given to TransferQueue::new.
THEOREM QueueTypeCorrect == QueueSpec => []QueueType
  BY QueueInvariant, PTL DEF QueueInv

\* current_depth, the counter behind depth, is_full and is_empty, always
\* equals the number of queued jobs.
THEOREM DepthCorrect == QueueSpec => []DepthIsLength
  BY QueueInvariant, PTL DEF QueueInv

\* No High or Critical job is ever queued behind a Normal or Low one.
THEOREM UrgentFirstCorrect == QueueSpec => []UrgentFirst
  BY QueueInvariant, PTL DEF QueueInv

-----------------------------------------------------------------------------
(* Refinement: the deque, cut behind its urgent prefix, is two FIFO lanes. *)

\* UrgentFirst of a sequence.
CutOnce(q) == \A i, j \in 1..Len(q) : i < j /\ Urgent(q[j]) => Urgent(q[i])

\* The job UrgentPrefix probes the deque with is an urgent one.
LEMMA ProbeIsUrgent == Urgent([priority |-> "Critical"])
  BY DEF Urgent, IsHigherThan, Value

\* All urgent jobs of a deque are in its urgent prefix, nothing else is.
LEMMA PrefixCuts ==
  ASSUME NEW S, NEW q \in Seq(S), CutOnce(q)
  PROVE  /\ UrgentPrefix(q) \in 0..Len(q)
         /\ \A i \in 1..Len(q) : Urgent(q[i]) <=> i <= UrgentPrefix(q)
<1> DEFINE p == InsertPosition(q, [priority |-> "Critical"])
<1>1. /\ p \in 1..(Len(q) + 1)
      /\ \A i \in 1..(p - 1) : Urgent(q[i])
      /\ p <= Len(q) => ~Urgent(q[p])
  BY ProbeIsUrgent, UrgentInsertPosition
<1>2. Len(q) \in Nat /\ UrgentPrefix(q) = p - 1
  BY LenProperties DEF UrgentPrefix
<1> HIDE DEF p
<1>3. ASSUME NEW i \in 1..Len(q)  PROVE Urgent(q[i]) <=> i <= p - 1
  <2>1. CASE i <= p - 1
    BY <1>1, <1>2, <2>1
  <2>2. CASE i = p
    BY <1>1, <1>2, <2>2
  <2>3. CASE i > p
    <3>1. p \in 1..Len(q) /\ ~Urgent(q[p])
      BY <1>1, <1>2, <2>3
    <3> QED BY <1>1, <1>2, <2>3, <3>1 DEF CutOnce
  <2> QED BY <1>1, <1>2, <2>1, <2>2, <2>3
<1> QED
  BY <1>1, <1>2, <1>3

\* There is only one place to cut.
LEMMA PrefixUnique ==
  ASSUME NEW S, NEW q \in Seq(S), NEW v \in 0..Len(q),
         \A i \in 1..Len(q) : Urgent(q[i]) <=> i <= v
  PROVE  UrgentPrefix(q) = v
<1>1. CutOnce(q)
  BY LenProperties DEF CutOnce
<1>2. /\ UrgentPrefix(q) \in 0..Len(q)
      /\ \A i \in 1..Len(q) : Urgent(q[i]) <=> i <= UrgentPrefix(q)
  BY <1>1, PrefixCuts
<1>3. Len(q) \in Nat
  BY LenProperties
<1>4. CASE UrgentPrefix(q) < v
  BY <1>2, <1>3, <1>4
<1>5. CASE v < UrgentPrefix(q)
  BY <1>2, <1>3, <1>5
<1> QED
  BY <1>2, <1>3, <1>4, <1>5

\* The elements of a cut-out part of a deque.
LEMMA PartOfSeq ==
  ASSUME NEW S, NEW q \in Seq(S), NEW m \in 1..(Len(q) + 1), NEW n \in (m - 1)..Len(q)
  PROVE  /\ SubSeq(q, m, n) \in Seq(S)
         /\ Len(SubSeq(q, m, n)) = n - m + 1
         /\ \A i \in 1..(n - m + 1) : SubSeq(q, m, n)[i] = q[m + i - 1]
<1>1. Len(q) \in Nat /\ \A i \in m..n : q[i] \in S
  BY LenProperties, ElementOfSeq
<1> QED
  BY <1>1, SubSeqProperties

\* The two lanes of a deque cut at v, position by position.
LEMMA LanesAt ==
  ASSUME NEW S, NEW q \in Seq(S), NEW v \in 0..Len(q),
         \A i \in 1..Len(q) : Urgent(q[i]) <=> i <= v
  PROVE  /\ UrgentLane(q) \in Seq(S) /\ Len(UrgentLane(q)) = v
         /\ \A i \in 1..v : UrgentLane(q)[i] = q[i]
         /\ OrdinaryLane(q) \in Seq(S) /\ Len(OrdinaryLane(q)) = Len(q) - v
         /\ \A i \in 1..(Len(q) - v) : OrdinaryLane(q)[i] = q[v + i]
<1>1. v \in 0..Len(q) /\ Len(q) \in Nat /\ UrgentPrefix(q) = v
  BY PrefixUnique, LenProperties
<1>2. UrgentLane(q) = SubSeq(q, 1, v) /\ OrdinaryLane(q) = SubSeq(q, v + 1, Len(q))
  BY <1>1 DEF UrgentLane, OrdinaryLane
<1>3. /\ SubSeq(q, 1, v) \in Seq(S)
      /\ Len(SubSeq(q, 1, v)) = v
      /\ \A i \in 1..v : SubSeq(q, 1, v)[i] = q[i]
  <2>1. /\ SubSeq(q, 1, v) \in Seq(S)
        /\ Len(SubSeq(q, 1, v)) = v - 1 + 1
        /\ \A i \in 1..(v - 1 + 1) : SubSeq(q, 1, v)[i] = q[1 + i - 1]
    BY <1>1, PartOfSeq
  <2> QED BY <1>1, <2>1
<1>4. /\ SubSeq(q, v + 1, Len(q)) \in Seq(S)
      /\ Len(SubSeq(q, v + 1, Len(q))) = Len(q) - v
      /\ \A i \in 1..(Len(q) - v) : SubSeq(q, v + 1, Len(q))[i] = q[v + i]
  <2>1. /\ SubSeq(q, v + 1, Len(q)) \in Seq(S)
        /\ Len(SubSeq(q, v + 1, Len(q))) = Len(q) - (v + 1) + 1
        /\ \A i \in 1..(Len(q) - (v + 1) + 1) : SubSeq(q, v + 1, Len(q))[i] = q[(v + 1) + i - 1]
    BY <1>1, PartOfSeq
  <2> QED BY <1>1, <2>1
<1> QED
  BY <1>2, <1>3, <1>4

\* A deque with an urgent job put in behind the urgent prefix has that job at
\* the back of its urgent lane.
LEMMA GrowUrgent ==
  ASSUME NEW S, NEW q \in Seq(S), NEW p \in 1..(Len(q) + 1),
         \A i \in 1..Len(q) : Urgent(q[i]) <=> i <= p - 1,
         NEW job \in S, Urgent(job),
         NEW r \in Seq(S), Inserted(q, p, job, r)
  PROVE  UrgentLane(r) = Append(UrgentLane(q), job) /\ OrdinaryLane(r) = OrdinaryLane(q)
<1>1. /\ Len(q) \in Nat /\ p - 1 \in 0..Len(q) /\ p \in 0..Len(r)
      /\ Len(r) = Len(q) + 1
      /\ \A i \in 1..(p - 1) : r[i] = q[i]
      /\ r[p] = job
      /\ \A i \in (p + 1)..(Len(q) + 1) : r[i] = q[i - 1]
  BY LenProperties DEF Inserted
<1>2. ASSUME NEW i \in 1..Len(r)  PROVE Urgent(r[i]) <=> i <= p
  <2>1. CASE i < p
    BY <1>1, <2>1
  <2>2. CASE i = p
    BY <1>1, <2>2
  <2>3. CASE i > p
    <3>1. i - 1 \in 1..Len(q) /\ ~(i - 1 <= p - 1) /\ r[i] = q[i - 1]
      BY <1>1, <2>3
    <3> QED BY <2>3, <3>1
  <2> QED BY <1>1, <2>1, <2>2, <2>3
<1>3. /\ UrgentLane(q) \in Seq(S) /\ Len(UrgentLane(q)) = p - 1
      /\ \A i \in 1..(p - 1) : UrgentLane(q)[i] = q[i]
      /\ OrdinaryLane(q) \in Seq(S) /\ Len(OrdinaryLane(q)) = Len(q) - (p - 1)
      /\ \A i \in 1..(Len(q) - (p - 1)) : OrdinaryLane(q)[i] = q[(p - 1) + i]
  BY <1>1, LanesAt, Zenon
<1>4. /\ UrgentLane(r) \in Seq(S) /\ Len(UrgentLane(r)) = p
      /\ \A i \in 1..p : UrgentLane(r)[i] = r[i]
      /\ OrdinaryLane(r) \in Seq(S) /\ Len(OrdinaryLane(r)) = Len(r) - p
      /\ \A i \in 1..(Len(r) - p) : OrdinaryLane(r)[i] = r[p + i]
  BY <1>1, <1>2, LanesAt, Zenon
<1>5. UrgentLane(r) = Append(UrgentLane(q), job)
  <2>1. /\ Append(UrgentLane(q), job) \in Seq(S)
        /\ Len(Append(UrgentLane(q), job)) = Len(UrgentLane(q)) + 1
        /\ \A i \in 1..Len(UrgentLane(q)) : Append(UrgentLane(q), job)[i] = UrgentLane(q)[i]
        /\ Append(UrgentLane(q), job)[Len(UrgentLane(q)) + 1] = job
    BY <1>3, AppendProperties
  <2>2. ASSUME NEW i \in 1..p  PROVE UrgentLane(r)[i] = Append(UrgentLane(q), job)[i]
    <3>1. CASE i = p
      BY <1>1, <1>3, <1>4, <2>1, <3>1
    <3>2. CASE i \in 1..(p - 1)
      <4>1. UrgentLane(r)[i] = r[i] /\ UrgentLane(q)[i] = q[i] /\ r[i] = q[i]
        BY <1>1, <1>3, <1>4, <3>2, Zenon
      <4> QED BY <1>3, <2>1, <3>2, <4>1, Zenon
    <3>3. i = p \/ i \in 1..(p - 1)
      OBVIOUS
    <3> QED BY <3>1, <3>2, <3>3, Zenon
  <2>3. Len(UrgentLane(r)) = Len(Append(UrgentLane(q), job))
    BY <1>1, <1>3, <1>4, <2>1
  <2>4. \A i \in 1..Len(UrgentLane(r)) : UrgentLane(r)[i] = Append(UrgentLane(q), job)[i]
    BY <1>4, <2>2
  <2> QED BY <1>4, <2>1, <2>3, <2>4, SeqEqual, Zenon
<1>6. OrdinaryLane(r) = OrdinaryLane(q)
  <2>1. Len(r) - p = Len(q) - (p - 1)
    BY <1>1
  <2>2. ASSUME NEW i \in 1..(Len(r) - p)  PROVE OrdinaryLane(r)[i] = OrdinaryLane(q)[i]
    <3>1. p + i \in (p + 1)..(Len(q) + 1) /\ (p + i) - 1 = (p - 1) + i
      BY <1>1
    <3>2. r[p + i] = q[(p - 1) + i]
      BY <1>1, <3>1
    <3> QED BY <1>3, <1>4, <2>1, <3>2
  <2>3. Len(OrdinaryLane(r)) = Len(OrdinaryLane(q))
    BY <1>3, <1>4, <2>1
  <2>4. \A i \in 1..Len(OrdinaryLane(r)) : OrdinaryLane(r)[i] = OrdinaryLane(q)[i]
    BY <1>4, <2>2
  <2> QED BY <1>3, <1>4, <2>3, <2>4, SeqEqual, Zenon
<1> QED
  BY <1>5, <1>6

\* A deque with a Normal or Low job put in at its end has that job at the back
\* of its ordinary lane.
LEMMA GrowOrdinary ==
  ASSUME NEW S, NEW q \in Seq(S), NEW u \in 0..Len(q),
         \A i \in 1..Len(q) : Urgent(q[i]) <=> i <= u,
         NEW job \in S, ~Urgent(job),
         NEW r \in Seq(S), Inserted(q, Len(q) + 1, job, r)
  PROVE  UrgentLane(r) = UrgentLane(q) /\ OrdinaryLane(r) = Append(OrdinaryLane(q), job)
<1>1. Len(q) \in Nat
  BY LenProperties
<1>2. /\ Len(r) = Len(q) + 1
      /\ \A i \in 1..Len(q) : r[i] = q[i]
      /\ r[Len(q) + 1] = job
  BY <1>1 DEF Inserted
<1>3. ASSUME NEW i \in 1..Len(r)  PROVE Urgent(r[i]) <=> i <= u
  <2>1. CASE i \in 1..Len(q)
    BY <1>2, <2>1
  <2>2. CASE i = Len(q) + 1
    BY <1>2, <1>1, <2>2
  <2> QED BY <1>2, <1>1, <2>1, <2>2
<1>4. /\ UrgentLane(q) \in Seq(S) /\ Len(UrgentLane(q)) = u
      /\ \A i \in 1..u : UrgentLane(q)[i] = q[i]
      /\ OrdinaryLane(q) \in Seq(S) /\ Len(OrdinaryLane(q)) = Len(q) - u
      /\ \A i \in 1..(Len(q) - u) : OrdinaryLane(q)[i] = q[u + i]
  BY LanesAt, Zenon
<1>5. /\ UrgentLane(r) \in Seq(S) /\ Len(UrgentLane(r)) = u
      /\ \A i \in 1..u : UrgentLane(r)[i] = r[i]
      /\ OrdinaryLane(r) \in Seq(S) /\ Len(OrdinaryLane(r)) = Len(r) - u
      /\ \A i \in 1..(Len(r) - u) : OrdinaryLane(r)[i] = r[u + i]
  <2>1. u \in 0..Len(r)
    BY <1>2, <1>1
  <2>2. r \in Seq(S) /\ \A i \in 1..Len(r) : Urgent(r[i]) <=> i <= u
    BY <1>3
  <2> QED BY <2>1, <2>2, LanesAt, Zenon
<1>6. UrgentLane(r) = UrgentLane(q)
  <2>1. ASSUME NEW i \in 1..u  PROVE UrgentLane(r)[i] = UrgentLane(q)[i]
    <3>1. i \in 1..Len(q)
      BY <1>2, <1>1
    <3> QED BY <1>2, <1>4, <1>5, <3>1
  <2>2. Len(UrgentLane(r)) = Len(UrgentLane(q))
    BY <1>2, <1>4, <1>5
  <2>3. \A i \in 1..Len(UrgentLane(r)) : UrgentLane(r)[i] = UrgentLane(q)[i]
    BY <1>5, <2>1
  <2> QED BY <1>2, <1>4, <1>5, <2>2, <2>3, SeqEqual, Zenon
<1>7. OrdinaryLane(r) = Append(OrdinaryLane(q), job)
  <2>1. /\ Append(OrdinaryLane(q), job) \in Seq(S)
        /\ Len(Append(OrdinaryLane(q), job)) = Len(OrdinaryLane(q)) + 1
        /\ \A i \in 1..Len(OrdinaryLane(q)) :
             Append(OrdinaryLane(q), job)[i] = OrdinaryLane(q)[i]
        /\ Append(OrdinaryLane(q), job)[Len(OrdinaryLane(q)) + 1] = job
    BY <1>2, <1>4, AppendProperties
  <2>2. Len(r) - u = (Len(q) - u) + 1 /\ Len(q) - u \in Nat
    BY <1>2, <1>1
  <2>3. ASSUME NEW i \in 1..(Len(r) - u)
        PROVE  OrdinaryLane(r)[i] = Append(OrdinaryLane(q), job)[i]
    <3>1. CASE i = (Len(q) - u) + 1
      <4>1. u + i = Len(q) + 1
        BY <1>2, <1>1, <3>1
      <4>2. OrdinaryLane(r)[i] = job
        BY <1>2, <1>5, <4>1
      <4> QED BY <1>2, <1>4, <2>1, <3>1, <4>2
    <3>2. CASE i \in 1..(Len(q) - u)
      <4>1. u + i \in 1..Len(q)
        BY <1>2, <1>1, <3>2
      <4>2. OrdinaryLane(r)[i] = q[u + i]
        BY <1>2, <1>5, <4>1
      <4> QED BY <1>2, <1>4, <2>1, <3>2, <4>2
    <3>3. i = (Len(q) - u) + 1 \/ i \in 1..(Len(q) - u)
      BY <2>2
    <3> QED BY <3>1, <3>2, <3>3, Zenon
  <2>4. Len(OrdinaryLane(r)) = Len(Append(OrdinaryLane(q), job))
    BY <1>2, <1>4, <1>5, <2>1, <2>2
  <2>5. \A i \in 1..Len(OrdinaryLane(r)) :
          OrdinaryLane(r)[i] = Append(OrdinaryLane(q), job)[i]
    BY <1>5, <2>3
  <2> QED BY <1>5, <2>1, <2>4, <2>5, SeqEqual, Zenon
<1> QED
  BY <1>6, <1>7

\* Taking the front job while there are urgent ones takes the urgent lane's
\* front.
LEMMA TakeUrgent ==
  ASSUME NEW S, NEW q \in Seq(S), NEW u \in 1..Len(q),
         \A i \in 1..Len(q) : Urgent(q[i]) <=> i <= u,
         NEW r \in Seq(S), Len(r) = Len(q) - 1, \A i \in 1..Len(r) : r[i] = q[i + 1]
  PROVE  /\ UrgentLane(q) # << >>
         /\ UrgentLane(r) = Tail(UrgentLane(q)) /\ OrdinaryLane(r) = OrdinaryLane(q)
<1>1. Len(q) \in Nat /\ u \in 0..Len(q) /\ u - 1 \in 0..Len(r)
  BY LenProperties
<1>2. ASSUME NEW i \in 1..Len(r)  PROVE Urgent(r[i]) <=> i <= u - 1
  <2>1. i + 1 \in 1..Len(q) /\ r[i] = q[i + 1] /\ (i + 1 <= u <=> i <= u - 1)
    BY <1>1
  <2> QED BY <2>1
<1>3. /\ UrgentLane(q) \in Seq(S) /\ Len(UrgentLane(q)) = u
      /\ \A i \in 1..u : UrgentLane(q)[i] = q[i]
      /\ OrdinaryLane(q) \in Seq(S) /\ Len(OrdinaryLane(q)) = Len(q) - u
      /\ \A i \in 1..(Len(q) - u) : OrdinaryLane(q)[i] = q[u + i]
  BY <1>1, LanesAt, Zenon
<1>4. /\ UrgentLane(r) \in Seq(S) /\ Len(UrgentLane(r)) = u - 1
      /\ \A i \in 1..(u - 1) : UrgentLane(r)[i] = r[i]
      /\ OrdinaryLane(r) \in Seq(S) /\ Len(OrdinaryLane(r)) = Len(r) - (u - 1)
      /\ \A i \in 1..(Len(r) - (u - 1)) : OrdinaryLane(r)[i] = r[(u - 1) + i]
  BY <1>1, <1>2, LanesAt, Zenon
<1>5. UrgentLane(q) # << >>
  BY <1>1, <1>3, EmptySeq
<1>6. UrgentLane(r) = Tail(UrgentLane(q))
  <2>1. /\ Tail(UrgentLane(q)) \in Seq(S)
        /\ Len(Tail(UrgentLane(q))) = Len(UrgentLane(q)) - 1
        /\ \A i \in 1..Len(Tail(UrgentLane(q))) : Tail(UrgentLane(q))[i] = UrgentLane(q)[i + 1]
    BY <1>3, <1>5, HeadTailProperties
  <2>2. ASSUME NEW i \in 1..(u - 1)  PROVE UrgentLane(r)[i] = Tail(UrgentLane(q))[i]
    <3>1. i \in 1..Len(r) /\ i + 1 \in 1..u
      BY <1>1
    <3>2. UrgentLane(r)[i] = q[i + 1]
      BY <1>4, <3>1
    <3> QED BY <1>3, <2>1, <3>1, <3>2
  <2>3. Len(UrgentLane(r)) = Len(Tail(UrgentLane(q)))
    BY <1>3, <1>4, <2>1
  <2>4. \A i \in 1..Len(UrgentLane(r)) : UrgentLane(r)[i] = Tail(UrgentLane(q))[i]
    BY <1>4, <2>2
  <2> QED BY <1>4, <2>1, <2>3, <2>4, SeqEqual, Zenon
<1>7. OrdinaryLane(r) = OrdinaryLane(q)
  <2>1. Len(r) - (u - 1) = Len(q) - u
    BY <1>1
  <2>2. ASSUME NEW i \in 1..(Len(q) - u)  PROVE OrdinaryLane(r)[i] = OrdinaryLane(q)[i]
    <3>1. (u - 1) + i \in 1..Len(r) /\ ((u - 1) + i) + 1 = u + i
      BY <1>1
    <3>2. r[(u - 1) + i] = q[u + i]
      BY <3>1
    <3> QED BY <1>3, <1>4, <2>1, <3>2
  <2>3. Len(OrdinaryLane(r)) = Len(OrdinaryLane(q))
    BY <1>3, <1>4, <2>1
  <2>4. \A i \in 1..Len(OrdinaryLane(r)) : OrdinaryLane(r)[i] = OrdinaryLane(q)[i]
    BY <1>4, <2>1, <2>2
  <2> QED BY <1>3, <1>4, <2>3, <2>4, SeqEqual, Zenon
<1> QED
  BY <1>5, <1>6, <1>7

\* Without urgent jobs the front job is the ordinary lane's front.
LEMMA TakeOrdinary ==
  ASSUME NEW S, NEW q \in Seq(S), q # << >>,
         \A i \in 1..Len(q) : Urgent(q[i]) <=> i <= 0,
         NEW r, r = Tail(q)
  PROVE  /\ UrgentLane(q) = << >> /\ OrdinaryLane(q) = q
         /\ UrgentLane(r) = << >> /\ OrdinaryLane(r) = Tail(q)
<1>1. ASSUME NEW s \in Seq(S), \A i \in 1..Len(s) : ~Urgent(s[i])
      PROVE  UrgentLane(s) = << >> /\ OrdinaryLane(s) = s
  <2>1. 0 \in 0..Len(s) /\ \A i \in 1..Len(s) : Urgent(s[i]) <=> i <= 0
    BY <1>1, LenProperties
  <2>2. UrgentPrefix(s) = 0
    BY <2>1, PrefixUnique, Zenon
  <2>3. SubSeq(s, 1, 0) = << >>
    BY SubSeqEmpty
  <2>4. 0 + 1 = 1 /\ SubSeq(s, 1, Len(s)) = s
    BY SubSeqFull
  <2> QED BY <2>2, <2>3, <2>4 DEF UrgentLane, OrdinaryLane
<1>2. \A i \in 1..Len(q) : ~Urgent(q[i])
  BY LenProperties
<1>3. /\ Tail(q) \in Seq(S) /\ Len(Tail(q)) = Len(q) - 1
      /\ \A i \in 1..Len(Tail(q)) : Tail(q)[i] = q[i + 1]
  BY HeadTailProperties
<1>4. ASSUME NEW i \in 1..Len(Tail(q))  PROVE ~Urgent(Tail(q)[i])
  <2>1. i + 1 \in 1..Len(q)
    BY <1>3, LenProperties
  <2> QED BY <1>2, <1>3, <2>1
<1> QED
  BY <1>1, <1>2, <1>3, <1>4

\* Every accepted job goes to the back of its lane.
LEMMA SubmitRefines ==
  ASSUME QueueInv, NEW job \in Job, SubmitPriority(job)
  PROVE  Lanes!FifoNext
<1>1. /\ jobs \in Seq(Job) /\ Len(jobs) \in Nat /\ current_depth = Len(jobs)
      /\ ~shutdown /\ ~(current_depth >= Capacity) /\ shutdown' = shutdown
      /\ Capacity \in Nat /\ CutOnce(jobs)
  BY CapacityAssumption, LenProperties
     DEF QueueInv, QueueType, DepthIsLength, UrgentFirst, CutOnce, SubmitPriority, Refuses
<1>2. PICK u \in 0..Len(jobs) :
        u = UrgentPrefix(jobs) /\ \A i \in 1..Len(jobs) : Urgent(jobs[i]) <=> i <= u
  BY <1>1, PrefixCuts
<1>3. /\ Len(UrgentLane(jobs)) = u /\ Len(OrdinaryLane(jobs)) = Len(jobs) - u
  BY <1>1, <1>2, LanesAt, Zenon
<1>4. Lanes!HasRoom
  BY <1>1, <1>2, <1>3 DEF Lanes!HasRoom
<1> DEFINE p == InsertPosition(jobs, job)
<1>5. p \in 1..(Len(jobs) + 1)
  BY SubmitInserts
<1>6. jobs' \in Seq(Job) /\ Inserted(jobs, p, job, jobs')
  BY SubmitInserts
<1>7. CASE Urgent(job)
  <2>1. p = u + 1
    <3>1. p = InsertPosition(jobs, [priority |-> "Critical"])
      BY <1>7, ProbeIsUrgent DEF InsertPosition
    <3> QED BY <1>1, <1>2, <1>5, <3>1 DEF UrgentPrefix
  <2> HIDE DEF p
  <2>2. \A i \in 1..Len(jobs) : Urgent(jobs[i]) <=> i <= p - 1
    BY <1>1, <1>2, <2>1
  <2>3. /\ UrgentLane(jobs') = Append(UrgentLane(jobs), job)
        /\ OrdinaryLane(jobs') = OrdinaryLane(jobs)
    BY <1>1, <1>5, <1>6, <1>7, <2>2, GrowUrgent, Zenon
  <2>4. Lanes!AcceptUrgent(job)
    BY <1>1, <1>4, <2>3 DEF Lanes!AcceptUrgent
  <2> QED BY <1>7, <2>4 DEF Lanes!FifoNext
<1>8. CASE ~Urgent(job)
  <2>1. p = Len(jobs) + 1
    BY <1>8 DEF InsertPosition
  <2> HIDE DEF p
  <2>2. Inserted(jobs, Len(jobs) + 1, job, jobs')
    BY <1>6, <2>1
  <2>3. /\ UrgentLane(jobs') = UrgentLane(jobs)
        /\ OrdinaryLane(jobs') = Append(OrdinaryLane(jobs), job)
    BY <1>1, <1>2, <1>6, <1>8, <2>2, GrowOrdinary, Zenon
  <2>4. Lanes!AcceptOrdinary(job)
    BY <1>1, <1>4, <2>3 DEF Lanes!AcceptOrdinary
  <2> QED BY <1>8, <2>4 DEF Lanes!FifoNext
<1> QED
  BY <1>7, <1>8

\* Every job handed out comes from the front of the urgent lane or, when that
\* one is empty, of the ordinary lane.
LEMMA PopRefines ==
  ASSUME QueueInv, PopFront
  PROVE  Lanes!FifoNext
<1>1. /\ jobs \in Seq(Job) /\ jobs # << >> /\ jobs' = Tail(jobs)
      /\ shutdown' = shutdown /\ CutOnce(jobs)
  BY DEF QueueInv, QueueType, UrgentFirst, CutOnce, PopFront
<1>2. PICK u \in 0..Len(jobs) : \A i \in 1..Len(jobs) : Urgent(jobs[i]) <=> i <= u
  BY <1>1, PrefixCuts
<1>3. /\ Tail(jobs) \in Seq(Job) /\ Len(Tail(jobs)) = Len(jobs) - 1
      /\ \A i \in 1..Len(Tail(jobs)) : Tail(jobs)[i] = jobs[i + 1]
  BY <1>1, HeadTailProperties
<1>4. CASE u = 0
  <2>1. /\ UrgentLane(jobs) = << >> /\ OrdinaryLane(jobs) = jobs
        /\ UrgentLane(Tail(jobs)) = << >> /\ OrdinaryLane(Tail(jobs)) = Tail(jobs)
    BY <1>1, <1>2, <1>4, TakeOrdinary, Zenon
  <2>2. Lanes!ServeOrdinary
    BY <1>1, <2>1 DEF Lanes!ServeOrdinary
  <2> QED BY <2>2 DEF Lanes!FifoNext
<1>5. CASE u \in 1..Len(jobs)
  <2>1. /\ UrgentLane(jobs) # << >>
        /\ UrgentLane(Tail(jobs)) = Tail(UrgentLane(jobs))
        /\ OrdinaryLane(Tail(jobs)) = OrdinaryLane(jobs)
    BY <1>1, <1>2, <1>3, <1>5, TakeUrgent, Zenon
  <2>2. Lanes!ServeUrgent
    BY <1>1, <2>1 DEF Lanes!ServeUrgent
  <2> QED BY <2>2 DEF Lanes!FifoNext
<1> QED
  BY <1>1, <1>2, <1>4, <1>5, LenProperties

\* The deque with its insertion point implements two FIFO lanes: within a
\* class jobs leave in submission order, and urgent jobs leave first.
THEOREM QueueImplementsLanes == QueueSpec => ImplementsLanes
<1>1. QueueInit => Lanes!FifoInit
  <2> SUFFICES ASSUME QueueInit  PROVE Lanes!FifoInit
    OBVIOUS
  <2>1. jobs = << >> /\ Len(jobs) = 0 /\ shutdown = FALSE
    BY DEF QueueInit
  <2>2. << >> \in Seq(Job) /\ CutOnce(jobs)
    BY <2>1, EmptySeq DEF CutOnce
  <2>3. UrgentPrefix(jobs) = 0
    <3>1. jobs \in Seq(Job)
      BY <2>1, <2>2
    <3>2. UrgentPrefix(jobs) \in 0..Len(jobs)
      BY <2>2, <3>1, PrefixCuts, Zenon
    <3> QED BY <2>1, <3>2
  <2>4. UrgentLane(jobs) = << >> /\ OrdinaryLane(jobs) = << >>
    BY <2>1, <2>3, SubSeqEmpty DEF UrgentLane, OrdinaryLane
  <2> QED BY <2>1, <2>4 DEF Lanes!FifoInit
<1>2. QueueInv /\ [QueueNext]_queueVars => [Lanes!FifoNext]_(Lanes!fifoVars)
  <2> SUFFICES ASSUME QueueInv, [QueueNext]_queueVars
               PROVE  [Lanes!FifoNext]_(Lanes!fifoVars)
    OBVIOUS
  <2>1. ASSUME NEW job \in Job, SubmitPriority(job)  PROVE Lanes!FifoNext
    BY <2>1, SubmitRefines
  <2>2. CASE PopFront
    BY <2>2, PopRefines
  <2>3. CASE Shutdown
    BY <2>3 DEF Shutdown, Lanes!FifoNext, Lanes!Close
  <2>4. CASE UNCHANGED queueVars
    BY <2>4 DEF queueVars, Lanes!fifoVars
  <2> QED
    BY <2>1, <2>2, <2>3, <2>4 DEF QueueNext
<1> QED
  BY <1>1, <1>2, QueueInvariant, PTL DEF QueueSpec, ImplementsLanes, Lanes!FifoSpec

=============================================================================
