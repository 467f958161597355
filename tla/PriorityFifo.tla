----------------------------- MODULE PriorityFifo -----------------------------
(***************************************************************************)
(* What TransferQueue promises its users: two bounded FIFO lanes sharing   *)
(* one capacity.  A job enters the lane of its class at the back; the      *)
(* urgent lane is served first; a closed queue accepts nothing but still   *)
(* hands out what it holds.                                                *)
(***************************************************************************)
EXTENDS Integers, Sequences

CONSTANTS UrgentJob,      \* High and Critical jobs
          OrdinaryJob,    \* Normal and Low jobs
          Capacity

VARIABLES urgent, ordinary, closed

fifoVars == <<urgent, ordinary, closed>>

FifoInit == urgent = << >> /\ ordinary = << >> /\ closed = FALSE

HasRoom == ~closed /\ Len(urgent) + Len(ordinary) < Capacity

AcceptUrgent(job) ==
  /\ HasRoom
  /\ urgent' = Append(urgent, job)
  /\ UNCHANGED <<ordinary, closed>>

AcceptOrdinary(job) ==
  /\ HasRoom
  /\ ordinary' = Append(ordinary, job)
  /\ UNCHANGED <<urgent, closed>>

ServeUrgent ==
  /\ urgent # << >>
  /\ urgent' = Tail(urgent)
  /\ UNCHANGED <<ordinary, closed>>

ServeOrdinary ==
  /\ urgent = << >>
  /\ ordinary # << >>
  /\ ordinary' = Tail(ordinary)
  /\ UNCHANGED <<urgent, closed>>

Close == closed' = TRUE /\ UNCHANGED <<urgent, ordinary>>

FifoNext ==
  \/ \E job \in UrgentJob : AcceptUrgent(job)
  \/ \E job \in OrdinaryJob : AcceptOrdinary(job)
  \/ ServeUrgent
  \/ ServeOrdinary
  \/ Close

FifoSpec == FifoInit /\ [][FifoNext]_fifoVars

=============================================================================
