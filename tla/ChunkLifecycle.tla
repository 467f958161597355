--------------------------- MODULE ChunkLifecycle ---------------------------
(***************************************************************************)
(* What the transfer engine promises about one chunk table: the lifecycle  *)
(* a client can observe between two lock acquisitions.  It is narrower     *)
(* than the table of valid transitions in ChunkStates: an Allocated chunk  *)
(* is never seen (store registers and stores under one lock), nothing ever *)
(* becomes Cached, a chunk is evicted only from Stored, a failed migration *)
(* is only ever retried, and a migration ends in Stored or in Failed.      *)
(***************************************************************************)
EXTENDS ChunkStates

Create(c)   == states[c] = Absent               /\ Transition(c, "Stored")
Begin(c)    == states[c] \in {"Stored", "Failed"} /\ Transition(c, "Migrating")
Succeed(c)  == states[c] = "Migrating"          /\ Transition(c, "Stored")
Fail(c)     == states[c] = "Migrating"          /\ Transition(c, "Failed")
Remove(c)   == states[c] = "Stored"             /\ Transition(c, "Evicted")

LifecycleNext ==
  \E c \in Chunk :
    Create(c) \/ Begin(c) \/ Succeed(c) \/ Fail(c) \/ Remove(c)

LifecycleSpec == StatesInit /\ [][LifecycleNext]_states

=============================================================================
