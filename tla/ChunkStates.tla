----------------------------- MODULE ChunkStates -----------------------------
(***************************************************************************)
(* The lifecycle of a chunk: ChunkState and the StateMachine table of      *)
(* crates/ghost-core/src/state.rs.                                         *)
(*                                                                         *)
(* The table (a BTreeMap behind one std::sync::Mutex) is the variable      *)
(* states, a function from Chunk in which a missing key is the value       *)
(* Absent.                                                                 *)
(***************************************************************************)

CONSTANT Chunk          \* the chunk identifiers

VARIABLE states         \* StateMachine.states

ChunkState ==
  {"Allocated", "Stored", "Cached", "Migrating", "Evicted", "Failed"}

Absent == "Absent"      \* get_state returns None

\* Mutant of IsValidTransition: the edge of a failed migration is missing.
IsValidTransitionNoFailure(from, to) ==
  <<from, to>> \in
    { <<"Allocated", "Stored">>,
      <<"Stored", "Cached">>,    <<"Stored", "Migrating">>, <<"Stored", "Evicted">>,
      <<"Cached", "Migrating">>, <<"Cached", "Stored">>,
      <<"Migrating", "Stored">>, <<"Migrating", "Evicted">>,
      <<"Failed", "Stored">>,    <<"Failed", "Evicted">> }

\* ChunkState::is_valid_transition, the edges of the lifecycle.
IsValidTransition(from, to) ==
  <<from, to>> \in
    { <<"Allocated", "Stored">>,
      <<"Stored", "Cached">>,    <<"Stored", "Migrating">>, <<"Stored", "Evicted">>,
      <<"Cached", "Migrating">>, <<"Cached", "Stored">>,
      <<"Migrating", "Stored">>, <<"Migrating", "Failed">>, <<"Migrating", "Evicted">>,
      <<"Failed", "Stored">>,    <<"Failed", "Evicted">> }

\* StateMachine::transition on its valid path: the new state is inserted.
\* An invalid transition (or a missing chunk) leaves the table alone; what
\* else it does depends on the build, see TransferEngine.
Transition(c, to) ==
  states' = [states EXCEPT ![c] = to]

\* StateMachine::new, the empty table.
StatesInit == states = [c \in Chunk |-> Absent]

StatesType == states \in [Chunk -> ChunkState \cup {Absent}]

=============================================================================
