--------------------------- MODULE MCAutoMigration ---------------------------
(***************************************************************************)
(* Constants for the model-checking runs of AutoMigration.                 *)
(***************************************************************************)
EXTENDS AutoMigration, TLC

MCJob     == [chunk : Chunk, from : Tier, to : Tier, priority : TransferPriority]
MCTier    == {"Ram", "Disk"}
MCRam     == {"Ram"}
MCMove    == {<<"Ram", "Disk">>}
MCSmall   == {FALSE}

MCSymmetry == Permutations(Chunk) \cup Permutations(Worker)

=============================================================================
