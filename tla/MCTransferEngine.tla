--------------------------- MODULE MCTransferEngine ---------------------------
(***************************************************************************)
(* Constants for the model-checking runs of TransferEngine.                *)
(***************************************************************************)
EXTENDS TransferEngine, TLC

MCJob == [chunk : Chunk, from : Tier, to : Tier, priority : TransferPriority]

\* RAM and disk have backends, video memory has none (build_backends leaves
\* tiers out the same way); one route works, one ends at the missing tier
\* and one does not change the tier.
MCTier    == {"Ram", "Disk", "GpuVram"}
MCBackend == {"Ram", "Disk"}
MCRam     == {"Ram"}
MCMove    == {<<"Ram", "Disk">>}
MCRoute   == {<<"Ram", "Disk">>, <<"Ram", "GpuVram">>}
MCAnyRoute == MCRoute \cup {<<"Ram", "Ram">>}
MCSmall   == {FALSE}

\* Chunks, clients and workers are interchangeable.
MCSymmetry == Permutations(Chunk) \cup Permutations(Client) \cup Permutations(Worker)

=============================================================================
