--------------------------- MODULE MCTransferQueue ---------------------------
EXTENDS TransferQueue

\* Jobs of every priority; the id keeps two jobs of a class apart, so that a
\* swap inside a lane is visible.
MCJob == [id : {1, 2}, priority : TransferPriority]

=============================================================================
