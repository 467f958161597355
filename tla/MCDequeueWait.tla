---------------------------- MODULE MCDequeueWait ----------------------------
EXTENDS DequeueWait

\* One job of each class: which job is taken is the subject of MCTransferQueue,
\* here only whether one is.
MCJob == [priority : {"Normal", "High"}]

=============================================================================
