--------------------------- MODULE DurableRecordMC ---------------------------
(* Instances of DurableRecord for TLC: the reads that may fail.             *)
EXTENDS DurableRecord

AnyBadRead == SUBSET {0, 1}
=============================================================================
