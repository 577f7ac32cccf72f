------------------------------ MODULE MCBounds ------------------------------
(***************************************************************************)
(* Values of MaxWrites for the runs of SharedMemory and                    *)
(* SharedMemoryHistory.                                                    *)
(***************************************************************************)
EXTENDS MemoryMap

\* One write each for workers 0 and 1.
OneEach == [w \in Worker |-> IF w < 2 THEN 1 ELSE 0]

\* Only worker 0 writes, twice.
TwoWrites == [w \in Worker |-> IF w = 0 THEN 2 ELSE 0]

\* Only worker 0 writes, often enough to fill every stage of the invalidation.
FourWrites == [w \in Worker |-> IF w = 0 THEN 4 ELSE 0]
=============================================================================
