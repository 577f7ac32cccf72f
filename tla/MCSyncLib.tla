----------------------------- MODULE MCSyncLib -----------------------------
EXTENDS SyncLib

CONSTANTS t1, t2, t3   \* threads, as model values

ThreeThreads == {t1, t2, t3}
=============================================================================
