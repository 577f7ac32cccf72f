--------------------------- MODULE MCSharedMemory ---------------------------
EXTENDS SharedMemory, MCBounds
=============================================================================
