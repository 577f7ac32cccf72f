------------------------ MODULE MCSharedMemoryHistory ------------------------
EXTENDS SharedMemoryHistory, MCBounds
=============================================================================
