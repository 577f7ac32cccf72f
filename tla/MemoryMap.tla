----------------------------- MODULE MemoryMap -----------------------------
(***************************************************************************)
(* How the blocks of the distributed shared memory are dealt out to the    *)
(* worker processes (trabalho_2/project/src/utils.hpp and the constructors *)
(* in lib.hpp), and how many blocks a call of escreve or le touches.       *)
(*                                                                         *)
(* The code computes the maintainer of a block twice: resolve_maintainers  *)
(* builds the memory_map that every repository is constructed from, and    *)
(* resolve_maintainer recomputes the rank for a single block when a remote *)
(* write is sent.  Both are kept here, as two definitions.                 *)
(***************************************************************************)
EXTENDS Integers

CONSTANTS
  NumWorkers,   \* processes that maintain blocks: get_num_worker_procs
  NumBlocks,    \* NUM_BLOCKS
  BlockSize     \* BLOCK_SIZE, in bytes

(***************************************************************************)
(* What validate_args lets through (0 < blocks, 0 < block size, no more    *)
(* workers than blocks), with at least one process besides the broadcaster.*)
(***************************************************************************)
ASSUME ConfigAssumption ==
  /\ NumWorkers \in Nat \ {0}
  /\ NumBlocks  \in Nat \ {0}
  /\ BlockSize  \in Nat \ {0}
  /\ NumWorkers <= NumBlocks

Worker == 0 .. NumWorkers - 1

Block == 0 .. NumBlocks - 1

\* resolve_maintainer: the rank a remote write of block key is sent to.
ResolveMaintainer(key) == key % NumWorkers

\* Mutant: the blocks dealt out in contiguous chunks instead of round-robin.
MutantChunkedMap ==
  [w \in Worker |-> {i \in Block : (i * NumWorkers) \div NumBlocks = w}]

\* resolve_maintainers: the blocks of every worker, dealt out round-robin.
MemMap == [w \in Worker |-> {i \in Block : i % NumWorkers = w}]

\* local_set.contains(key), and access_map.at(key) == local.
IsLocal(w, key) == key \in MemMap[w]

\* The rank the RemoteRepository constructor pairs block key with: the target
\* of a remote read.
RemoteTarget(key) == CHOOSE w \in Worker : key \in MemMap[w]

\* Mutant: a division of integers inside the std::ceil.
MutantScopedBlocks(tamanho) == tamanho \div BlockSize

\* The number of blocks that tamanho bytes span: the std::ceil of escreve, le.
ScopedBlocks(tamanho) == (tamanho + BlockSize - 1) \div BlockSize

\* The sizes the worker loop draws for an access that starts at block posicao:
\* rng() % ((num_blocks - target_block) * block_size).
DrawnSizes(posicao) == 0 .. (NumBlocks - posicao) * BlockSize - 1

=============================================================================
