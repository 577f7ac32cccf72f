--------------------------- MODULE BlockTransfer ---------------------------
(***************************************************************************)
(* The bytes that escreve and le of trabalho_2 move between the caller's   *)
(* buffer and the blocks, block by block, in a run with one worker: every  *)
(* block is local, and nobody else writes.                                 *)
(*                                                                         *)
(* A byte is known by where it comes from: <<v, k>> is byte k of a buffer  *)
(* that was filled with value v.  The caller's buffer has tamanho bytes;   *)
(* what lies behind it on the heap is not the caller's.                    *)
(***************************************************************************)
EXTENDS MemoryMap

CONSTANTS
  Fill,      \* what a caller's buffer may be filled with
  Heap,      \* what fills the memory around it
  MaxOver    \* bound: how many bytes more than the memory has a call asks for

Size == NumBlocks * BlockSize

Address == 0 .. Size - 1

Offset == 0 .. Size + MaxOver + BlockSize - 1

Byte == {<<0, 0>>} \cup ((Fill \cup {Heap}) \X Offset)

ASSUME TransferAssumption ==
  /\ MaxOver \in Nat
  /\ Fill \cap {0, Heap} = {} /\ Heap # 0

VARIABLES
  memory,      \* the bytes of the blocks, one block after the other
  buffer,      \* the caller's buffer and the heap behind it
  op,          \* "escreve" or "le" while it runs, "idle" before the first call,
               \* "escrito" and "lido" after a call that returned 0, "erro" after 1
  posicao, tamanho, i,
  fill,        \* history: what the caller had filled its buffer with
  documented,  \* history: each byte of the memory as the comments on escreve have it
  spill        \* history: the bytes behind the end of a write, in its last block

call == <<posicao, tamanho, fill>>

vars == <<memory, buffer, op, call, i, documented, spill>>

Running == op \in {"escreve", "le"}

TypeOK ==
  /\ memory \in [Address -> Byte]
  /\ buffer \in [Offset -> Byte]
  /\ op \in {"idle", "escreve", "le", "escrito", "lido", "erro"}
  /\ posicao \in 0 .. NumBlocks
  /\ tamanho \in 0 .. Size + MaxOver
  /\ i \in 0 .. NumBlocks
  /\ fill \in Fill \cup {Heap}
  /\ Running => i < ScopedBlocks(tamanho) /\ posicao + ScopedBlocks(tamanho) <= NumBlocks
  /\ documented \in [Address -> Byte]
  /\ spill \subseteq Address

Init ==
  /\ memory = [a \in Address |-> <<0, 0>>]
  /\ buffer = [k \in Offset |-> <<Heap, k>>]
  /\ op = "idle"
  /\ posicao = 0 /\ tamanho = 0 /\ i = 0 /\ fill = Heap
  /\ documented = memory
  /\ spill = {}

-----------------------------------------------------------------------------
\* A buffer of n bytes with the heap behind it, filled with v.
Filled(v, n) == [k \in Offset |-> <<IF k < n THEN v ELSE Heap, k>>]

\* What a call that has returned 0 was.
Done == [escreve |-> "escrito", le |-> "lido"]

\* Mutant: the range may end one block behind the memory.
MutantFits(pos, n) == pos + ScopedBlocks(n) <= NumBlocks + 1

\* The test of final_pos.
Fits(pos, n) == pos + ScopedBlocks(n) <= NumBlocks

\* The offsets behind n bytes up to where their last block ends.
Rest(n) ==
  {k \in Offset : k >= n /\ \E b \in 0 .. NumBlocks :
                            k < b * BlockSize /\ b * BlockSize < n + BlockSize}

\* When a call of escreve has returned 0 the bytes from posicao on have become the
\* caller's, says the comment on it; those behind them in the block are in doubt.
\* Any other return, or a round of the loop, changes nothing that is documented.
Record ==
  IF op' = "escrito" THEN
    LET offset(a) == a - posicao' * BlockSize
    IN  /\ documented' = [a \in Address |->
             IF offset(a) \in 0 .. tamanho' - 1 THEN <<fill', offset(a)>> ELSE documented[a]]
        /\ spill' = {a \in Address :
             \/ offset(a) \in Rest(tamanho')
             \/ a \in spill /\ offset(a) \notin 0 .. tamanho' - 1}
  ELSE UNCHANGED <<documented, spill>>

\* A call with a buffer filled with v, up to the first round of its loop.  One of no
\* bytes returns 0 at once.
Enter(name, pos, n, v) ==
  /\ ~ Running
  /\ posicao' = pos /\ tamanho' = n /\ i' = 0 /\ fill' = v
  /\ buffer' = Filled(v, n)
  /\ \/ ~ Fits(pos, n) /\ op' = "erro"
     \/ Fits(pos, n) /\ ScopedBlocks(n) = 0 /\ op' = Done[name]
     \/ Fits(pos, n) /\ ScopedBlocks(n) > 0 /\ op' = name
  /\ Record
  /\ UNCHANGED memory

Escreve ==
  \E pos \in 0 .. NumBlocks, n \in 0 .. Size + MaxOver, v \in Fill :
    Enter("escreve", pos, n, v)

\* The buffer handed to le has nothing of the caller's in it.
Le ==
  \E pos \in 0 .. NumBlocks, n \in 0 .. Size + MaxOver : Enter("le", pos, n, Heap)

\* The i++ of the loop.
NextBlock ==
  /\ op' = IF i + 1 < ScopedBlocks(tamanho) THEN op ELSE Done[op]
  /\ i'  = IF i + 1 < ScopedBlocks(tamanho) THEN i + 1 ELSE 0
  /\ UNCHANGED call

\* The address of byte k of the buffer, for this call.
AddressOf(k) == posicao * BlockSize + k

\* The offsets that the memcpy of block i covers.
Copied == i * BlockSize .. (i + 1) * BlockSize - 1

\* One round of escreve's loop: block_size bytes, whatever is left of tamanho.
WriteBlock ==
  /\ op = "escreve"
  /\ memory' = [a \in Address |->
       IF a - AddressOf(0) \in Copied THEN buffer[a - AddressOf(0)] ELSE memory[a]]
  /\ NextBlock
  /\ Record
  /\ UNCHANGED buffer

\* Mutant: every block is copied to the start of the buffer.
MutantReadBlock ==
  /\ op = "le"
  /\ buffer' = [k \in Offset |->
       IF k < BlockSize THEN memory[AddressOf(i * BlockSize + k)] ELSE buffer[k]]
  /\ NextBlock
  /\ UNCHANGED <<memory, documented, spill>>

\* One round of le's loop: block_size bytes into the buffer.
ReadBlock ==
  /\ op = "le"
  /\ buffer' = [k \in Offset |-> IF k \in Copied THEN memory[AddressOf(k)] ELSE buffer[k]]
  /\ NextBlock
  /\ UNCHANGED <<memory, documented, spill>>

Next == Escreve \/ Le \/ WriteBlock \/ ReadBlock

Spec == Init /\ [][Next]_vars

-----------------------------------------------------------------------------
\* Between calls the memory is what the calls of escreve that returned 0 were asked to
\* make it: every byte of such a call at its place, however many blocks it took, and
\* no other byte but those behind its end in the last block.  A call that returned 1,
\* since its range does not fit, has changed nothing, not even in the blocks that
\* exist (main.cpp:208).
MemoryHoldsWrites ==
  ~ Running => \A a \in Address \ spill : memory[a] = documented[a]

\* When le has returned 0 the caller's bytes, and those up to the end of the last
\* block, are those of the memory from posicao on, and nothing behind was touched.
\* A call that has returned 1 leaves its whole buffer, and the heap behind it, as it
\* was handed in.
LeReturnsMemory ==
  /\ op = "lido" =>
       \A k \in Offset :
         buffer[k] = IF k < tamanho \/ k \in Rest(tamanho)
                     THEN memory[posicao * BlockSize + k] ELSE <<Heap, k>>
  /\ op = "erro" => buffer = Filled(fill, tamanho)

\* The offsets of the rounds that are over.
Moved ==
  0 .. (IF Running THEN i ELSE ScopedBlocks(tamanho)) * BlockSize - 1

\* The inductive invariant behind these: what the rounds that are over have moved is in
\* its place, in the memory or in the buffer, and all else is as it was before the call.
TransferInv ==
  /\ TypeOK
  /\ \A a \in Address :
       IF op = "escreve" /\ a - AddressOf(0) \in Moved
       THEN memory[a] = buffer[a - AddressOf(0)]
       ELSE a \notin spill => memory[a] = documented[a]
  /\ op \in {"escreve", "erro"} => buffer = Filled(fill, tamanho)
  /\ op \in {"le", "lido"} =>
       \A k \in Offset : buffer[k] = IF k \in Moved THEN memory[AddressOf(k)] ELSE <<Heap, k>>
  /\ op = "lido" => posicao + ScopedBlocks(tamanho) <= NumBlocks

\* What the comments on escreve and le say of tamanho (main.cpp:30-32, 44-45: the
\* number of bytes written, or read): no other byte of the memory or of the heap is
\* changed.
OnlyTamanhoBytes ==
  /\ ~ Running => memory = documented
  /\ op = "lido" => \A k \in Offset : k >= tamanho => buffer[k] = <<Heap, k>>

=============================================================================
