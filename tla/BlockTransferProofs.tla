------------------------- MODULE BlockTransferProofs -------------------------
(***************************************************************************)
(* Theorems about BlockTransfer, for every number and size of blocks and   *)
(* all positions and sizes that escreve and le are called with.            *)
(***************************************************************************)
EXTENDS BlockTransfer, TLAPS

(***************************************************************************)
(* Arithmetic of blocks                                                    *)
(***************************************************************************)

\* Blocks grow with their number.
LEMMA MulMono ==
  ASSUME NEW a \in Nat, NEW b \in Nat, NEW c \in Nat, a <= b
  PROVE  a * c <= b * c /\ a * c \in Nat
  OBVIOUS

\* One more block has BlockSize more bytes.
LEMMA MulSucc ==
  ASSUME NEW a \in Nat, NEW c \in Nat
  PROVE  (a + 1) * c = a * c + c
  OBVIOUS

\* The blocks that n bytes span have all n bytes, and less than one block more.
LEMMA ScopedBytes ==
  ASSUME NEW n \in Nat
  PROVE  /\ ScopedBlocks(n) \in Nat
         /\ n <= ScopedBlocks(n) * BlockSize
         /\ ScopedBlocks(n) * BlockSize <= n + BlockSize - 1
  BY ConfigAssumption DEF ScopedBlocks

\* What is constant is in its range.
LEMMA Sizes ==
  /\ BlockSize \in Nat \ {0} /\ NumBlocks \in Nat \ {0} /\ Size \in Nat /\ MaxOver \in Nat
  /\ Address = 0 .. Size - 1 /\ Offset = 0 .. Size + MaxOver + BlockSize - 1
  BY ConfigAssumption, TransferAssumption DEF Size, Address, Offset

\* The bytes of the current block are in the buffer, or in the block's worth of heap
\* behind it, and in the memory.
LEMMA CopiedInRange ==
  ASSUME TypeOK, Running, NEW k \in Copied
  PROVE  k \in Offset /\ AddressOf(k) \in Address
<1>1. /\ i \in Nat /\ posicao \in Nat /\ tamanho \in 0 .. Size + MaxOver
      /\ i + 1 <= ScopedBlocks(tamanho) /\ posicao + ScopedBlocks(tamanho) <= NumBlocks
      /\ ScopedBlocks(tamanho) \in Nat
  <2>1. i \in Nat /\ posicao \in Nat /\ tamanho \in 0 .. Size + MaxOver /\ tamanho \in Nat
    BY Sizes DEF TypeOK
  <2>2. i < ScopedBlocks(tamanho) /\ posicao + ScopedBlocks(tamanho) <= NumBlocks
    BY DEF TypeOK
  <2>3. ScopedBlocks(tamanho) \in Nat
    BY <2>1, ScopedBytes
  <2>4. QED
    BY <2>1, <2>2, <2>3
<1>2. k \in Nat /\ k < (i + 1) * BlockSize /\ (i + 1) * BlockSize \in Nat
  <2>1. i * BlockSize \in Nat /\ (i + 1) * BlockSize \in Nat
    BY <1>1, Sizes, MulMono
  <2>2. QED
    BY <1>1, <2>1, Sizes DEF Copied
<1>3. (i + 1) * BlockSize <= ScopedBlocks(tamanho) * BlockSize
      /\ ScopedBlocks(tamanho) * BlockSize \in Nat
  BY <1>1, Sizes, MulMono
<1>4. ScopedBlocks(tamanho) * BlockSize <= tamanho + BlockSize - 1
  BY <1>1, Sizes, ScopedBytes
<1>5. k \in Offset
  BY <1>1, <1>2, <1>3, <1>4, Sizes
<1>6. (posicao + ScopedBlocks(tamanho)) * BlockSize <= NumBlocks * BlockSize
  BY <1>1, Sizes, MulMono
<1>7. (posicao + ScopedBlocks(tamanho)) * BlockSize =
        posicao * BlockSize + ScopedBlocks(tamanho) * BlockSize
  BY <1>1, Sizes
<1>8. posicao * BlockSize \in Nat
  BY <1>1, Sizes, MulMono
<1>9. QED
  BY <1>2, <1>3, <1>5, <1>6, <1>7, <1>8, Sizes DEF AddressOf, Size

\* The offsets of whole blocks are those of the bytes asked for and the rest of the last
\* block: the rounding up of ScopedBlocks agrees with where blocks end.
LEMMA BlocksOfBytes ==
  ASSUME NEW n \in Nat, ScopedBlocks(n) <= NumBlocks, NEW k \in Offset
  PROVE  k < ScopedBlocks(n) * BlockSize <=> k < n \/ k \in Rest(n)
<1> DEFINE m == ScopedBlocks(n)
<1>1. /\ m \in Nat /\ k \in Nat /\ BlockSize \in Nat \ {0} /\ NumBlocks \in Nat
      /\ n <= m * BlockSize /\ m * BlockSize <= n + BlockSize - 1 /\ m * BlockSize \in Nat
  <2>1. m \in Nat /\ n <= m * BlockSize /\ m * BlockSize <= n + BlockSize - 1
    BY ScopedBytes
  <2>2. BlockSize \in Nat \ {0} /\ NumBlocks \in Nat /\ k \in Nat
    BY Sizes
  <2>3. QED
    BY <2>1, <2>2, MulMono
<1>2. m <= NumBlocks
  OBVIOUS
<1> HIDE DEF m
<1>3. ASSUME k < m * BlockSize, ~ (k < n) PROVE k \in Rest(n)
  <2>1. m \in 0 .. NumBlocks /\ k < m * BlockSize /\ m * BlockSize < n + BlockSize /\ k >= n
    BY <1>1, <1>2, <1>3
  <2>2. QED
    BY <2>1 DEF Rest
<1>4. ASSUME k \in Rest(n) PROVE k < m * BlockSize
  <2>1. PICK b \in 0 .. NumBlocks : k < b * BlockSize /\ b * BlockSize < n + BlockSize
    BY <1>4 DEF Rest
  <2>2. b \in Nat /\ b * BlockSize \in Nat /\ (m + 1) * BlockSize = m * BlockSize + BlockSize
    BY <1>1, MulMono, MulSucc
  <2>3. ASSUME m + 1 <= b PROVE FALSE
    <3>1. (m + 1) * BlockSize <= b * BlockSize
      BY <1>1, <2>2, <2>3, MulMono
    <3>2. QED
      BY <1>1, <2>1, <2>2, <3>1
  <2>4. b * BlockSize <= m * BlockSize
    BY <1>1, <2>2, <2>3, MulMono
  <2>5. QED
    BY <1>1, <2>1, <2>2, <2>4
<1>5. k < n => k < m * BlockSize
  BY <1>1, n \in Nat
<1>6. QED
  BY <1>3, <1>4, <1>5 DEF m

\* Where the block that a call starts at begins.
LEMMA FirstAddress ==
  ASSUME TypeOK
  PROVE  /\ posicao * BlockSize \in Nat /\ AddressOf(0) = posicao * BlockSize
         /\ \A k \in Nat : AddressOf(k) = AddressOf(0) + k
<1>1. posicao \in Nat /\ BlockSize \in Nat
  BY Sizes DEF TypeOK
<1>2. posicao * BlockSize \in Nat
  BY <1>1, MulMono
<1>3. QED
  BY <1>2 DEF AddressOf

(***************************************************************************)
(* The invariant                                                           *)
(***************************************************************************)

\* Where the loop is after a round.
LEMMA NextBlockType ==
  ASSUME TypeOK, Running, NextBlock
  PROVE  /\ op' \in {"idle", "escreve", "le", "escrito", "lido", "erro"}
         /\ i' \in 0 .. NumBlocks
         /\ Running' => op' = op /\ i' = i + 1 /\ i' < ScopedBlocks(tamanho)
         /\ ~ Running' => op' = Done[op] /\ i + 1 = ScopedBlocks(tamanho)
         /\ UNCHANGED call
<1>1. i \in Nat /\ posicao \in Nat /\ tamanho \in Nat /\ NumBlocks \in Nat
  BY Sizes DEF TypeOK
<1>2. i < ScopedBlocks(tamanho) /\ posicao + ScopedBlocks(tamanho) <= NumBlocks
  BY DEF TypeOK
<1>3. ScopedBlocks(tamanho) \in Nat
  BY <1>1, ScopedBytes
<1>4. op \in {"escreve", "le"} /\ Done[op] \in {"escrito", "lido"}
  BY DEF Running, Done
<1>5. UNCHANGED call
  BY DEF NextBlock
<1>6. CASE i + 1 < ScopedBlocks(tamanho)
  <2>1. op' = op /\ i' = i + 1
    BY <1>6 DEF NextBlock
  <2>2. QED
    BY <1>1, <1>2, <1>3, <1>4, <1>5, <1>6, <2>1 DEF Running
<1>7. CASE ~ (i + 1 < ScopedBlocks(tamanho))
  <2>1. op' = Done[op] /\ i' = 0
    BY <1>7 DEF NextBlock
  <2>2. i + 1 = ScopedBlocks(tamanho)
    BY <1>1, <1>2, <1>3, <1>7
  <2>3. ~ Running'
    BY <1>4, <2>1 DEF Running
  <2>4. QED
    BY <1>1, <1>4, <1>5, <2>1, <2>2, <2>3
<1>8. QED
  BY <1>6, <1>7

\* What is recorded at a return is within its types.
LEMMA RecordType ==
  ASSUME TypeOK, Record, NEW n \in 0 .. Size + MaxOver, tamanho' = n,
         fill' \in Fill \cup {Heap}
  PROVE  documented' \in [Address -> Byte] /\ spill' \subseteq Address
<1>1. documented \in [Address -> Byte] /\ spill \subseteq Address
  BY DEF TypeOK
<1>2. CASE op' = "escrito"
  <2>1. \A k \in 0 .. n - 1 : k \in Offset
    <3>1. Size \in Nat /\ MaxOver \in Nat /\ BlockSize \in Nat \ {0} /\ n \in Nat
      BY Sizes
    <3>2. n - 1 <= Size + MaxOver + BlockSize - 1
      BY <3>1
    <3>3. QED
      BY <3>1, <3>2, Sizes
  <2>2. \A k \in 0 .. tamanho' - 1 : <<fill', k>> \in Byte
    BY <2>1 DEF Byte
  <2>3. QED
    BY <1>1, <1>2, <2>2 DEF Record
<1>3. CASE op' # "escrito"
  BY <1>1, <1>3 DEF Record
<1>4. QED
  BY <1>2, <1>3

\* A round of escreve's loop.
LEMMA WriteStep ==
  ASSUME TransferInv, WriteBlock
  PROVE  TransferInv'
<1>1. /\ TypeOK /\ Running /\ NextBlock /\ op = "escreve" /\ UNCHANGED buffer /\ Record
      /\ buffer = Filled(fill, tamanho)
  BY DEF TransferInv, WriteBlock, Running
<1>2. /\ memory \in [Address -> Byte] /\ buffer \in [Offset -> Byte]
      /\ i \in Nat /\ posicao \in Nat /\ tamanho \in 0 .. Size + MaxOver /\ tamanho \in Nat
      /\ fill \in Fill \cup {Heap}
  BY <1>1, Sizes DEF TypeOK
<1>3. /\ UNCHANGED <<posicao, tamanho, fill>> /\ op' \in {"escreve", "escrito"}
      /\ op' = "escreve" => Running' /\ i' = i + 1
      /\ op' = "escrito" => ~ Running' /\ i + 1 = ScopedBlocks(tamanho)
  BY <1>1, NextBlockType DEF Running, Done, call
<1>4. memory' \in [Address -> Byte]
  <2>1. \A k \in Copied : k \in Offset /\ buffer[k] \in Byte
    BY <1>1, <1>2, CopiedInRange
  <2>2. QED
    BY <1>2, <2>1 DEF WriteBlock
<1>5. TypeOK'
  <2>1. documented' \in [Address -> Byte] /\ spill' \subseteq Address
    BY <1>1, <1>2, <1>3, RecordType
  <2>2. QED
    BY <1>1, <1>2, <1>3, <1>4, <2>1, NextBlockType DEF TypeOK, Running
<1>6. /\ AddressOf(0) \in Nat /\ AddressOf(0) = posicao * BlockSize
      /\ AddressOf(0)' = AddressOf(0)
  BY <1>1, <1>3, FirstAddress DEF AddressOf
<1>7. i * BlockSize \in Nat /\ (i + 1) * BlockSize = i * BlockSize + BlockSize
      /\ BlockSize \in Nat \ {0}
  BY <1>2, Sizes, MulMono, MulSucc
<1> DEFINE offset(a) == a - AddressOf(0)
           Sofar == 0 .. (i + 1) * BlockSize - 1
<1>8. ASSUME NEW a \in Address
      PROVE  /\ offset(a) \in Sofar => memory'[a] = buffer[offset(a)]
             /\ offset(a) \notin Sofar =>
                  memory'[a] = memory[a] /\ (a \notin spill => memory[a] = documented[a])
  <2>1. offset(a) \in Int /\ Copied = i * BlockSize .. (i + 1) * BlockSize - 1
    BY <1>6, Sizes DEF Copied
  <2>2. offset(a) \in Sofar <=> offset(a) \in Copied \/ offset(a) \in 0 .. i * BlockSize - 1
    BY <1>7, <2>1
  <2>3. memory'[a] = IF offset(a) \in Copied THEN buffer[offset(a)] ELSE memory[a]
    BY DEF WriteBlock
  <2>4. IF offset(a) \in 0 .. i * BlockSize - 1
        THEN memory[a] = buffer[offset(a)]
        ELSE a \notin spill => memory[a] = documented[a]
    BY <1>1 DEF TransferInv, Moved
  <2>5. QED
    BY <2>2, <2>3, <2>4
<1>9. CASE op' = "escreve"
  <2>1. UNCHANGED <<documented, spill>> /\ Moved' = Sofar
    BY <1>1, <1>3, <1>9 DEF Record, Moved
  <2>2. QED
    BY <1>1, <1>3, <1>5, <1>6, <1>8, <1>9, <2>1 DEF TransferInv
<1>10. CASE op' = "escrito"
  <2>1. /\ documented' = [a \in Address |->
              IF offset(a) \in 0 .. tamanho - 1 THEN <<fill, offset(a)>> ELSE documented[a]]
        /\ spill' = {a \in Address :
              \/ offset(a) \in Rest(tamanho)
              \/ a \in spill /\ offset(a) \notin 0 .. tamanho - 1}
    BY <1>1, <1>3, <1>6, <1>10 DEF Record
  <2>2. Sofar = 0 .. ScopedBlocks(tamanho) * BlockSize - 1
        /\ tamanho <= ScopedBlocks(tamanho) * BlockSize
    BY <1>2, <1>3, <1>10, ScopedBytes
  <2>3. ScopedBlocks(tamanho) * BlockSize <= tamanho + BlockSize - 1
    BY <1>2, ScopedBytes
  <2>4. ScopedBlocks(tamanho) <= NumBlocks /\ ScopedBlocks(tamanho) \in Nat
        /\ ScopedBlocks(tamanho) * BlockSize \in Nat
    <3>1. ScopedBlocks(tamanho) \in Nat /\ posicao + ScopedBlocks(tamanho) <= NumBlocks
      BY <1>1, <1>2, ScopedBytes DEF TypeOK
    <3>2. QED
      BY <1>2, <3>1, Sizes, MulMono
  <2>5. ASSUME NEW a \in Address, a \notin spill' PROVE memory'[a] = documented'[a]
    <3>1. offset(a) \in Int
      BY <1>6, Sizes
    <3>2. CASE offset(a) \in Sofar
      <4>1. offset(a) \in Offset /\ offset(a) < ScopedBlocks(tamanho) * BlockSize
        BY <1>2, <2>2, <2>3, <2>4, <3>1, <3>2, Sizes
      <4>2. offset(a) < tamanho
        BY <1>2, <2>1, <2>4, <2>5, <4>1, BlocksOfBytes
      <4>3. offset(a) \in 0 .. tamanho - 1
        BY <1>2, <3>1, <3>2, <4>2
      <4>4. documented'[a] = <<fill, offset(a)>>
        BY <2>1, <4>3
      <4>5. buffer[offset(a)] = <<fill, offset(a)>>
        BY <1>1, <4>1, <4>2 DEF Filled
      <4>6. QED
        BY <1>8, <3>2, <4>4, <4>5
    <3>3. CASE offset(a) \notin Sofar
      <4>1. offset(a) \notin 0 .. tamanho - 1
        <5> DEFINE d == offset(a)
                   e == ScopedBlocks(tamanho) * BlockSize
        <5>1. d \in Int /\ e \in Nat /\ tamanho \in Nat /\ tamanho <= e /\ d \notin 0 .. e - 1
          BY <1>2, <2>2, <2>4, <3>1, <3>3
        <5> HIDE DEF d, e
        <5>2. d \notin 0 .. tamanho - 1
          BY <5>1
        <5>3. QED
          BY <5>2 DEF d
      <4>2. a \notin spill /\ documented'[a] = documented[a]
        BY <2>1, <2>5, <4>1
      <4>3. QED
        BY <1>8, <3>3, <4>2
    <3>4. QED
      BY <3>2, <3>3
  <2>6. QED
    BY <1>5, <1>10, <2>5 DEF TransferInv
<1>11. QED
  BY <1>3, <1>9, <1>10

\* A round of le's loop.
LEMMA ReadStep ==
  ASSUME TransferInv, ReadBlock
  PROVE  TransferInv'
<1>1. TypeOK /\ Running /\ NextBlock /\ op = "le" /\ UNCHANGED <<memory, documented, spill>>
  BY DEF TransferInv, ReadBlock, Running
<1>2. memory \in [Address -> Byte] /\ buffer \in [Offset -> Byte] /\ fill \in Fill \cup {Heap}
  BY <1>1 DEF TypeOK
<1>3. buffer' \in [Offset -> Byte]
  <2>1. \A k \in Copied : memory[AddressOf(k)] \in Byte
    BY <1>1, <1>2, CopiedInRange
  <2>2. QED
    BY <1>2, <2>1 DEF ReadBlock
<1>4. /\ UNCHANGED <<posicao, tamanho, fill>> /\ op' \in {"le", "lido"}
      /\ op' = "le" => Running' /\ i' = i + 1
      /\ op' = "lido" => ~ Running' /\ i + 1 = ScopedBlocks(tamanho)
  BY <1>1, NextBlockType DEF Running, Done, call
<1>5. TypeOK'
  BY <1>1, <1>2, <1>3, <1>4, NextBlockType DEF TypeOK, Running
<1>6. ASSUME NEW k \in Offset
      PROVE  buffer'[k] = IF k \in 0 .. (i + 1) * BlockSize - 1
                          THEN memory[AddressOf(k)] ELSE <<Heap, k>>
  <2>1. i \in Nat /\ i * BlockSize \in Nat /\ k \in Nat
    BY <1>1, Sizes, MulMono DEF TypeOK
  <2>2. (i + 1) * BlockSize = i * BlockSize + BlockSize
    BY <2>1, Sizes, MulSucc
  <2>3. buffer[k] = IF k \in 0 .. i * BlockSize - 1 THEN memory[AddressOf(k)] ELSE <<Heap, k>>
    BY <1>1 DEF TransferInv, Moved
  <2>4. Copied = i * BlockSize .. (i + 1) * BlockSize - 1
    BY DEF Copied
  <2>5. buffer'[k] = IF k \in Copied THEN memory[AddressOf(k)] ELSE buffer[k]
    BY DEF ReadBlock
  <2>6. k \in 0 .. (i + 1) * BlockSize - 1 <=> k \in Copied \/ k \in 0 .. i * BlockSize - 1
    BY <2>1, <2>2, <2>4, Sizes
  <2>7. QED
    BY <2>3, <2>5, <2>6
<1>7. Moved' = 0 .. (i + 1) * BlockSize - 1
  BY <1>4 DEF Moved
<1>8. \A k \in Offset :
        buffer'[k] = IF k \in Moved' THEN memory'[AddressOf(k)'] ELSE <<Heap, k>>
  BY <1>1, <1>4, <1>6, <1>7 DEF AddressOf
<1>9. posicao + ScopedBlocks(tamanho) <= NumBlocks
  BY <1>1 DEF TypeOK
<1>10. \A a \in Address : a \notin spill' => memory'[a] = documented'[a]
  BY <1>1 DEF TransferInv
<1>11. QED
  BY <1>4, <1>5, <1>8, <1>9, <1>10 DEF TransferInv

\* A call of escreve or le, up to its loop.
LEMMA EnterStep ==
  ASSUME TransferInv, Escreve \/ Le
  PROVE  TransferInv'
<1>1. PICK name \in {"escreve", "le"}, pos \in 0 .. NumBlocks, n \in 0 .. Size + MaxOver,
           v \in Fill \cup {Heap} :
        Enter(name, pos, n, v) /\ (name = "le" => v = Heap)
  BY DEF Escreve, Le
<1>2. /\ UNCHANGED memory /\ posicao' = pos /\ tamanho' = n /\ i' = 0 /\ fill' = v /\ Record
      /\ buffer' = Filled(v, n) /\ ~ Running
      /\ \/ op' = "erro"
         \/ Fits(pos, n) /\ ScopedBlocks(n) = 0 /\ op' = Done[name]
         \/ Fits(pos, n) /\ ScopedBlocks(n) > 0 /\ op' = name
  BY <1>1 DEF Enter
<1>3. /\ n \in Nat /\ pos \in Nat /\ ScopedBlocks(n) \in Nat /\ NumBlocks \in Nat
      /\ n <= ScopedBlocks(n) * BlockSize
  <2>1. n \in Nat /\ pos \in Nat /\ NumBlocks \in Nat
    BY Sizes
  <2>2. QED
    BY <2>1, ScopedBytes
<1>4. Done[name] = IF name = "le" THEN "lido" ELSE "escrito"
  BY DEF Done
<1>5. TypeOK'
  <2>1. buffer' \in [Offset -> Byte]
    BY <1>2 DEF Filled, Byte
  <2>2. documented' \in [Address -> Byte] /\ spill' \subseteq Address
    BY <1>2, <1>3, RecordType DEF TransferInv
  <2>3. memory' \in [Address -> Byte]
    BY <1>2 DEF TransferInv, TypeOK
  <2>4. QED
    BY <1>2, <1>3, <1>4, <2>1, <2>2, <2>3 DEF TypeOK, Running, Fits
<1>6. 0 * BlockSize = 0 /\ 0 .. 0 - 1 = {}
  BY Sizes
<1>7. op' # "erro" => Moved' = {}
  <2>1. op' # "erro" => (IF Running' THEN i' ELSE ScopedBlocks(tamanho')) = 0
    BY <1>2, <1>3, <1>4 DEF Running
  <2>2. QED
    BY <1>6, <2>1 DEF Moved
<1>8. \A a \in Address : a \notin spill' => memory'[a] = documented'[a]
  <2>1. \A a \in Address : a \notin spill => memory[a] = documented[a]
    BY <1>2 DEF TransferInv, Running
  <2>2. CASE op' = "escrito"
    <3>1. n = 0
      BY <1>2, <1>3, <1>4, <1>6, <2>2
    <3>2. 0 .. n - 1 = {}
      BY <3>1
    <3>3. /\ \A a \in Address : documented'[a] = documented[a]
          /\ \A a \in Address : a \in spill => a \in spill'
      BY <1>2, <2>2, <3>2 DEF Record
    <3>4. QED
      BY <1>2, <2>1, <3>3
  <2>3. CASE op' # "escrito"
    BY <1>2, <2>1, <2>3 DEF Record
  <2>4. QED
    BY <2>2, <2>3
<1>9. op' \in {"le", "lido"} => name = "le" /\ v = Heap /\ Fits(pos, n)
  BY <1>1, <1>2, <1>4
<1>10. op' \in {"le", "lido"} => \A k \in Offset : buffer'[k] = <<Heap, k>>
  BY <1>2, <1>9 DEF Filled
<1>11. op' = "lido" => posicao' + ScopedBlocks(tamanho') <= NumBlocks
  BY <1>2, <1>9 DEF Fits
<1>12. buffer' = Filled(fill', tamanho')
  BY <1>2
<1>13. \A a \in Address :
         IF op' = "escreve" /\ a - AddressOf(0)' \in Moved'
         THEN memory'[a] = buffer'[a - AddressOf(0)']
         ELSE a \notin spill' => memory'[a] = documented'[a]
  BY <1>7, <1>8
<1>14. op' \in {"le", "lido"} =>
         \A k \in Offset : buffer'[k] = IF k \in Moved' THEN memory'[AddressOf(k)'] ELSE <<Heap, k>>
  BY <1>7, <1>10
<1>15. (Filled(fill, tamanho))' = Filled(fill', tamanho')
  BY DEF Filled
<1>16. QED
  BY <1>5, <1>11, <1>12, <1>13, <1>14, <1>15 DEF TransferInv

\* Block by block, the memcpys of escreve and le move what they have to.
THEOREM TransferInvariant == Spec => []TransferInv
<1>1. Init => TransferInv
  <2>1. SUFFICES ASSUME Init PROVE TransferInv
    OBVIOUS
  <2>2. TypeOK
    BY <2>1, Sizes DEF Init, TypeOK, Byte, Running
  <2>3. QED
    BY <2>1, <2>2 DEF Init, TransferInv
<1>2. TransferInv /\ UNCHANGED vars => TransferInv'
  BY DEF TransferInv, TypeOK, Running, AddressOf, Moved, Filled, vars, call
<1>3. TransferInv /\ [Next]_vars => TransferInv'
  BY <1>2, WriteStep, ReadStep, EnterStep DEF Next
<1>4. QED
  BY <1>1, <1>3, PTL DEF Spec

\* Every byte that is copied is inside the memory, and inside the buffer or the one
\* block of heap behind it.
THEOREM TypeCorrect == Spec => []TypeOK
  BY TransferInvariant, PTL DEF TransferInv

\* Between calls the memory holds what the calls of escreve that succeeded asked for, every
\* byte at its place, and is otherwise as it was, but for the rest of last blocks.
THEOREM WritesAreKept == Spec => []MemoryHoldsWrites
<1>1. TransferInv => MemoryHoldsWrites
  BY DEF TransferInv, MemoryHoldsWrites, Running
<1>2. QED
  BY <1>1, TransferInvariant, PTL

\* le returns what the memory holds at the position asked for, and a call that fails
\* leaves the buffer as it was.
THEOREM ReadsAreRight == Spec => []LeReturnsMemory
<1>1. ASSUME TransferInv, op = "lido", NEW k \in Offset
      PROVE  buffer[k] = IF k < tamanho \/ k \in Rest(tamanho)
                         THEN memory[posicao * BlockSize + k] ELSE <<Heap, k>>
  <2>1. /\ tamanho \in Nat /\ posicao \in Nat /\ k \in Nat /\ ScopedBlocks(tamanho) \in Nat
        /\ posicao + ScopedBlocks(tamanho) <= NumBlocks /\ NumBlocks \in Nat
    <3>1. tamanho \in Nat /\ posicao \in Nat /\ k \in Nat /\ NumBlocks \in Nat
      BY <1>1, Sizes DEF TransferInv, TypeOK
    <3>2. QED
      BY <1>1, <3>1, ScopedBytes DEF TransferInv
  <2>2. k < ScopedBlocks(tamanho) * BlockSize <=> k < tamanho \/ k \in Rest(tamanho)
    BY <2>1, BlocksOfBytes
  <2>3. k \in Moved <=> k < ScopedBlocks(tamanho) * BlockSize
    <3>1. Moved = 0 .. ScopedBlocks(tamanho) * BlockSize - 1
      BY <1>1 DEF Moved, Running
    <3>2. ScopedBlocks(tamanho) * BlockSize \in Nat
      BY <2>1, Sizes, MulMono
    <3>3. QED
      BY <2>1, <3>1, <3>2
  <2>4. buffer[k] = IF k \in Moved THEN memory[AddressOf(k)] ELSE <<Heap, k>>
    BY <1>1 DEF TransferInv
  <2>5. QED
    BY <2>2, <2>3, <2>4 DEF AddressOf
<1>2. TransferInv => LeReturnsMemory
  BY <1>1 DEF TransferInv, LeReturnsMemory
<1>3. QED
  BY <1>2, TransferInvariant, PTL

=============================================================================
