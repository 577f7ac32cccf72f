------------------------- MODULE SharedMemoryProofs -------------------------
(***************************************************************************)
(* Theorems about SharedMemory, for every number of workers and blocks,    *)
(* every bound on the writes and both behaviours of MPI_Send.              *)
(***************************************************************************)
EXTENDS SharedMemory, TLAPS

(***************************************************************************)
(* The memory map                                                          *)
(***************************************************************************)

\* resolve_maintainer returns the rank of a worker.
LEMMA MaintainerIsWorker == \A b \in Block : ResolveMaintainer(b) \in Worker
  BY ConfigAssumption DEF Block, Worker, ResolveMaintainer

\* The two computations of a block's maintainer agree: exactly the worker that
\* resolve_maintainer names holds the block in the memory_map, and it is the
\* target of remote reads (resolve_maintainers, RemoteRepository's constructor).
THEOREM MaintainersAgree ==
  \A b \in Block :
    /\ \A w \in Worker : IsLocal(w, b) <=> w = ResolveMaintainer(b)
    /\ RemoteTarget(b) = ResolveMaintainer(b)
<1>1. \A b \in Block, w \in Worker : IsLocal(w, b) <=> w = ResolveMaintainer(b)
  BY DEF IsLocal, MemMap, ResolveMaintainer
<1>2. \A b \in Block : RemoteTarget(b) = ResolveMaintainer(b)
  BY <1>1, MaintainerIsWorker DEF RemoteTarget, IsLocal
<1>3. QED
  BY <1>1, <1>2

\* Read and write requests for a block go to a worker that exists.
LEMMA TargetIsWorker == \A b \in Block : RemoteTarget(b) \in Worker
  BY MaintainersAgree, MaintainerIsWorker

(***************************************************************************)
(* Sequences                                                               *)
(***************************************************************************)

\* What a receive takes from a channel, and what it leaves.
LEMMA Received ==
  ASSUME NEW S, NEW s \in Seq(S), s # <<>>
  PROVE  /\ Head(s) \in S
         /\ Head(s) = s[1]
         /\ Tail(s) \in Seq(S)
         /\ Len(s) \in Nat \ {0}
         /\ Len(Tail(s)) = Len(s) - 1
         /\ DOMAIN Tail(s) = 1 .. Len(s) - 1
         /\ \A i \in DOMAIN Tail(s) : Tail(s)[i] = s[i + 1]
  OBVIOUS

\* A message behind the first one moves up by one place.
LEMMA MovesUp ==
  ASSUME NEW S, NEW s \in Seq(S), NEW i \in DOMAIN s, i # 1
  PROVE  i - 1 \in DOMAIN Tail(s) /\ Tail(s)[i - 1] = s[i]
<1>1. s # <<>> /\ i \in 2 .. Len(s)
  OBVIOUS
<1>2. QED
  BY <1>1

\* What a send does to a channel.
LEMMA Sent ==
  ASSUME NEW S, NEW s \in Seq(S), NEW e \in S
  PROVE  /\ Append(s, e) \in Seq(S)
         /\ Len(s) \in Nat
         /\ Len(Append(s, e)) = Len(s) + 1
         /\ DOMAIN Append(s, e) = 1 .. Len(s) + 1
         /\ Append(s, e)[Len(s) + 1] = e
         /\ \A i \in DOMAIN s : Append(s, e)[i] = s[i]
  OBVIOUS

(***************************************************************************)
(* Functions                                                               *)
(***************************************************************************)

\* An assignment of the right type keeps the type of a per-worker variable ...
LEMMA Assigned ==
  ASSUME NEW S, NEW T, NEW f \in [S -> T], NEW x \in S, NEW e \in T
  PROVE  [f EXCEPT ![x] = e] \in [S -> T]
  OBVIOUS

\* ... and of a variable with an entry per pair.
LEMMA AssignedPair ==
  ASSUME NEW R, NEW S, NEW T, NEW f \in [R -> [S -> T]],
         NEW x \in R, NEW y \in S, NEW e \in T
  PROVE  [f EXCEPT ![x][y] = e] \in [R -> [S -> T]]
  OBVIOUS

\* A send or a receive keeps the type of the channels of one sender ...
LEMMA ChannelStep ==
  ASSUME NEW R, NEW T, NEW f \in [R -> Seq(T)], NEW x \in R
  PROVE  /\ \A e \in T : [f EXCEPT ![x] = Append(@, e)] \in [R -> Seq(T)]
         /\ f[x] # <<>> => /\ Head(f[x]) \in T
                           /\ [f EXCEPT ![x] = Tail(@)] \in [R -> Seq(T)]
<1>1. ASSUME NEW e \in T PROVE [f EXCEPT ![x] = Append(@, e)] \in [R -> Seq(T)]
  <2>1. Append(f[x], e) \in Seq(T)
    OBVIOUS
  <2>2. QED
    BY <2>1, Assigned
<1>2. ASSUME f[x] # <<>>
      PROVE  Head(f[x]) \in T /\ [f EXCEPT ![x] = Tail(@)] \in [R -> Seq(T)]
  <2>1. Head(f[x]) \in T /\ Tail(f[x]) \in Seq(T)
    BY <1>2
  <2>2. QED
    BY <2>1, Assigned
<1>3. QED
  BY <1>1, <1>2

\* ... and of the channels between pairs of processes.
LEMMA PairChannelStep ==
  ASSUME NEW R, NEW T, NEW f \in [R -> [R -> Seq(T)]], NEW x \in R, NEW y \in R
  PROVE  /\ \A e \in T : [f EXCEPT ![x][y] = Append(@, e)] \in [R -> [R -> Seq(T)]]
         /\ f[x][y] # <<>> =>
              /\ Head(f[x][y]) \in T
              /\ [f EXCEPT ![x][y] = Tail(@)] \in [R -> [R -> Seq(T)]]
<1>1. ASSUME NEW e \in T
      PROVE  [f EXCEPT ![x][y] = Append(@, e)] \in [R -> [R -> Seq(T)]]
  <2>1. Append(f[x][y], e) \in Seq(T)
    OBVIOUS
  <2>2. QED
    BY <2>1, AssignedPair
<1>2. ASSUME f[x][y] # <<>>
      PROVE  /\ Head(f[x][y]) \in T
             /\ [f EXCEPT ![x][y] = Tail(@)] \in [R -> [R -> Seq(T)]]
  <2>1. Head(f[x][y]) \in T /\ Tail(f[x][y]) \in Seq(T)
    BY <1>2
  <2>2. QED
    BY <2>1, AssignedPair
<1>3. QED
  BY <1>1, <1>2

(***************************************************************************)
(* Type correctness                                                        *)
(***************************************************************************)

\* A main thread that is inside escreve or le has come to a block that exists.
LEMMA NextIsBlock ==
  ASSUME TypeOK, NEW w \in Worker, pc[w] # "idle"
  PROVE  next[w] \in Block
  BY ConfigAssumption DEF TypeOK, MainTypeOK, Block

\* The loop increment of escreve and le keeps the locals in their ranges.
LEMMA AdvanceType ==
  ASSUME TypeOK, NEW w \in Worker, NEW phase \in {"reading", "writing"},
         pc[w] # "idle", Advance(w, phase), written' \in [Worker -> Nat]
  PROVE  MainTypeOK'
<1>1. CASE next[w] + 1 < final[w]
  <2>1. pc' \in [Worker -> {"idle"} \cup Phase]
    BY <1>1, Assigned DEF TypeOK, MainTypeOK, Phase, Advance
  <2>2. next' \in [Worker -> Nat] /\ final' = final
    BY <1>1, Assigned DEF TypeOK, MainTypeOK, Advance
  <2>3. next' = [next EXCEPT ![w] = @ + 1] /\ pc' = [pc EXCEPT ![w] = phase]
    BY <1>1 DEF Advance
  <2>4. \A v \in Worker : pc'[v] # "idle" => next'[v] < final'[v] /\ final'[v] <= NumBlocks
    BY <1>1, <2>2, <2>3 DEF TypeOK, MainTypeOK
  <2>5. QED
    BY <2>1, <2>2, <2>4 DEF TypeOK, MainTypeOK
<1>2. CASE ~ (next[w] + 1 < final[w])
  <2>1. pc' \in [Worker -> {"idle"} \cup Phase]
    BY <1>2, Assigned DEF TypeOK, MainTypeOK, Advance
  <2>2. next' \in [Worker -> Nat] /\ final' \in [Worker -> Nat]
    BY <1>2, Assigned DEF TypeOK, MainTypeOK, Advance
  <2>3. /\ pc'    = [pc    EXCEPT ![w] = "idle"]
        /\ next'  = [next  EXCEPT ![w] = 0]
        /\ final' = [final EXCEPT ![w] = 0]
    BY <1>2 DEF Advance
  <2>4. \A v \in Worker : pc'[v] # "idle" => next'[v] < final'[v] /\ final'[v] <= NumBlocks
    BY <2>3 DEF TypeOK, MainTypeOK
  <2>5. QED
    BY <2>1, <2>2, <2>4 DEF MainTypeOK
<1>3. QED
  BY <1>1, <1>2

\* The repositories, channels and threads start out within their types.
LEMMA InitType == Init => TypeOK
  BY ConfigAssumption
     DEF Init, TypeOK, MemoryTypeOK, MainTypeOK, ListenerTypeOK, ChannelTypeOK,
         Zero, Data, Worker, Block

\* Every step of every thread keeps the types.
LEMMA NextType == TypeOK /\ [Next]_vars => TypeOK'
<1> SUFFICES ASSUME TypeOK, [Next]_vars PROVE TypeOK'
  OBVIOUS
<1>1. ASSUME NEW w \in Worker, NEW phase \in {"reading", "writing"}, Call(w, phase) PROVE TypeOK'
  <2>2. MemoryTypeOK'
    BY <1>1
       DEF Call, MemoryTypeOK, TypeOK, mainVars, writerVars, channelVars
  <2>3. MainTypeOK'
    BY <1>1, ConfigAssumption
       DEF Call, DrawnSizes, ScopedBlocks, Block, Phase, MainTypeOK, TypeOK, mainVars, writerVars, channelVars
  <2>4. ListenerTypeOK'
    BY <1>1
       DEF Call, ListenerTypeOK, TypeOK, mainVars, writerVars, channelVars
  <2>5. ChannelTypeOK'
    BY <1>1
       DEF Call, ChannelTypeOK, TypeOK, mainVars, writerVars, channelVars
  <2>6. QED
    BY <2>2, <2>3, <2>4, <2>5 DEF TypeOK
<1>2. ASSUME NEW w \in Worker, LocalRead(w) PROVE TypeOK'
  <2>2. MemoryTypeOK'
    BY <1>2
       DEF LocalRead, MemoryTypeOK, TypeOK, mainVars, writerVars, channelVars
  <2>3. MainTypeOK'
    BY <1>2, AdvanceType
       DEF LocalRead, MainTypeOK, TypeOK, mainVars, writerVars, channelVars
  <2>4. ListenerTypeOK'
    BY <1>2
       DEF LocalRead, ListenerTypeOK, TypeOK, mainVars, writerVars, channelVars
  <2>5. ChannelTypeOK'
    BY <1>2
       DEF LocalRead, ChannelTypeOK, TypeOK, mainVars, writerVars, channelVars
  <2>6. QED
    BY <2>2, <2>3, <2>4, <2>5 DEF TypeOK
<1>3. ASSUME NEW w \in Worker, RemoteReadHit(w) PROVE TypeOK'
  <2>2. MemoryTypeOK'
    BY <1>3
       DEF RemoteReadHit, MemoryTypeOK, TypeOK, mainVars, writerVars, channelVars
  <2>3. MainTypeOK'
    BY <1>3, AdvanceType
       DEF RemoteReadHit, MainTypeOK, TypeOK, mainVars, writerVars, channelVars
  <2>4. ListenerTypeOK'
    BY <1>3
       DEF RemoteReadHit, ListenerTypeOK, TypeOK, mainVars, writerVars, channelVars
  <2>5. ChannelTypeOK'
    BY <1>3
       DEF RemoteReadHit, ChannelTypeOK, TypeOK, mainVars, writerVars, channelVars
  <2>6. QED
    BY <2>2, <2>3, <2>4, <2>5 DEF TypeOK
<1>4. ASSUME NEW w \in Worker, RemoteReadMiss(w) PROVE TypeOK'
  <2>1. next[w] \in Block
    BY <1>4, NextIsBlock DEF RemoteReadMiss
  <2>2. MemoryTypeOK'
    BY <1>4, <2>1
       DEF RemoteReadMiss, MemoryTypeOK, TypeOK, mainVars, writerVars, channelVars
  <2>3. MainTypeOK'
    BY <1>4, <2>1
       DEF RemoteReadMiss, Phase, MainTypeOK, TypeOK, mainVars, writerVars, channelVars
  <2>4. ListenerTypeOK'
    BY <1>4, <2>1
       DEF RemoteReadMiss, ListenerTypeOK, TypeOK, mainVars, writerVars, channelVars
  <2>5. ChannelTypeOK'
    <3> DEFINE o == RemoteTarget(next[w])
    <3>1. [readReq EXCEPT ![o][w] = Append(@, next[w])]
            \in [Worker -> [Worker -> Seq(Block)]]
      BY <2>1, TargetIsWorker, PairChannelStep DEF ChannelTypeOK, TypeOK
    <3>2. QED
      BY <1>4, <3>1
         DEF RemoteReadMiss, ChannelTypeOK, TypeOK, mainVars, writerVars, channelVars
  <2>6. QED
    BY <2>2, <2>3, <2>4, <2>5 DEF TypeOK
<1>5. ASSUME NEW w \in Worker, RemoteReadFill(w) PROVE TypeOK'
  <2>1. next[w] \in Block
    BY <1>5, NextIsBlock DEF RemoteReadFill
  <2>2. MemoryTypeOK'
    <3> DEFINE o == RemoteTarget(next[w])
    <3>1. Head(readResp[w][o]) \in Data
      BY <1>5, <2>1, TargetIsWorker, PairChannelStep
         DEF RemoteReadFill, ChannelTypeOK, TypeOK
    <3>2. cache' \in [Worker -> [Block -> Data \cup {Null}]]
      BY <1>5, <2>1, <3>1, AssignedPair DEF RemoteReadFill, MemoryTypeOK, TypeOK
    <3>3. QED
      BY <1>5, <3>2, Assigned
         DEF RemoteReadFill, MemoryTypeOK, TypeOK, mainVars, writerVars, channelVars
  <2>3. MainTypeOK'
    BY <1>5, <2>1, AdvanceType
       DEF RemoteReadFill, MainTypeOK, TypeOK, mainVars, writerVars, channelVars
  <2>4. ListenerTypeOK'
    BY <1>5, <2>1
       DEF RemoteReadFill, ListenerTypeOK, TypeOK, mainVars, writerVars, channelVars
  <2>5. ChannelTypeOK'
    BY <1>5, <2>1, TargetIsWorker, PairChannelStep
       DEF RemoteReadFill, ChannelTypeOK, TypeOK, mainVars, writerVars, channelVars
  <2>6. QED
    BY <2>2, <2>3, <2>4, <2>5 DEF TypeOK
<1>6. ASSUME NEW w \in Worker, LocalWrite(w) PROVE TypeOK'
  <2>1. next[w] \in Block
    BY <1>6, NextIsBlock DEF LocalWrite
  <2>2. MemoryTypeOK'
    BY <1>6, <2>1
       DEF LocalWrite, MainTypeOK, Data, MemoryTypeOK, TypeOK, mainVars, writerVars, channelVars
  <2>3. MainTypeOK'
    BY <1>6, <2>1
       DEF LocalWrite, Phase, MainTypeOK, TypeOK, mainVars, writerVars, channelVars
  <2>4. ListenerTypeOK'
    BY <1>6, <2>1
       DEF LocalWrite, ListenerTypeOK, TypeOK, mainVars, writerVars, channelVars
  <2>5. ChannelTypeOK'
    BY <1>6, <2>1
       DEF LocalWrite, ChannelTypeOK, TypeOK, mainVars, writerVars, channelVars
  <2>6. QED
    BY <2>2, <2>3, <2>4, <2>5 DEF TypeOK
<1>7. ASSUME NEW w \in Worker, NotifyBroadcaster(w) PROVE TypeOK'
  <2>1. next[w] \in Block
    BY <1>7, NextIsBlock DEF NotifyBroadcaster
  <2>2. MemoryTypeOK'
    BY <1>7, <2>1
       DEF NotifyBroadcaster, MemoryTypeOK, TypeOK, mainVars, writerVars, channelVars
  <2>3. MainTypeOK'
    BY <1>7, <2>1, AdvanceType
       DEF NotifyBroadcaster, Phase, MainTypeOK, TypeOK, mainVars, writerVars, channelVars
  <2>4. ListenerTypeOK'
    BY <1>7, <2>1
       DEF NotifyBroadcaster, ListenerTypeOK, TypeOK, mainVars, writerVars, channelVars
  <2>5. ChannelTypeOK'
    <3>1. [key |-> next[w], by |-> "main"] \in Notice
      BY <2>1 DEF Notice
    <3>2. QED
      BY <1>7, <3>1, ChannelStep
         DEF NotifyBroadcaster, ChannelTypeOK, TypeOK, mainVars, writerVars, channelVars
  <2>6. QED
    BY <2>2, <2>3, <2>4, <2>5 DEF TypeOK
<1>8. ASSUME NEW w \in Worker, NoticeSent(w) PROVE TypeOK'
  <2>2. MemoryTypeOK'
    BY <1>8
       DEF NoticeSent, MemoryTypeOK, TypeOK, mainVars, writerVars, channelVars
  <2>3. MainTypeOK'
    BY <1>8, AdvanceType
       DEF NoticeSent, MainTypeOK, TypeOK, mainVars, writerVars, channelVars
  <2>4. ListenerTypeOK'
    BY <1>8
       DEF NoticeSent, ListenerTypeOK, TypeOK, mainVars, writerVars, channelVars
  <2>5. ChannelTypeOK'
    BY <1>8
       DEF NoticeSent, ChannelTypeOK, TypeOK, mainVars, writerVars, channelVars
  <2>6. QED
    BY <2>2, <2>3, <2>4, <2>5 DEF TypeOK
<1>9. ASSUME NEW w \in Worker, RemoteWrite(w) PROVE TypeOK'
  <2>1. next[w] \in Block
    BY <1>9, NextIsBlock DEF RemoteWrite
  <2>2. MemoryTypeOK'
    BY <1>9, <2>1
       DEF RemoteWrite, MemoryTypeOK, TypeOK, mainVars, writerVars, channelVars
  <2>3. MainTypeOK'
    <3>1. written' \in [Worker -> Nat]
      BY <1>9, Assigned DEF RemoteWrite, MainTypeOK, TypeOK
    <3>2. CASE EagerSend
      BY <1>9, <3>1, <3>2, AdvanceType DEF RemoteWrite
    <3>3. CASE ~ EagerSend
      <4>1. pc' \in [Worker -> {"idle"} \cup Phase]
        <5>1. pc' = [pc EXCEPT ![w] = "sendingWrite"]
          BY <1>9, <3>3 DEF RemoteWrite
        <5>2. QED
          BY <5>1, Assigned DEF Phase, MainTypeOK, TypeOK
      <4>2. QED
        BY <1>9, <3>1, <3>3, <4>1 DEF RemoteWrite, MainTypeOK, TypeOK
    <3>4. QED
      BY <3>2, <3>3
         DEF MainTypeOK, TypeOK, mainVars, writerVars, channelVars
  <2>4. ListenerTypeOK'
    BY <1>9, <2>1
       DEF RemoteWrite, ListenerTypeOK, TypeOK, mainVars, writerVars, channelVars
  <2>5. ChannelTypeOK'
    <3> DEFINE o == ResolveMaintainer(next[w])
               m == [key |-> next[w], data |-> <<w, written[w] + 1>>]
    <3>1. o \in Worker /\ m \in Request
      BY <2>1, MaintainerIsWorker DEF MainTypeOK, TypeOK, Request, Data
    <3>2. [writeReq EXCEPT ![o][w] = Append(@, m)]
            \in [Worker -> [Worker -> Seq(Request)]]
      BY <3>1, PairChannelStep DEF ChannelTypeOK, TypeOK
    <3>3. QED
      BY <1>9, <3>2
         DEF RemoteWrite, ChannelTypeOK, TypeOK, mainVars, writerVars, channelVars
  <2>6. QED
    BY <2>2, <2>3, <2>4, <2>5 DEF TypeOK
<1>10. ASSUME NEW w \in Worker, RemoteWriteSent(w) PROVE TypeOK'
  <2>2. MemoryTypeOK'
    BY <1>10
       DEF RemoteWriteSent, MemoryTypeOK, TypeOK, mainVars, writerVars, channelVars
  <2>3. MainTypeOK'
    BY <1>10, AdvanceType
       DEF RemoteWriteSent, MainTypeOK, TypeOK, mainVars, writerVars, channelVars
  <2>4. ListenerTypeOK'
    BY <1>10
       DEF RemoteWriteSent, ListenerTypeOK, TypeOK, mainVars, writerVars, channelVars
  <2>5. ChannelTypeOK'
    BY <1>10
       DEF RemoteWriteSent, ChannelTypeOK, TypeOK, mainVars, writerVars, channelVars
  <2>6. QED
    BY <2>2, <2>3, <2>4, <2>5 DEF TypeOK
<1>11. ASSUME NEW w \in Worker, NEW src \in Worker, HandleRead(w, src) PROVE TypeOK'
  <2>2. MemoryTypeOK'
    BY <1>11
       DEF HandleRead, MemoryTypeOK, TypeOK, mainVars, writerVars, channelVars
  <2>3. MainTypeOK'
    BY <1>11
       DEF HandleRead, MainTypeOK, TypeOK, mainVars, writerVars, channelVars
  <2>4. ListenerTypeOK'
    BY <1>11
       DEF HandleRead, ListenerTypeOK, TypeOK, mainVars, writerVars, channelVars
  <2>5. ChannelTypeOK'
    <3> DEFINE b == Head(readReq[w][src])
    <3>1. /\ b \in Block
          /\ [readReq EXCEPT ![w][src] = Tail(@)] \in [Worker -> [Worker -> Seq(Block)]]
      BY <1>11, PairChannelStep DEF HandleRead, ChannelTypeOK, TypeOK
    <3>2. local[b] \in Data
      BY <3>1 DEF MemoryTypeOK, TypeOK
    <3>3. [readResp EXCEPT ![src][w] = Append(@, local[b])]
            \in [Worker -> [Worker -> Seq(Data)]]
      BY <3>2, PairChannelStep DEF ChannelTypeOK, TypeOK
    <3>4. QED
      BY <1>11, <3>1, <3>3
         DEF HandleRead, ChannelTypeOK, TypeOK, mainVars, writerVars, channelVars
  <2>6. QED
    BY <2>2, <2>3, <2>4, <2>5 DEF TypeOK
<1>12. ASSUME NEW w \in Worker, NEW src \in Worker, ReceiveWrite(w, src) PROVE TypeOK'
  <2>2. MemoryTypeOK'
    BY <1>12
       DEF ReceiveWrite, MemoryTypeOK, TypeOK, mainVars, writerVars, channelVars
  <2>3. MainTypeOK'
    BY <1>12
       DEF ReceiveWrite, MainTypeOK, TypeOK, mainVars, writerVars, channelVars
  <2>4. ListenerTypeOK'
    <3>1. Head(writeReq[w][src]) \in Request
      BY <1>12, PairChannelStep DEF ReceiveWrite, ChannelTypeOK, TypeOK
    <3>2. Head(writeReq[w][src]) # Null
      BY <3>1, NullAssumption
    <3>3. QED
      BY <1>12, <3>1, <3>2
         DEF ReceiveWrite, ListenerTypeOK, TypeOK, mainVars, writerVars, channelVars
  <2>5. ChannelTypeOK'
    BY <1>12
       DEF ReceiveWrite, ChannelTypeOK, TypeOK, mainVars, writerVars, channelVars
  <2>6. QED
    BY <2>2, <2>3, <2>4, <2>5 DEF TypeOK
<1>13. ASSUME NEW w \in Worker, ApplyWrite(w) PROVE TypeOK'
  <2>2. MemoryTypeOK'
    BY <1>13
       DEF ApplyWrite, ListenerTypeOK, Request, MemoryTypeOK, TypeOK, mainVars, writerVars, channelVars
  <2>3. MainTypeOK'
    BY <1>13
       DEF ApplyWrite, MainTypeOK, TypeOK, mainVars, writerVars, channelVars
  <2>4. ListenerTypeOK'
    BY <1>13
       DEF ApplyWrite, ListenerTypeOK, TypeOK, mainVars, writerVars, channelVars
  <2>5. ChannelTypeOK'
    BY <1>13
       DEF ApplyWrite, ChannelTypeOK, TypeOK, mainVars, writerVars, channelVars
  <2>6. QED
    BY <2>2, <2>3, <2>4, <2>5 DEF TypeOK
<1>14. ASSUME NEW w \in Worker, NotifyWrite(w) PROVE TypeOK'
  <2>2. MemoryTypeOK'
    BY <1>14
       DEF NotifyWrite, MemoryTypeOK, TypeOK, mainVars, writerVars, channelVars
  <2>3. MainTypeOK'
    BY <1>14
       DEF NotifyWrite, MainTypeOK, TypeOK, mainVars, writerVars, channelVars
  <2>4. ListenerTypeOK'
    BY <1>14
       DEF NotifyWrite, ListenerTypeOK, TypeOK, mainVars, writerVars, channelVars
  <2>5. ChannelTypeOK'
    <3>1. [key |-> whand[w].key, by |-> "write_listener"] \in Notice
      BY <1>14 DEF NotifyWrite, ListenerTypeOK, Request, Notice, TypeOK
    <3>2. QED
      BY <1>14, <3>1, ChannelStep
         DEF NotifyWrite, ChannelTypeOK, TypeOK, mainVars, writerVars, channelVars
  <2>6. QED
    BY <2>2, <2>3, <2>4, <2>5 DEF TypeOK
<1>15. ASSUME NEW w \in Worker, NotifyWriteSent(w) PROVE TypeOK'
  <2>2. MemoryTypeOK'
    BY <1>15
       DEF NotifyWriteSent, MemoryTypeOK, TypeOK, mainVars, writerVars, channelVars
  <2>3. MainTypeOK'
    BY <1>15
       DEF NotifyWriteSent, MainTypeOK, TypeOK, mainVars, writerVars, channelVars
  <2>4. ListenerTypeOK'
    BY <1>15
       DEF NotifyWriteSent, ListenerTypeOK, TypeOK, mainVars, writerVars, channelVars
  <2>5. ChannelTypeOK'
    BY <1>15
       DEF NotifyWriteSent, ChannelTypeOK, TypeOK, mainVars, writerVars, channelVars
  <2>6. QED
    BY <2>2, <2>3, <2>4, <2>5 DEF TypeOK
<1>16. ASSUME NEW w \in Worker, ReceiveInval(w) PROVE TypeOK'
  <2>2. MemoryTypeOK'
    BY <1>16
       DEF ReceiveInval, MemoryTypeOK, TypeOK, mainVars, writerVars, channelVars
  <2>3. MainTypeOK'
    BY <1>16
       DEF ReceiveInval, MainTypeOK, TypeOK, mainVars, writerVars, channelVars
  <2>4. ListenerTypeOK'
    BY <1>16
       DEF ReceiveInval, ChannelTypeOK, ListenerTypeOK, TypeOK, mainVars, writerVars, channelVars
  <2>5. ChannelTypeOK'
    BY <1>16
       DEF ReceiveInval, ChannelTypeOK, TypeOK, mainVars, writerVars, channelVars
  <2>6. QED
    BY <2>2, <2>3, <2>4, <2>5 DEF TypeOK
<1>17. ASSUME NEW w \in Worker, InvalidateCache(w) PROVE TypeOK'
  <2>2. MemoryTypeOK'
    BY <1>17
       DEF InvalidateCache, MemoryTypeOK, TypeOK, mainVars, writerVars, channelVars
  <2>3. MainTypeOK'
    BY <1>17
       DEF InvalidateCache, MainTypeOK, TypeOK, mainVars, writerVars, channelVars
  <2>4. ListenerTypeOK'
    BY <1>17
       DEF InvalidateCache, ListenerTypeOK, TypeOK, mainVars, writerVars, channelVars
  <2>5. ChannelTypeOK'
    BY <1>17
       DEF InvalidateCache, ChannelTypeOK, TypeOK, mainVars, writerVars, channelVars
  <2>6. QED
    BY <2>2, <2>3, <2>4, <2>5 DEF TypeOK
<1>18. ASSUME NEW src \in Worker, HandleNotify(src) PROVE TypeOK'
  <2>2. MemoryTypeOK'
    BY <1>18
       DEF HandleNotify, MemoryTypeOK, TypeOK, mainVars, writerVars, channelVars
  <2>3. MainTypeOK'
    BY <1>18
       DEF HandleNotify, MainTypeOK, TypeOK, mainVars, writerVars, channelVars
  <2>4. ListenerTypeOK'
    BY <1>18
       DEF HandleNotify, ListenerTypeOK, TypeOK, mainVars, writerVars, channelVars
  <2>5. ChannelTypeOK'
    <3>1. Head(notices[src]).key \in Block
      <4>1. Head(notices[src]) \in Notice
        BY <1>18, ChannelStep DEF HandleNotify, ChannelTypeOK, TypeOK
      <4>2. QED
        BY <4>1 DEF Notice
    <3>2. \A w \in Worker : Append(invals[w], Head(notices[src]).key) \in Seq(Block)
      BY <3>1 DEF ChannelTypeOK, TypeOK
    <3>3. QED
      BY <1>18, <3>2, ChannelStep DEF HandleNotify, ChannelTypeOK, TypeOK, mainVars, writerVars, channelVars
  <2>6. QED
    BY <2>2, <2>3, <2>4, <2>5 DEF TypeOK
<1>19. CASE UNCHANGED vars
  BY <1>19 DEF TypeOK, MemoryTypeOK, MainTypeOK, ListenerTypeOK, ChannelTypeOK,
               vars, mainVars, writerVars, channelVars
<1>20. QED
  BY <1>1, <1>2, <1>3, <1>4, <1>5, <1>6, <1>7, <1>8, <1>9, <1>10, <1>11, <1>12,
     <1>13, <1>14, <1>15, <1>16, <1>17, <1>18, <1>19
     DEF Next, CallLe, CallEscreve, Main, ReadListener, WriteListener,
         NotificationListener, Broadcaster

\* The state of every thread and channel stays within its type, in every
\* behaviour of the code.
THEOREM TypeCorrect == Spec => []TypeOK
  BY InitType, NextType, PTL DEF Spec

(***************************************************************************)
(* What the threads of other workers leave alone                           *)
(***************************************************************************)

\* The steps of the main thread of w, drawing an access included.
MainStep(w) == CallLe(w) \/ CallEscreve(w) \/ Main(w)

\* What the main thread of w sees of a read it waits for changes by its own
\* steps and by the read_listener that answers it, and by nothing else.
LEMMA ReaderFrame ==
  ASSUME TypeOK, [Next]_vars, NEW w \in Worker,
         ~ MainStep(w), \A o \in Worker : ~ HandleRead(o, w)
  PROVE  /\ UNCHANGED <<pc[w], next[w], mtx[w], readResp[w]>>
         /\ \A o \in Worker : UNCHANGED readReq[o][w]
<1> USE DEF MainTypeOK, MemoryTypeOK, ChannelTypeOK, TypeOK
<1>1. ASSUME NEW v \in Worker, CallLe(v) \/ CallEscreve(v), v # w
      PROVE  /\ UNCHANGED <<pc[w], next[w], mtx[w], readResp[w]>>
             /\ \A o \in Worker : UNCHANGED readReq[o][w]
  BY <1>1 DEF CallLe, CallEscreve, Call, channelVars
<1>2. ASSUME NEW v \in Worker, Main(v), v # w
      PROVE  /\ UNCHANGED <<pc[w], next[w], mtx[w], readResp[w]>>
             /\ \A o \in Worker : UNCHANGED readReq[o][w]
  <2>1. CASE LocalRead(v) \/ RemoteReadHit(v) \/ NoticeSent(v)
    BY <1>2, <2>1 DEF LocalRead, RemoteReadHit, NoticeSent, Advance, channelVars
  <2>2. CASE RemoteReadMiss(v)
    BY <1>2, <2>2 DEF RemoteReadMiss
  <2>3. CASE RemoteReadFill(v)
    BY <1>2, <2>3 DEF RemoteReadFill, Advance
  <2>4. CASE LocalWrite(v)
    BY <1>2, <2>4 DEF LocalWrite, channelVars
  <2>5. CASE NotifyBroadcaster(v)
    BY <1>2, <2>5 DEF NotifyBroadcaster, Advance
  <2>6. CASE RemoteWrite(v)
    BY <1>2, <2>6 DEF RemoteWrite, Advance
  <2>7. CASE RemoteWriteSent(v)
    BY <1>2, <2>7 DEF RemoteWriteSent, Advance, channelVars
  <2>8. QED
    BY <1>2, <2>1, <2>2, <2>3, <2>4, <2>5, <2>6, <2>7 DEF Main
<1>3. ASSUME NEW o \in Worker, NEW src \in Worker, HandleRead(o, src), src # w
      PROVE  /\ UNCHANGED <<pc[w], next[w], mtx[w], readResp[w]>>
             /\ \A p \in Worker : UNCHANGED readReq[p][w]
  BY <1>3 DEF HandleRead, mainVars
<1>4. ASSUME NEW v \in Worker, WriteListener(v) \/ NotificationListener(v)
      PROVE  UNCHANGED <<pc, next, mtx, readResp, readReq>>
  BY <1>4 DEF WriteListener, ReceiveWrite, ApplyWrite, NotifyWrite, NotifyWriteSent,
              NotificationListener, ReceiveInval, InvalidateCache, mainVars, channelVars
<1>5. ASSUME Broadcaster PROVE UNCHANGED <<pc, next, mtx, readResp, readReq>>
  BY <1>5 DEF Broadcaster, HandleNotify, mainVars
<1>6. ASSUME UNCHANGED vars PROVE UNCHANGED <<pc, next, mtx, readResp, readReq>>
  BY <1>6 DEF vars, mainVars, channelVars
<1>7. QED
  BY <1>1, <1>2, <1>3, <1>4, <1>5, <1>6 DEF Next, ReadListener, MainStep

\* A worker's cache changes when a remote read has been answered and when a
\* copy is invalidated.
LEMMA CacheFrame ==
  ASSUME TypeOK, [Next]_vars, NEW w \in Worker,
         ~ RemoteReadFill(w), ~ InvalidateCache(w)
  PROVE  UNCHANGED cache[w]
<1>1. ASSUME NEW v \in Worker, RemoteReadFill(v) \/ InvalidateCache(v), v # w
      PROVE  UNCHANGED cache[w]
  BY <1>1 DEF RemoteReadFill, InvalidateCache, TypeOK, MemoryTypeOK
<1>2. ASSUME NEW v \in Worker, Main(v), ~ RemoteReadFill(v) PROVE UNCHANGED cache
  BY <1>2 DEF Main, LocalRead, RemoteReadHit, RemoteReadMiss, LocalWrite,
              NotifyBroadcaster, NoticeSent, RemoteWrite, RemoteWriteSent
<1>3. ASSUME NEW v \in Worker, CallLe(v) \/ CallEscreve(v) PROVE UNCHANGED cache
  BY <1>3 DEF CallLe, CallEscreve, Call
<1>4. ASSUME NEW v \in Worker, ReadListener(v) \/ WriteListener(v) \/ ReceiveInval(v)
      PROVE  UNCHANGED cache
  BY <1>4 DEF ReadListener, HandleRead, WriteListener, ReceiveWrite, ApplyWrite,
              NotifyWrite, NotifyWriteSent, ReceiveInval
<1>5. ASSUME Broadcaster \/ UNCHANGED vars PROVE UNCHANGED cache
  BY <1>5 DEF Broadcaster, HandleNotify, vars
<1>6. QED
  BY <1>1, <1>2, <1>3, <1>4, <1>5 DEF Next, NotificationListener

\* The maintainer's copy of a block changes when it is written, and the writing
\* thread is then about to notify: for every worker an invalidation is under way.
LEMMA LocalFrame ==
  ASSUME TypeOK, [Next]_vars, NEW w \in Worker, NEW b \in Block,
         local'[b] # local[b]
  PROVE  InvalidationUnderWay(w, b)'
<1>1. ASSUME NEW v \in Worker, LocalWrite(v) PROVE InvalidationUnderWay(w, b)'
  BY <1>1 DEF LocalWrite, InvalidationUnderWay, TypeOK, MemoryTypeOK, MainTypeOK
<1>2. ASSUME NEW v \in Worker, ApplyWrite(v) PROVE InvalidationUnderWay(w, b)'
  BY <1>2 DEF ApplyWrite, InvalidationUnderWay, TypeOK, MemoryTypeOK, ListenerTypeOK
<1>3. ASSUME NEW v \in Worker, Main(v), ~ LocalWrite(v) PROVE UNCHANGED local
  BY <1>3 DEF Main, LocalRead, RemoteReadHit, RemoteReadMiss, RemoteReadFill,
              NotifyBroadcaster, NoticeSent, RemoteWrite, RemoteWriteSent
<1>4. ASSUME NEW v \in Worker, CallLe(v) \/ CallEscreve(v) PROVE UNCHANGED local
  BY <1>4 DEF CallLe, CallEscreve, Call
<1>5. ASSUME NEW v \in Worker,
             ReadListener(v) \/ NotificationListener(v) \/ (WriteListener(v) /\ ~ ApplyWrite(v))
      PROVE  UNCHANGED local
  BY <1>5 DEF ReadListener, HandleRead, WriteListener, ReceiveWrite, NotifyWrite,
              NotifyWriteSent, NotificationListener, ReceiveInval, InvalidateCache
<1>6. ASSUME Broadcaster \/ UNCHANGED vars PROVE UNCHANGED local
  BY <1>6 DEF Broadcaster, HandleNotify, vars
<1>7. QED
  BY <1>1, <1>2, <1>3, <1>4, <1>5, <1>6 DEF Next

(***************************************************************************)
(* An invalidation that is under way stays under way                       *)
(***************************************************************************)

\* An invalidation of block b that is under way to a worker w that does not
\* maintain b goes from stage to stage and is not lost, until w's
\* notification_listener carries it out.
LEMMA UnderWayStays ==
  ASSUME TypeOK, [Next]_vars, NEW w \in Worker, NEW b \in Block,
         ~ IsLocal(w, b), InvalidationUnderWay(w, b),
         ~ (InvalidateCache(w) /\ nkey[w] = b)
  PROVE  InvalidationUnderWay(w, b)'
<1>1. ASSUME NEW o \in Worker, pc[o] = "notifying", next[o] = b
      PROVE  InvalidationUnderWay(w, b)'
  <2>1. CASE NotifyBroadcaster(o)
    <3>1. notices'[o] = Append(notices[o], [key |-> b, by |-> "main"])
      BY <1>1, <2>1 DEF NotifyBroadcaster, TypeOK, ChannelTypeOK
    <3>2. notices[o] \in Seq(Notice) /\ [key |-> b, by |-> "main"] \in Notice
      BY DEF Notice, TypeOK, ChannelTypeOK
    <3>3. Len(notices[o]) + 1 \in DOMAIN notices'[o]
          /\ notices'[o][Len(notices[o]) + 1].key = b
      BY <3>1, <3>2, Sent
    <3>4. QED
      BY <3>3 DEF InvalidationUnderWay
  <2>2. CASE ~ NotifyBroadcaster(o)
    <3>1. ~ MainStep(o)
      BY <1>1, <2>2 DEF MainStep, CallLe, CallEscreve, Call, Main, LocalRead, RemoteReadHit,
           RemoteReadMiss, RemoteReadFill, LocalWrite, NoticeSent, RemoteWrite, RemoteWriteSent
    <3>2. UNCHANGED <<pc[o], next[o]>>
      <4>1. ASSUME NEW p \in Worker, HandleRead(p, o) PROVE UNCHANGED <<pc, next>>
        BY <4>1 DEF HandleRead, mainVars
      <4>2. QED
        BY <3>1, <4>1, ReaderFrame
    <3>3. QED
      BY <1>1, <3>2 DEF InvalidationUnderWay
  <2>3. QED
    BY <2>1, <2>2
<1>2. ASSUME NEW o \in Worker, wpc[o] = "notify", whand[o].key = b
      PROVE  InvalidationUnderWay(w, b)'
  <2>1. CASE NotifyWrite(o)
    <3>1. notices'[o] = Append(notices[o], [key |-> b, by |-> "write_listener"])
      BY <1>2, <2>1 DEF NotifyWrite, TypeOK, ChannelTypeOK
    <3>2. notices[o] \in Seq(Notice) /\ [key |-> b, by |-> "write_listener"] \in Notice
      BY DEF Notice, TypeOK, ChannelTypeOK
    <3>3. Len(notices[o]) + 1 \in DOMAIN notices'[o]
          /\ notices'[o][Len(notices[o]) + 1].key = b
      BY <3>1, <3>2, Sent
    <3>4. QED
      BY <3>3 DEF InvalidationUnderWay
  <2>2. CASE ~ NotifyWrite(o)
    <3>1. UNCHANGED <<wpc[o], whand[o]>>
      <4>1. ASSUME NEW v \in Worker, WriteListener(v) PROVE UNCHANGED <<wpc[o], whand[o]>>
        BY <4>1, <1>2, <2>2 DEF WriteListener, ReceiveWrite, ApplyWrite, NotifyWrite,
             NotifyWriteSent, TypeOK, ListenerTypeOK
      <4>2. ASSUME NEW v \in Worker, CallLe(v) \/ CallEscreve(v) \/ Main(v)
            PROVE  UNCHANGED <<wpc, whand>>
        BY <4>2 DEF CallLe, CallEscreve, Call, Main, LocalRead, RemoteReadHit, RemoteReadMiss,
             RemoteReadFill, LocalWrite, NotifyBroadcaster, NoticeSent, RemoteWrite,
             RemoteWriteSent, writerVars
      <4>3. ASSUME NEW v \in Worker, ReadListener(v) \/ NotificationListener(v)
            PROVE  UNCHANGED <<wpc, whand>>
        BY <4>3 DEF ReadListener, HandleRead, NotificationListener, ReceiveInval,
             InvalidateCache, writerVars
      <4>4. ASSUME Broadcaster \/ UNCHANGED vars PROVE UNCHANGED <<wpc, whand>>
        BY <4>4 DEF Broadcaster, HandleNotify, vars, writerVars
      <4>5. QED
        BY <4>1, <4>2, <4>3, <4>4 DEF Next
    <3>2. QED
      BY <1>2, <3>1 DEF InvalidationUnderWay
  <2>3. QED
    BY <2>1, <2>2
<1>3. ASSUME NEW o \in Worker, NEW i \in DOMAIN notices[o], notices[o][i].key = b
      PROVE  InvalidationUnderWay(w, b)'
  <2>1. notices[o] \in Seq(Notice) /\ invals[w] \in Seq(Block)
    BY DEF TypeOK, ChannelTypeOK
  <2>2. CASE HandleNotify(o)
    <3>1. CASE i = 1
      <4>1. Head(notices[o]).key = b
        BY <1>3, <2>1, <2>2, <3>1, Received DEF HandleNotify
      <4>2. invals'[w] = Append(invals[w], b)
        BY <2>2, <4>1 DEF HandleNotify
      <4>3. Len(invals[w]) + 1 \in DOMAIN invals'[w] /\ invals'[w][Len(invals[w]) + 1] = b
        BY <2>1, <4>2, Sent
      <4>4. QED
        BY <4>3 DEF InvalidationUnderWay
    <3>2. CASE i # 1
      <4>1. notices'[o] = Tail(notices[o])
        BY <2>2 DEF HandleNotify, TypeOK, ChannelTypeOK
      <4>2. i - 1 \in DOMAIN notices'[o] /\ notices'[o][i - 1].key = b
        BY <1>3, <2>1, <3>2, <4>1, MovesUp
      <4>3. QED
        BY <4>2 DEF InvalidationUnderWay
    <3>3. QED
      BY <3>1, <3>2
  <2>3. CASE ~ HandleNotify(o)
    <3>1. UNCHANGED notices[o] \/ \E n \in Notice : notices'[o] = Append(notices[o], n)
      <4>1. ASSUME NEW v \in Worker, NotifyBroadcaster(v)
            PROVE  UNCHANGED notices[o] \/ \E n \in Notice : notices'[o] = Append(notices[o], n)
        <5>1. [key |-> next[v], by |-> "main"] \in Notice
          BY <4>1, NextIsBlock DEF NotifyBroadcaster, Notice
        <5>2. QED
          BY <4>1, <5>1 DEF NotifyBroadcaster, TypeOK, ChannelTypeOK
      <4>2. ASSUME NEW v \in Worker, NotifyWrite(v)
            PROVE  UNCHANGED notices[o] \/ \E n \in Notice : notices'[o] = Append(notices[o], n)
        <5>1. [key |-> whand[v].key, by |-> "write_listener"] \in Notice
          BY <4>2 DEF NotifyWrite, Notice, TypeOK, ListenerTypeOK, Request
        <5>2. QED
          BY <4>2, <5>1 DEF NotifyWrite, TypeOK, ChannelTypeOK
      <4>3. ASSUME NEW v \in Worker, Main(v), ~ NotifyBroadcaster(v)
            PROVE  UNCHANGED notices
        BY <4>3 DEF Main, LocalRead, RemoteReadHit, RemoteReadMiss, RemoteReadFill,
             LocalWrite, NoticeSent, RemoteWrite, RemoteWriteSent, channelVars
      <4>4. ASSUME NEW v \in Worker, CallLe(v) \/ CallEscreve(v) PROVE UNCHANGED notices
        BY <4>4 DEF CallLe, CallEscreve, Call, channelVars
      <4>5. ASSUME NEW v \in Worker, ReadListener(v) \/ NotificationListener(v)
                     \/ (WriteListener(v) /\ ~ NotifyWrite(v))
            PROVE  UNCHANGED notices
        BY <4>5 DEF ReadListener, HandleRead, NotificationListener, ReceiveInval,
             InvalidateCache, WriteListener, ReceiveWrite, ApplyWrite, NotifyWriteSent,
             channelVars
      <4>6. ASSUME NEW src \in Worker, HandleNotify(src) PROVE UNCHANGED notices[o]
        BY <2>3, <4>6 DEF HandleNotify, TypeOK, ChannelTypeOK
      <4>7. QED
        BY <4>1, <4>2, <4>3, <4>4, <4>5, <4>6 DEF Next, Broadcaster, vars, channelVars
    <3>2. i \in DOMAIN notices'[o] /\ notices'[o][i].key = b
      BY <1>3, <2>1, <3>1, Sent
    <3>3. QED
      BY <3>2 DEF InvalidationUnderWay
  <2>4. QED
    BY <2>2, <2>3
<1>4. ASSUME NEW i \in DOMAIN invals[w], invals[w][i] = b
      PROVE  InvalidationUnderWay(w, b)'
  <2>1. invals[w] \in Seq(Block)
    BY DEF TypeOK, ChannelTypeOK
  <2>2. CASE ReceiveInval(w)
    <3>1. CASE i = 1
      <4>1. Head(invals[w]) = b
        BY <1>4, <2>1, <2>2, <3>1, Received DEF ReceiveInval
      <4>2. nkey'[w] = b
        BY <2>2, <4>1 DEF ReceiveInval, TypeOK, ListenerTypeOK
      <4>3. QED
        BY <4>2 DEF InvalidationUnderWay
    <3>2. CASE i # 1
      <4>1. invals'[w] = Tail(invals[w])
        BY <2>2 DEF ReceiveInval, TypeOK, ChannelTypeOK
      <4>2. i - 1 \in DOMAIN invals'[w] /\ invals'[w][i - 1] = b
        BY <1>4, <2>1, <3>2, <4>1, MovesUp
      <4>3. QED
        BY <4>2 DEF InvalidationUnderWay
    <3>3. QED
      BY <3>1, <3>2
  <2>3. CASE ~ ReceiveInval(w)
    <3>1. UNCHANGED invals[w] \/ \E k \in Block : invals'[w] = Append(invals[w], k)
      <4>1. ASSUME NEW src \in Worker, HandleNotify(src)
            PROVE  \E k \in Block : invals'[w] = Append(invals[w], k)
        <5>1. Head(notices[src]) \in Notice
          BY <4>1, ChannelStep DEF HandleNotify, ChannelTypeOK, TypeOK
        <5>2. QED
          BY <4>1, <5>1 DEF HandleNotify, Notice
      <4>2. ASSUME NEW v \in Worker, ReceiveInval(v) PROVE UNCHANGED invals[w]
        BY <2>3, <4>2 DEF ReceiveInval, ChannelTypeOK, TypeOK
      <4>3. ASSUME NEW v \in Worker, CallLe(v) \/ CallEscreve(v) \/ Main(v)
            PROVE  UNCHANGED invals
        BY <4>3 DEF CallLe, CallEscreve, Call, Main, LocalRead, RemoteReadHit,
             RemoteReadMiss, RemoteReadFill, LocalWrite, NotifyBroadcaster, NoticeSent,
             RemoteWrite, RemoteWriteSent, channelVars
      <4>4. ASSUME NEW v \in Worker, ReadListener(v) \/ WriteListener(v) \/ InvalidateCache(v)
            PROVE  UNCHANGED invals
        BY <4>4 DEF ReadListener, HandleRead, WriteListener, ReceiveWrite, ApplyWrite,
             NotifyWrite, NotifyWriteSent, InvalidateCache, channelVars
      <4>5. QED
        BY <4>1, <4>2, <4>3, <4>4
           DEF Next, NotificationListener, Broadcaster, vars, channelVars
    <3>2. i \in DOMAIN invals'[w] /\ invals'[w][i] = b
      BY <1>4, <2>1, <3>1, Sent
    <3>3. QED
      BY <3>2 DEF InvalidationUnderWay
  <2>4. QED
    BY <2>2, <2>3
<1>5. ASSUME nkey[w] = b
      PROVE  InvalidationUnderWay(w, b)'
  <2>1. UNCHANGED nkey[w]
    <3>1. nkey[w] # Null
      BY <1>5, NullAssumption
    <3>2. ASSUME NEW v \in Worker, NotificationListener(v) PROVE UNCHANGED nkey[w]
      BY <1>5, <3>1, <3>2
         DEF NotificationListener, ReceiveInval, InvalidateCache, TypeOK, ListenerTypeOK
    <3>3. ASSUME NEW v \in Worker, CallLe(v) \/ CallEscreve(v) \/ Main(v)
          PROVE  UNCHANGED nkey
      BY <3>3 DEF CallLe, CallEscreve, Call, Main, LocalRead, RemoteReadHit, RemoteReadMiss,
           RemoteReadFill, LocalWrite, NotifyBroadcaster, NoticeSent, RemoteWrite,
           RemoteWriteSent
    <3>4. ASSUME NEW v \in Worker, ReadListener(v) \/ WriteListener(v) PROVE UNCHANGED nkey
      BY <3>4 DEF ReadListener, HandleRead, WriteListener, ReceiveWrite, ApplyWrite,
           NotifyWrite, NotifyWriteSent
    <3>5. QED
      BY <3>2, <3>3, <3>4 DEF Next, Broadcaster, HandleNotify, vars
  <2>2. QED
    BY <1>5, <2>1 DEF InvalidationUnderWay
<1>6. QED
  BY <1>1, <1>2, <1>3, <1>4, <1>5 DEF InvalidationUnderWay

(***************************************************************************)
(* The reader and its one request                                          *)
(***************************************************************************)

\* An advance leaves the main thread outside RemoteRepository::read.
LEMMA AdvanceLeaves ==
  ASSUME TypeOK, NEW w \in Worker, NEW phase \in {"reading", "writing"},
         Advance(w, phase)
  PROVE  pc'[w] # "awaiting"
  BY DEF Advance, TypeOK, MainTypeOK

\* The steps of w's main thread other than sending a read request and taking
\* its response neither start nor end outside of a read.
LEMMA OtherMainSteps ==
  ASSUME TypeOK, NEW w \in Worker, MainStep(w),
         ~ RemoteReadMiss(w), ~ RemoteReadFill(w)
  PROVE  pc[w] # "awaiting" /\ pc'[w] # "awaiting" /\ UNCHANGED <<readReq, readResp>>
<1> USE AdvanceLeaves DEF channelVars
<1>1. CASE CallLe(w) \/ CallEscreve(w)
  BY <1>1 DEF CallLe, CallEscreve, Call, TypeOK, MainTypeOK
<1>2. CASE LocalRead(w) \/ RemoteReadHit(w)
  BY <1>2 DEF LocalRead, RemoteReadHit
<1>3. CASE LocalWrite(w)
  BY <1>3 DEF LocalWrite, TypeOK, MainTypeOK
<1>4. CASE NotifyBroadcaster(w)
  BY <1>4 DEF NotifyBroadcaster, TypeOK, MainTypeOK
<1>5. CASE NoticeSent(w) \/ RemoteWriteSent(w)
  BY <1>5 DEF NoticeSent, RemoteWriteSent
<1>6. CASE RemoteWrite(w)
  BY <1>6 DEF RemoteWrite, TypeOK, MainTypeOK
<1>7. QED
  BY <1>1, <1>2, <1>3, <1>4, <1>5, <1>6 DEF MainStep, Main

\* No step makes a second request or response appear in a reader's channels.
LEMMA NextOneRequest ==
  TypeOK /\ OneRequestPerReader /\ [Next]_vars => OneRequestPerReader'
<1> SUFFICES ASSUME TypeOK, OneRequestPerReader, [Next]_vars, NEW w \in Worker, NEW o \in Worker
             PROVE  OneRequestBetween(w, o)'
  BY DEF OneRequestPerReader
<1> DEFINE b == next[w]
           t == RemoteTarget(b)
<1>1. /\ readReq[o][w] \in Seq(Block)
      /\ readResp[w][o] \in Seq(Data)
  BY DEF TypeOK, ChannelTypeOK
<1>2. OneRequestBetween(w, o)
  BY DEF OneRequestPerReader
<1>3. CASE ~ MainStep(w) /\ \A p \in Worker : ~ HandleRead(p, w)
  BY <1>2, <1>3, ReaderFrame DEF OneRequestBetween, IsLocal, MemMap
<1>4. CASE MainStep(w) /\ ~ RemoteReadMiss(w) /\ ~ RemoteReadFill(w)
  BY <1>2, <1>4, OtherMainSteps DEF OneRequestBetween
<1>5. CASE RemoteReadMiss(w)
  <2>1. /\ pc[w] = "reading" /\ pc'[w] = "awaiting"
        /\ b \in Block /\ next'[w] = b
        /\ mtx'[w] = "shared"
        /\ readResp'[w][o] = readResp[w][o]
    BY <1>5, NextIsBlock DEF RemoteReadMiss, TypeOK, MainTypeOK, MemoryTypeOK
  <2>2. readReq[o][w] = <<>> /\ readResp[w][o] = <<>>
    BY <1>2, <2>1 DEF OneRequestBetween
  <2>3. IsLocal(o, b) <=> o = t
    BY <2>1, MaintainersAgree
  <2>4. readReq'[o][w] = IF o = t THEN Append(readReq[o][w], b) ELSE readReq[o][w]
    BY <1>5 DEF RemoteReadMiss, TypeOK, ChannelTypeOK
  <2>5. readReq'[o][w] = IF o = t THEN <<b>> ELSE <<>>
    BY <2>2, <2>4
  <2>6. QED
    BY <2>1, <2>2, <2>3, <2>5 DEF OneRequestBetween, IsLocal, MemMap
<1>6. CASE RemoteReadFill(w)
  <2>1. /\ pc[w] = "awaiting" /\ pc'[w] # "awaiting"
        /\ readResp[w][t] # <<>>
        /\ readReq'[o][w] = readReq[o][w]
    BY <1>6, AdvanceLeaves DEF RemoteReadFill
  <2>2. readResp'[w][o] = IF o = t THEN Tail(readResp[w][o]) ELSE readResp[w][o]
    BY <1>6 DEF RemoteReadFill, TypeOK, ChannelTypeOK
  <2>3. IsLocal(o, b) <=> o = t
    BY <2>1, NextIsBlock, MaintainersAgree
  <2>4. readReq'[o][w] = <<>> /\ readResp'[w][o] = <<>>
    BY <1>2, <2>1, <2>2, <2>3 DEF OneRequestBetween
  <2>5. QED
    BY <2>1, <2>4 DEF OneRequestBetween
<1>7. ASSUME NEW p \in Worker, HandleRead(p, w) PROVE OneRequestBetween(w, o)'
  <2>1. UNCHANGED <<pc, next, mtx>>
    BY <1>7 DEF HandleRead, mainVars
  <2>2. CASE o = p
    <3>1. /\ readReq[o][w] # <<>>
          /\ readReq'[o][w] = Tail(readReq[o][w])
          /\ readResp'[w][o] = Append(readResp[w][o], local[Head(readReq[o][w])])
      BY <1>7, <2>2 DEF HandleRead, TypeOK, ChannelTypeOK
    <3>2. /\ pc[w] = "awaiting" /\ IsLocal(o, b) /\ mtx[w] = "shared"
          /\ readReq[o][w] = <<b>> /\ readResp[w][o] = <<>>
      BY <1>2, <3>1 DEF OneRequestBetween
    <3>3. local[b] \in Data
      BY <3>2, NextIsBlock DEF TypeOK, MemoryTypeOK
    <3>4. /\ readReq'[o][w] = <<>>
          /\ readResp'[w][o] = <<local[b]>>
      BY <3>1, <3>2, <3>3
    <3>5. QED
      BY <2>1, <3>2, <3>4 DEF OneRequestBetween, IsLocal, MemMap
  <2>3. CASE o # p
    <3>1. readReq'[o][w] = readReq[o][w] /\ readResp'[w][o] = readResp[w][o]
      BY <1>7, <2>3 DEF HandleRead, TypeOK, ChannelTypeOK
    <3>2. QED
      BY <1>2, <2>1, <3>1 DEF OneRequestBetween, IsLocal, MemMap
  <2>4. QED
    BY <2>2, <2>3
<1>8. QED
  BY <1>3, <1>4, <1>5, <1>6, <1>7

\* No step stores, or asks for, a copy of a block at its own maintainer.
LEMMA NextCopiesRemote ==
  TypeOK /\ CopiesAreRemote /\ [Next]_vars => CopiesAreRemote'
<1> SUFFICES ASSUME TypeOK, CopiesAreRemote, [Next]_vars, NEW w \in Worker
             PROVE  /\ \A b \in Block : cache'[w][b] # Null => ~ IsLocal(w, b)
                    /\ pc'[w] = "awaiting" => ~ IsLocal(w, next'[w])
  BY DEF CopiesAreRemote, IsLocal, MemMap
<1>1. ASSUME NEW b \in Block, cache'[w][b] # Null PROVE ~ IsLocal(w, b)
  <2>1. CASE RemoteReadFill(w)
    <3>1. pc[w] = "awaiting" /\ (b = next[w] \/ cache'[w][b] = cache[w][b])
      BY <2>1 DEF RemoteReadFill, TypeOK, MemoryTypeOK
    <3>2. QED
      BY <1>1, <3>1 DEF CopiesAreRemote
  <2>2. CASE InvalidateCache(w)
    BY <1>1, <2>2 DEF InvalidateCache, CopiesAreRemote, TypeOK, MemoryTypeOK
  <2>3. CASE ~ RemoteReadFill(w) /\ ~ InvalidateCache(w)
    BY <1>1, <2>3, CacheFrame DEF CopiesAreRemote
  <2>4. QED
    BY <2>1, <2>2, <2>3
<1>2. ASSUME pc'[w] = "awaiting" PROVE ~ IsLocal(w, next'[w])
  <2>1. CASE RemoteReadMiss(w)
    BY <2>1 DEF RemoteReadMiss
  <2>2. CASE RemoteReadFill(w)
    BY <1>2, <2>2, AdvanceLeaves DEF RemoteReadFill
  <2>3. CASE MainStep(w) /\ ~ RemoteReadMiss(w) /\ ~ RemoteReadFill(w)
    BY <1>2, <2>3, OtherMainSteps
  <2>4. ASSUME NEW o \in Worker, HandleRead(o, w) PROVE UNCHANGED <<pc, next>>
    BY <2>4 DEF HandleRead, mainVars
  <2>5. CASE ~ MainStep(w)
    <3>1. UNCHANGED <<pc[w], next[w]>>
      BY <2>4, <2>5, ReaderFrame
    <3>2. QED
      BY <1>2, <3>1 DEF CopiesAreRemote
  <2>6. QED
    BY <2>1, <2>2, <2>3, <2>5
<1>3. QED
  BY <1>1, <1>2

(***************************************************************************)
(* Coherence                                                               *)
(***************************************************************************)

\* While a response is in flight to w, the copy it will be stored as cannot be
\* invalidated: the reader holds the lock that invalidate_cache needs.
LEMMA ResponseHoldsLock ==
  ASSUME OneRequestPerReader, NEW w \in Worker, NEW o \in Worker,
         readResp[w][o] # <<>>
  PROVE  pc[w] = "awaiting" /\ IsLocal(o, next[w]) /\ mtx[w] = "shared"
  BY DEF OneRequestPerReader, OneRequestBetween

\* A cached copy that a step leaves stale has an invalidation under way.
LEMMA NextStaleCopy ==
  CoherenceInv /\ [Next]_vars => StaleCopyIsInvalidated'
<1> SUFFICES ASSUME CoherenceInv, [Next]_vars, NEW w \in Worker, NEW b \in Block,
                    cache'[w][b] # Null, cache'[w][b] # local'[b]
             PROVE  InvalidationUnderWay(w, b)'
  BY DEF StaleCopyIsInvalidated, Stale
<1> USE DEF CoherenceInv
<1>1. CASE local'[b] # local[b]
  BY <1>1, LocalFrame
<1>2. CASE local'[b] = local[b] /\ cache'[w][b] = cache[w][b]
  <2>1. InvalidationUnderWay(w, b) /\ ~ IsLocal(w, b)
    BY <1>2 DEF StaleCopyIsInvalidated, Stale, CopiesAreRemote
  <2>2. ~ (InvalidateCache(w) /\ nkey[w] = b)
    BY DEF InvalidateCache, TypeOK, MemoryTypeOK
  <2>3. QED
    BY <2>1, <2>2, UnderWayStays
<1>3. CASE local'[b] = local[b] /\ cache'[w][b] # cache[w][b]
  <2> DEFINE o == RemoteTarget(b)
  <2>1. RemoteReadFill(w)
    <3>1. CASE InvalidateCache(w)
      BY <1>3, <3>1 DEF InvalidateCache, TypeOK, MemoryTypeOK
    <3>2. QED
      BY <1>3, <3>1, CacheFrame
  <2>2. /\ b = next[w] /\ pc[w] = "awaiting"
        /\ readResp[w][o] # <<>>
        /\ cache'[w][b] = Head(readResp[w][o])
    BY <1>3, <2>1 DEF RemoteReadFill, TypeOK, MemoryTypeOK
  <2>3. 1 \in DOMAIN readResp[w][o] /\ readResp[w][o][1] = Head(readResp[w][o])
    <3>1. readResp[w][o] \in Seq(Data)
      BY TargetIsWorker DEF TypeOK, ChannelTypeOK
    <3>2. QED
      BY <2>2, <3>1, Received
  <2>4. InvalidationUnderWay(w, b) /\ ~ IsLocal(w, b)
    BY <1>3, <2>2, <2>3, TargetIsWorker DEF StaleResponseIsInvalidated, CopiesAreRemote
  <2>5. ~ InvalidateCache(w)
    BY <2>2, TargetIsWorker, ResponseHoldsLock DEF InvalidateCache
  <2>6. QED
    BY <2>4, <2>5, UnderWayStays
<1>4. QED
  BY <1>1, <1>2, <1>3

\* A response that a step leaves stale in flight has an invalidation under way.
LEMMA NextStaleResponse ==
  CoherenceInv /\ [Next]_vars => StaleResponseIsInvalidated'
<1> SUFFICES ASSUME CoherenceInv, [Next]_vars, NEW w \in Worker, NEW o \in Worker,
                    NEW i \in DOMAIN readResp'[w][o],
                    readResp'[w][o][i] # local'[next'[w]]
             PROVE  InvalidationUnderWay(w, next[w])' /\ next'[w] = next[w]
  BY DEF StaleResponseIsInvalidated, InvalidationUnderWay
<1> USE DEF CoherenceInv
<1> DEFINE b == next[w]
<1>1. readResp[w][o] \in Seq(Data) /\ readResp'[w][o] \in Seq(Data)
  BY NextType DEF TypeOK, ChannelTypeOK
<1>2. readResp'[w][o] # <<>> /\ pc'[w] = "awaiting"
  <2>1. readResp'[w][o] # <<>>
    BY <1>1
  <2>2. QED
    BY <2>1, NextOneRequest DEF OneRequestPerReader, OneRequestBetween
<1>3. ~ RemoteReadFill(w)
  BY <1>2, AdvanceLeaves DEF RemoteReadFill
<1>4. ~ RemoteReadMiss(w)
  BY <1>2 DEF RemoteReadMiss, OneRequestPerReader, OneRequestBetween
<1>5. ~ MainStep(w)
  BY <1>2, <1>3, <1>4, OtherMainSteps
<1>6. UNCHANGED <<pc[w], next[w]>>
  <2>1. ASSUME NEW p \in Worker, HandleRead(p, w) PROVE UNCHANGED <<pc, next>>
    BY <2>1 DEF HandleRead, mainVars
  <2>2. QED
    BY <1>5, <2>1, ReaderFrame
<1>7. b \in Block /\ ~ IsLocal(w, b)
  BY <1>2, <1>6, NextIsBlock DEF CopiesAreRemote
<1>8. CASE local'[b] # local[b]
  BY <1>6, <1>7, <1>8, LocalFrame DEF InvalidationUnderWay
<1>9. CASE local'[b] = local[b] /\ UNCHANGED readResp[w][o]
  <2>1. InvalidationUnderWay(w, b)
    BY <1>6, <1>9 DEF StaleResponseIsInvalidated
  <2>2. ~ InvalidateCache(w)
    BY <1>2, <1>9, ResponseHoldsLock DEF InvalidateCache
  <2>3. InvalidationUnderWay(w, b)'
    BY <1>6, <1>7, <2>1, <2>2, UnderWayStays DEF InvalidationUnderWay
  <2>4. QED
    BY <1>6, <2>3
<1>10. CASE local'[b] = local[b] /\ readResp'[w][o] # readResp[w][o]
  <2>1. HandleRead(o, w)
    <3>1. ASSUME NEW p \in Worker, HandleRead(p, w), p # o PROVE UNCHANGED readResp[w][o]
      BY <3>1 DEF HandleRead, TypeOK, ChannelTypeOK
    <3>2. QED
      BY <1>5, <1>10, <3>1, ReaderFrame
  <2>2. /\ readReq[o][w] # <<>>
        /\ readResp'[w][o] = Append(readResp[w][o], local[Head(readReq[o][w])])
    BY <2>1 DEF HandleRead, TypeOK, ChannelTypeOK
  <2>3. readReq[o][w] = <<b>> /\ readResp[w][o] = <<>>
    BY <2>2 DEF OneRequestPerReader, OneRequestBetween
  <2>4. readResp'[w][o] = <<local[b]>>
    BY <2>2, <2>3
  <2>5. readResp'[w][o][i] = local[b]
    BY <2>4
  <2>6. QED
    BY <1>6, <1>10, <2>5
<1>11. QED
  BY <1>8, <1>9, <1>10

\* At the start nothing is cached and nothing is in flight.
LEMMA InitCoherence == Init => CoherenceInv
<1> SUFFICES ASSUME Init PROVE CoherenceInv
  OBVIOUS
<1>1. OneRequestPerReader
  BY DEF Init, OneRequestPerReader, OneRequestBetween
<1>2. CopiesAreRemote
  BY DEF Init, CopiesAreRemote
<1>3. StaleCopyIsInvalidated
  BY DEF Init, StaleCopyIsInvalidated, Stale
<1>4. StaleResponseIsInvalidated
  BY DEF Init, StaleResponseIsInvalidated
<1>5. QED
  BY <1>1, <1>2, <1>3, <1>4, InitType DEF CoherenceInv

\* The inductive invariant holds throughout.
THEOREM CoherenceInvariant == Spec => []CoherenceInv
<1>1. CoherenceInv /\ [Next]_vars => CoherenceInv'
  BY NextType, NextOneRequest, NextCopiesRemote, NextStaleCopy, NextStaleResponse
     DEF CoherenceInv
<1>2. QED
  BY <1>1, InitCoherence, PTL DEF Spec

\* Invalidation on write, for any number of workers, blocks and writes: every
\* cached copy that differs from its maintainer's block has an invalidation under
\* way (RemoteRepository, LocalRepository::write, the listeners, the broadcaster).
THEOREM StaleCopiesAreInvalidated == Spec => []StaleCopyIsInvalidated
<1>1. CoherenceInv => StaleCopyIsInvalidated
  BY DEF CoherenceInv
<1>2. QED
  BY <1>1, CoherenceInvariant, PTL

\* The same of a response that a newer write has overtaken: the lock that the
\* reader holds keeps the invalidation from running before the copy is stored.
THEOREM StaleResponsesAreInvalidated == Spec => []StaleResponseIsInvalidated
<1>1. CoherenceInv => StaleResponseIsInvalidated
  BY DEF CoherenceInv
<1>2. QED
  BY <1>1, CoherenceInvariant, PTL

\* A response is always the answer to the reader's one request, though it carries
\* no key (RemoteRepository::read, handle_read).
THEOREM ResponsesMatchRequests == Spec => []OneRequestPerReader
<1>1. CoherenceInv => OneRequestPerReader
  BY DEF CoherenceInv
<1>2. QED
  BY <1>1, CoherenceInvariant, PTL

(***************************************************************************)
(* Routing                                                                 *)
(***************************************************************************)

\* Every message of a channel that has been sent to, or received from, was there
\* before or is the one just sent.
LEMMA OldOrSent ==
  ASSUME NEW S, NEW s \in Seq(S), NEW e \in S
  PROVE  /\ \A i \in DOMAIN Append(s, e) :
              Append(s, e)[i] = e \/ \E j \in DOMAIN s : Append(s, e)[i] = s[j]
         /\ s # <<>> =>
              \A i \in DOMAIN Tail(s) : \E j \in DOMAIN s : Tail(s)[i] = s[j]
<1>1. \A i \in DOMAIN Append(s, e) :
        Append(s, e)[i] = e \/ \E j \in DOMAIN s : Append(s, e)[i] = s[j]
  <2>1. DOMAIN Append(s, e) = 1 .. Len(s) + 1 /\ DOMAIN s = 1 .. Len(s) /\ Len(s) \in Nat
    OBVIOUS
  <2>2. ASSUME NEW i \in 1 .. Len(s) + 1, i # Len(s) + 1 PROVE i \in 1 .. Len(s)
    BY <2>1, <2>2
  <2>3. QED
    BY <2>1, <2>2, Sent
<1>2. ASSUME s # <<>>, NEW i \in DOMAIN Tail(s)
      PROVE  \E j \in DOMAIN s : Tail(s)[i] = s[j]
  <2>1. Tail(s)[i] = s[i + 1] /\ DOMAIN Tail(s) = 1 .. Len(s) - 1 /\ Len(s) \in Nat \ {0}
    BY <1>2, Received
  <2>2. i + 1 \in DOMAIN s
    BY <1>2, <2>1
  <2>3. QED
    BY <2>1, <2>2
<1>3. QED
  BY <1>1, <1>2

\* A read request is sent to the process that holds the block.
LEMMA NextReadRouting ==
  ASSUME TypeOK, NoHandlerThrows, [Next]_vars, NEW w \in Worker, NEW src \in Worker,
         NEW i \in DOMAIN readReq'[w][src]
  PROVE  IsLocal(w, readReq'[w][src][i])
<1>1. readReq[w][src] \in Seq(Block)
  BY DEF TypeOK, ChannelTypeOK
<1>2. \A j \in DOMAIN readReq[w][src] : IsLocal(w, readReq[w][src][j])
  BY DEF NoHandlerThrows
<1>3. CASE RemoteReadMiss(src)
  <2>1. next[src] \in Block
    BY <1>3, NextIsBlock DEF RemoteReadMiss
  <2>2. CASE w = RemoteTarget(next[src])
    <3>1. readReq'[w][src] = Append(readReq[w][src], next[src])
      BY <1>3, <2>2 DEF RemoteReadMiss, TypeOK, ChannelTypeOK
    <3>2. IsLocal(w, next[src])
      BY <2>1, <2>2, MaintainersAgree
    <3>3. QED
      BY <1>1, <1>2, <2>1, <3>1, <3>2, OldOrSent
  <2>3. CASE w # RemoteTarget(next[src])
    BY <1>2, <1>3, <2>3 DEF RemoteReadMiss, TypeOK, ChannelTypeOK
  <2>4. QED
    BY <2>2, <2>3
<1>4. ASSUME NEW o \in Worker, HandleRead(o, src) PROVE IsLocal(w, readReq'[w][src][i])
  <2>1. CASE o = w
    <3>1. readReq[w][src] # <<>> /\ readReq'[w][src] = Tail(readReq[w][src])
      BY <1>4, <2>1 DEF HandleRead, TypeOK, ChannelTypeOK
    <3>2. Head(readReq[w][src]) \in Block
      BY <1>1, <3>1
    <3>3. QED
      BY <1>1, <1>2, <3>1, <3>2, OldOrSent
  <2>2. CASE o # w
    BY <1>2, <1>4, <2>2 DEF HandleRead, TypeOK, ChannelTypeOK
  <2>3. QED
    BY <2>1, <2>2
<1>5. CASE RemoteReadFill(src)
  BY <1>2, <1>5 DEF RemoteReadFill
<1>6. CASE MainStep(src) /\ ~ RemoteReadMiss(src) /\ ~ RemoteReadFill(src)
  BY <1>2, <1>6, OtherMainSteps
<1>7. CASE ~ MainStep(src) /\ \A o \in Worker : ~ HandleRead(o, src)
  BY <1>2, <1>7, ReaderFrame
<1>8. QED
  BY <1>3, <1>4, <1>5, <1>6, <1>7

\* A write request is sent to the process that holds the block.
LEMMA NextWriteRouting ==
  ASSUME TypeOK, NoHandlerThrows, [Next]_vars, NEW w \in Worker, NEW src \in Worker,
         NEW i \in DOMAIN writeReq'[w][src]
  PROVE  IsLocal(w, writeReq'[w][src][i].key)
<1>1. writeReq[w][src] \in Seq(Request)
  BY DEF TypeOK, ChannelTypeOK
<1>2. \A j \in DOMAIN writeReq[w][src] : IsLocal(w, writeReq[w][src][j].key)
  BY DEF NoHandlerThrows
<1>3. ASSUME NEW v \in Worker, RemoteWrite(v) PROVE IsLocal(w, writeReq'[w][src][i].key)
  <2> DEFINE m == [key |-> next[v], data |-> <<v, written[v] + 1>>]
  <2>1. next[v] \in Block
    BY <1>3, NextIsBlock DEF RemoteWrite
  <2>2. m \in Request
    BY <2>1 DEF Request, Data, TypeOK, MainTypeOK
  <2>3. CASE v = src /\ w = ResolveMaintainer(next[v])
    <3>1. writeReq'[w][src] = Append(writeReq[w][src], m)
      BY <1>3, <2>3 DEF RemoteWrite, TypeOK, ChannelTypeOK
    <3>2. IsLocal(w, m.key)
      BY <2>1, <2>3, MaintainersAgree
    <3>3. QED
      BY <1>1, <1>2, <2>2, <3>1, <3>2, OldOrSent
  <2>4. CASE ~ (v = src /\ w = ResolveMaintainer(next[v]))
    <3>1. writeReq'[w][src] = writeReq[w][src]
      BY <1>3, <2>4 DEF RemoteWrite, TypeOK, ChannelTypeOK
    <3>2. QED
      BY <1>2, <3>1
  <2>5. QED
    BY <2>3, <2>4
<1>4. ASSUME NEW o \in Worker, NEW v \in Worker, ReceiveWrite(o, v)
      PROVE  IsLocal(w, writeReq'[w][src][i].key)
  <2>1. CASE o = w /\ v = src
    <3>1. writeReq[w][src] # <<>> /\ writeReq'[w][src] = Tail(writeReq[w][src])
      BY <1>4, <2>1 DEF ReceiveWrite, TypeOK, ChannelTypeOK
    <3>2. Head(writeReq[w][src]) \in Request
      BY <1>1, <3>1
    <3>3. QED
      BY <1>1, <1>2, <3>1, <3>2, OldOrSent
  <2>2. CASE ~ (o = w /\ v = src)
    <3>1. writeReq'[w][src] = writeReq[w][src]
      BY <1>4, <2>2 DEF ReceiveWrite, TypeOK, ChannelTypeOK
    <3>2. QED
      BY <1>2, <3>1
  <2>3. QED
    BY <2>1, <2>2
<1>5. ASSUME NEW v \in Worker, CallLe(v) \/ CallEscreve(v) \/ (Main(v) /\ ~ RemoteWrite(v))
      PROVE  UNCHANGED writeReq
  BY <1>5 DEF CallLe, CallEscreve, Call, Main, LocalRead, RemoteReadHit, RemoteReadMiss,
       RemoteReadFill, LocalWrite, NotifyBroadcaster, NoticeSent, RemoteWriteSent, channelVars
<1>6. ASSUME NEW v \in Worker, ReadListener(v) \/ NotificationListener(v)
               \/ ApplyWrite(v) \/ NotifyWrite(v) \/ NotifyWriteSent(v)
      PROVE  UNCHANGED writeReq
  BY <1>6 DEF ReadListener, HandleRead, NotificationListener, ReceiveInval, InvalidateCache,
       ApplyWrite, NotifyWrite, NotifyWriteSent, channelVars
<1>7. ASSUME Broadcaster \/ UNCHANGED vars PROVE UNCHANGED writeReq
  BY <1>7 DEF Broadcaster, HandleNotify, vars, channelVars
<1>8. QED
  BY <1>2, <1>3, <1>4, <1>5, <1>6, <1>7 DEF Next, WriteListener

\* What the write_listener holds is for a block of its process, and what the
\* notification_listener holds is not.
LEMMA NextHandsRouting ==
  ASSUME TypeOK, NoHandlerThrows, [Next]_vars, NEW w \in Worker
  PROVE  /\ whand'[w] # Null => IsLocal(w, whand'[w].key)
         /\ nkey'[w] # Null => ~ IsLocal(w, nkey'[w])
<1>1. /\ whand[w] # Null => IsLocal(w, whand[w].key)
      /\ nkey[w] # Null => ~ IsLocal(w, nkey[w])
      /\ \A src \in Worker : \A j \in DOMAIN writeReq[w][src] :
           IsLocal(w, writeReq[w][src][j].key)
  BY DEF NoHandlerThrows
<1>2. ASSUME NEW v \in Worker, NEW src \in Worker, ReceiveWrite(v, src)
      PROVE  UNCHANGED nkey /\ (whand'[w] # Null => IsLocal(w, whand'[w].key))
  <2>1. CASE v = w
    <3>1. writeReq[w][src] \in Seq(Request) /\ writeReq[w][src] # <<>>
      BY <1>2, <2>1 DEF ReceiveWrite, TypeOK, ChannelTypeOK
    <3>2. 1 \in DOMAIN writeReq[w][src] /\ Head(writeReq[w][src]) = writeReq[w][src][1]
      BY <3>1, Received
    <3>3. whand'[w] = writeReq[w][src][1]
      BY <1>2, <2>1, <3>2 DEF ReceiveWrite, TypeOK, ListenerTypeOK
    <3>4. QED
      BY <1>1, <1>2, <3>2, <3>3 DEF ReceiveWrite
  <2>2. CASE v # w
    BY <1>1, <1>2, <2>2 DEF ReceiveWrite, TypeOK, ListenerTypeOK
  <2>3. QED
    BY <2>1, <2>2
<1>3. ASSUME NEW v \in Worker, NotifyWrite(v) \/ NotifyWriteSent(v)
      PROVE  UNCHANGED nkey /\ (whand'[w] # Null => IsLocal(w, whand'[w].key))
  BY <1>1, <1>3 DEF NotifyWrite, NotifyWriteSent, TypeOK, ListenerTypeOK
<1>4. ASSUME NEW v \in Worker, NotificationListener(v)
      PROVE  UNCHANGED whand /\ (nkey'[w] # Null => ~ IsLocal(w, nkey'[w]))
  BY <1>1, <1>4 DEF NotificationListener, ReceiveInval, InvalidateCache, TypeOK,
       ListenerTypeOK, writerVars
<1>5. ASSUME NEW v \in Worker, CallLe(v) \/ CallEscreve(v) \/ Main(v)
      PROVE  UNCHANGED <<whand, nkey>>
  BY <1>5 DEF CallLe, CallEscreve, Call, Main, LocalRead, RemoteReadHit, RemoteReadMiss,
       RemoteReadFill, LocalWrite, NotifyBroadcaster, NoticeSent, RemoteWrite,
       RemoteWriteSent, writerVars
<1>6. ASSUME NEW v \in Worker, ReadListener(v) \/ ApplyWrite(v) PROVE UNCHANGED <<whand, nkey>>
  BY <1>6 DEF ReadListener, HandleRead, ApplyWrite, writerVars
<1>7. ASSUME Broadcaster \/ UNCHANGED vars PROVE UNCHANGED <<whand, nkey>>
  BY <1>7 DEF Broadcaster, HandleNotify, vars, writerVars
<1>8. QED
  BY <1>1, <1>2, <1>3, <1>4, <1>5, <1>6, <1>7 DEF Next, WriteListener

\* No handler is ever given a block of the wrong side, so none of them throws, for
\* any number of workers and blocks: the two computations of the maintainer agree
\* (handle_read, handle_write, UnifiedRepositoryFacade::invalidate_cache).
THEOREM HandlersDoNotThrow == Spec => []NoHandlerThrows
<1>1. Init => TypeOK /\ NoHandlerThrows
  BY InitType DEF Init, NoHandlerThrows
<1>2. TypeOK /\ NoHandlerThrows /\ [Next]_vars => TypeOK' /\ NoHandlerThrows'
  <2> SUFFICES ASSUME TypeOK, NoHandlerThrows, [Next]_vars PROVE NoHandlerThrows'
    BY NextType
  <2>1. \A w, src \in Worker :
          /\ \A i \in DOMAIN readReq'[w][src] : IsLocal(w, readReq'[w][src][i])
          /\ \A i \in DOMAIN writeReq'[w][src] : IsLocal(w, writeReq'[w][src][i].key)
    BY NextReadRouting, NextWriteRouting
  <2>2. \A w \in Worker : /\ whand'[w] # Null => IsLocal(w, whand'[w].key)
                          /\ nkey'[w] # Null => ~ IsLocal(w, nkey'[w])
    BY NextHandsRouting
  <2>3. QED
    BY <2>1, <2>2 DEF NoHandlerThrows, IsLocal, MemMap
<1>3. QED
  BY <1>1, <1>2, PTL DEF Spec

=============================================================================
