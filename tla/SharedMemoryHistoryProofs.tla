--------------------- MODULE SharedMemoryHistoryProofs ---------------------
(***************************************************************************)
(* What a caller of escreve and le may rely on, proved: reads do not go    *)
(* back in time, and every step of SharedMemory is one that CoherentMemory *)
(* allows.  For every number of workers and blocks, every bound on the     *)
(* writes and both behaviours of MPI_Send.                                 *)
(***************************************************************************)
EXTENDS SharedMemoryHistory, SharedMemoryProofs

(***************************************************************************)
(* The history constrains nothing                                          *)
(***************************************************************************)

\* Every step with its record is a step of the code.
LEMMA RecordedStep == [HistoryNext]_<<vars, history>> => [Next]_vars
<1> SUFFICES ASSUME HistoryNext PROVE Next
  BY DEF vars
<1>1. ASSUME NEW w \in Worker, Reading(w) \/ WritingLocal(w) \/ WritingRemote(w)
      PROVE  Next
  BY <1>1 DEF Reading, ReadReturns, WritingLocal, WritingRemote, Main, Next
<1>2. ASSUME NEW w \in Worker, Storing(w) PROVE Next
  BY <1>2 DEF Storing, WriteListener, Next
<1>3. ASSUME NEW w \in Worker, Silent(w) PROVE Next
  BY <1>3 DEF Silent, Main, WriteListener, Next
<1>4. QED
  BY <1>1, <1>2, <1>3 DEF HistoryNext, Next

\* The proved invariants of SharedMemory hold of it with its history.
CodeInv == CoherenceInv /\ NoHandlerThrows

LEMMA CodeInvariant == HistorySpec => []CodeInv
<1>1. HistoryInit => Init
  BY DEF HistoryInit
<1>2. HistorySpec => Spec
  BY <1>1, RecordedStep, PTL DEF HistorySpec, Spec
<1>3. QED
  BY <1>2, CoherenceInvariant, HandlersDoNotThrow, PTL DEF CodeInv

(***************************************************************************)
(* What each kind of step does                                             *)
(***************************************************************************)

\* An assignment to one entry of a table, and what it leaves.
LEMMA Entry ==
  ASSUME NEW R, NEW S, NEW T, NEW f \in [R -> [S -> T]],
         NEW x \in R, NEW y \in S, NEW e \in T, NEW g, g = [f EXCEPT ![x][y] = e]
  PROVE  /\ g \in [R -> [S -> T]]
         /\ \A r \in R, t \in S : g[r][t] = IF r = x /\ t = y THEN e ELSE f[r][t]
  OBVIOUS

\* A main thread in a write is at a block, and its next write has the next number.
LEMMA WriterType ==
  ASSUME TypeOK, NEW v \in Worker, pc[v] = "writing"
  PROVE  /\ next[v] \in Block /\ written[v] \in Nat
         /\ <<v, written[v] + 1>> \in Data
         /\ ResolveMaintainer(next[v]) \in Worker
         /\ [key |-> next[v], data |-> <<v, written[v] + 1>>] \in Request
<1>1. next[v] \in Block
  BY NextIsBlock
<1>2. written[v] \in Nat
  BY DEF TypeOK, MainTypeOK
<1>3. QED
  BY <1>1, <1>2, MaintainerIsWorker DEF Data, Request

\* A write of a block of one's own is issued and stored.
LEMMA LocalWriteStep ==
  ASSUME TypeOK, HistoryTypeOK, NEW v \in Worker, WritingLocal(v)
  PROVE  LET d == <<v, written[v] + 1>>
         IN  /\ next[v] \in Block /\ IsLocal(v, next[v]) /\ d \in Data /\ written[v] \in Nat
             /\ written' \in [Worker -> Nat]
             /\ \A w \in Worker : written'[w] = IF w = v THEN written[v] + 1 ELSE written[w]
             /\ issued' \in [Worker -> [Block -> Seq(Data)]]
             /\ stored' \in [Worker -> [Block -> Nat]]
             /\ \A w \in Worker, b \in Block :
                  /\ issued'[w][b] = IF w = v /\ b = next[v] THEN Append(issued[w][b], d)
                                                            ELSE issued[w][b]
                  /\ stored'[w][b] = IF w = v /\ b = next[v] THEN stored[w][b] + 1
                                                            ELSE stored[w][b]
             /\ log' \in [Block -> Seq(Data)]
             /\ \A b \in Block :
                  /\ log'[b] = IF b = next[v] THEN Append(log[b], d) ELSE log[b]
                  /\ local'[b] = IF b = next[v] THEN d ELSE local[b]
             /\ UNCHANGED <<writeReq, wpc, whand, cache, readResp, next, seen>>
<1> DEFINE d == <<v, written[v] + 1>>
<1>1. pc[v] = "writing" /\ IsLocal(v, next[v])
  BY DEF WritingLocal, LocalWrite
<1>2. next[v] \in Block /\ d \in Data /\ written[v] \in Nat
  BY <1>1, WriterType
<1>3. /\ written \in [Worker -> Nat] /\ local \in [Block -> Data]
      /\ issued \in [Worker -> [Block -> Seq(Data)]]
      /\ stored \in [Worker -> [Block -> Nat]]
      /\ log \in [Block -> Seq(Data)]
  BY DEF TypeOK, MainTypeOK, MemoryTypeOK, HistoryTypeOK
<1>4. /\ local' = [local EXCEPT ![next[v]] = d]
      /\ written' = [written EXCEPT ![v] = written[v] + 1]
      /\ UNCHANGED <<writeReq, wpc, whand, cache, readResp, next>>
  BY DEF WritingLocal, LocalWrite, writerVars, channelVars
<1>5. written'[v] = written[v] + 1 /\ local'[next[v]] = d
  BY <1>2, <1>3, <1>4
<1>6. /\ issued' = [issued EXCEPT ![v][next[v]] = Append(@, d)]
      /\ stored' = [stored EXCEPT ![v][next[v]] = @ + 1]
      /\ log'    = [log EXCEPT ![next[v]] = Append(@, d)]
      /\ UNCHANGED seen
  BY <1>5 DEF WritingLocal
<1>7. /\ written' \in [Worker -> Nat]
      /\ \A w \in Worker : written'[w] = IF w = v THEN written[v] + 1 ELSE written[w]
  BY <1>2, <1>3, <1>4
<1>8. /\ issued' \in [Worker -> [Block -> Seq(Data)]]
      /\ \A w \in Worker, b \in Block :
           issued'[w][b] = IF w = v /\ b = next[v] THEN Append(issued[w][b], d) ELSE issued[w][b]
  <2>1. issued[v][next[v]] \in Seq(Data)
    BY <1>2, <1>3
  <2>2. Append(issued[v][next[v]], d) \in Seq(Data)
    BY <1>2, <2>1
  <2>3. issued' = [issued EXCEPT ![v][next[v]] = Append(issued[v][next[v]], d)]
    BY <1>2, <1>3, <1>6
  <2>4. QED
    BY <1>2, <1>3, <2>2, <2>3, Entry
<1>9. /\ stored' \in [Worker -> [Block -> Nat]]
      /\ \A w \in Worker, b \in Block :
           stored'[w][b] = IF w = v /\ b = next[v] THEN stored[w][b] + 1 ELSE stored[w][b]
  <2>1. stored' = [stored EXCEPT ![v][next[v]] = stored[v][next[v]] + 1]
    BY <1>2, <1>3, <1>6
  <2>2. stored[v][next[v]] + 1 \in Nat
    BY <1>2, <1>3
  <2>3. QED
    BY <1>2, <1>3, <2>1, <2>2, Entry
<1>10. /\ log' \in [Block -> Seq(Data)]
       /\ \A b \in Block : log'[b] = IF b = next[v] THEN Append(log[b], d) ELSE log[b]
  BY <1>2, <1>3, <1>6, ChannelStep
<1>11. \A b \in Block : local'[b] = IF b = next[v] THEN d ELSE local[b]
  BY <1>2, <1>3, <1>4
<1>12. QED
  BY <1>1, <1>2, <1>4, <1>6, <1>7, <1>8, <1>9, <1>10, <1>11, Zenon

\* A write of any other block is issued ...
LEMMA RemoteWriteIssues ==
  ASSUME TypeOK, HistoryTypeOK, NEW v \in Worker, WritingRemote(v)
  PROVE  /\ next[v] \in Block /\ ~ IsLocal(v, next[v])
         /\ <<v, written[v] + 1>> \in Data /\ written[v] \in Nat
         /\ written' \in [Worker -> Nat]
         /\ \A w \in Worker : written'[w] = IF w = v THEN written[v] + 1 ELSE written[w]
         /\ issued' \in [Worker -> [Block -> Seq(Data)]]
         /\ \A w \in Worker, b \in Block :
              issued'[w][b] = IF w = v /\ b = next[v]
                              THEN Append(issued[w][b], <<v, written[v] + 1>>)
                              ELSE issued[w][b]
         /\ stored' = stored
<1> DEFINE b0 == next[v]
           d  == <<v, written[v] + 1>>
<1>1. pc[v] = "writing" /\ ~ IsLocal(v, b0)
  BY DEF WritingRemote, RemoteWrite
<1>2. b0 \in Block /\ d \in Data /\ written[v] \in Nat
  BY <1>1, WriterType
<1>3. written \in [Worker -> Nat] /\ issued \in [Worker -> [Block -> Seq(Data)]]
  BY DEF TypeOK, MainTypeOK, HistoryTypeOK
<1>4. written' = [written EXCEPT ![v] = written[v] + 1]
  BY DEF WritingRemote, RemoteWrite
<1>5. written'[v] = written[v] + 1
  BY <1>2, <1>3, <1>4
<1>6. issued' = [issued EXCEPT ![v][b0] = Append(@, d)] /\ stored' = stored
  BY <1>5 DEF WritingRemote
<1>7. /\ written' \in [Worker -> Nat]
      /\ \A w \in Worker : written'[w] = IF w = v THEN written[v] + 1 ELSE written[w]
  BY <1>2, <1>3, <1>4
<1>8. /\ issued' \in [Worker -> [Block -> Seq(Data)]]
      /\ \A w \in Worker, b \in Block :
           issued'[w][b] = IF w = v /\ b = b0 THEN Append(issued[w][b], d) ELSE issued[w][b]
  <2>1. issued[v][b0] \in Seq(Data)
    BY <1>2, <1>3
  <2>2. Append(issued[v][b0], d) \in Seq(Data)
    BY <1>2, <2>1
  <2>3. issued' = [issued EXCEPT ![v][b0] = Append(issued[v][b0], d)]
    BY <1>2, <1>3, <1>6
  <2>4. QED
    BY <1>2, <1>3, <2>2, <2>3, Entry
<1>9. QED
  BY <1>1, <1>2, <1>6, <1>7, <1>8, Zenon

\* ... and its request is sent to the maintainer.
LEMMA RemoteWriteSends ==
  ASSUME TypeOK, NEW v \in Worker, WritingRemote(v)
  PROVE  LET m == [key |-> next[v], data |-> <<v, written[v] + 1>>]
         IN  /\ m \in Request
             /\ ResolveMaintainer(next[v]) \in Worker
             /\ \A o, w \in Worker :
                  writeReq'[o][w] = IF o = ResolveMaintainer(next[v]) /\ w = v
                                    THEN Append(writeReq[o][w], m) ELSE writeReq[o][w]
             /\ wpc' = wpc /\ whand' = whand
             /\ log' = log /\ local' = local
             /\ seen' = seen /\ cache' = cache /\ readResp' = readResp
<1> DEFINE b0 == next[v]
           o0 == ResolveMaintainer(b0)
           m  == [key |-> b0, data |-> <<v, written[v] + 1>>]
<1>1. pc[v] = "writing"
  BY DEF WritingRemote, RemoteWrite
<1>2. b0 \in Block /\ o0 \in Worker /\ m \in Request
  BY <1>1, WriterType
<1>3. writeReq \in [Worker -> [Worker -> Seq(Request)]]
  BY DEF TypeOK, ChannelTypeOK
<1>4. /\ writeReq' = [writeReq EXCEPT ![o0][v] = Append(@, m)]
      /\ wpc' = wpc /\ whand' = whand /\ log' = log /\ local' = local
      /\ seen' = seen /\ cache' = cache /\ readResp' = readResp
  BY DEF WritingRemote, RemoteWrite, writerVars
<1>5. \A o, w \in Worker :
        writeReq'[o][w] = IF o = o0 /\ w = v THEN Append(writeReq[o][w], m) ELSE writeReq[o][w]
  <2>1. writeReq[o0][v] \in Seq(Request)
    BY <1>2, <1>3
  <2>2. Append(writeReq[o0][v], m) \in Seq(Request)
    BY <1>2, <2>1
  <2>3. writeReq' = [writeReq EXCEPT ![o0][v] = Append(writeReq[o0][v], m)]
    BY <1>2, <1>3, <1>4
  <2>4. QED
    BY <1>2, <1>3, <2>2, <2>3, Entry
<1>6. QED
  BY <1>2, <1>4, <1>5, Zenon

\* The write that a write_listener holds is stored.
LEMMA StoreStep ==
  ASSUME TypeOK, HistoryTypeOK, NoHandlerThrows, NEW v \in Worker, Storing(v)
  PROVE  LET b0 == whand[v].key
             d  == whand[v].data
         IN  /\ wpc[v] = "apply" /\ whand[v] \in Request /\ b0 \in Block
             /\ d \in Data /\ d[1] \in Worker /\ d[2] \in Nat /\ d = <<d[1], d[2]>>
             /\ v = ResolveMaintainer(b0) /\ IsLocal(v, b0)
             /\ stored' \in [Worker -> [Block -> Nat]]
             /\ \A w \in Worker, b \in Block :
                  stored'[w][b] = IF w = d[1] /\ b = b0 THEN stored[w][b] + 1 ELSE stored[w][b]
             /\ log' \in [Block -> Seq(Data)]
             /\ \A b \in Block :
                  /\ log'[b] = IF b = b0 THEN Append(log[b], d) ELSE log[b]
                  /\ local'[b] = IF b = b0 THEN d ELSE local[b]
             /\ \A o \in Worker : wpc'[o] = IF o = v THEN "notify" ELSE wpc[o]
             /\ UNCHANGED <<issued, seen, written, writeReq, whand, cache, readResp, next>>
<1> DEFINE b0 == whand[v].key
           d  == whand[v].data
<1>1. wpc[v] = "apply" /\ IsLocal(v, b0)
  BY DEF Storing, ApplyWrite
<1>2. whand[v] \in Request
  BY <1>1 DEF TypeOK, ListenerTypeOK
<1>3. b0 \in Block /\ d \in Data
  BY <1>2 DEF Request
<1>4. d[1] \in Worker /\ d[2] \in Nat /\ d = <<d[1], d[2]>>
  BY <1>3 DEF Data
<1>5. v = ResolveMaintainer(b0)
  BY <1>1, <1>3, MaintainersAgree
<1>6. /\ local \in [Block -> Data] /\ wpc \in [Worker -> {"probe", "apply", "notify", "sending"}]
      /\ stored \in [Worker -> [Block -> Nat]]
      /\ log \in [Block -> Seq(Data)]
  BY DEF TypeOK, ListenerTypeOK, MemoryTypeOK, HistoryTypeOK
<1>7. /\ local' = [local EXCEPT ![b0] = d]
      /\ wpc' = [wpc EXCEPT ![v] = "notify"]
      /\ stored' = [stored EXCEPT ![d[1]][b0] = @ + 1]
      /\ log' = [log EXCEPT ![b0] = Append(@, d)]
      /\ UNCHANGED <<issued, seen, written, writeReq, whand, cache, readResp, next>>
  BY DEF Storing, ApplyWrite, mainVars, channelVars
<1>8. /\ stored' \in [Worker -> [Block -> Nat]]
      /\ \A w \in Worker, b \in Block :
           stored'[w][b] = IF w = d[1] /\ b = b0 THEN stored[w][b] + 1 ELSE stored[w][b]
  <2> DEFINE u == d[1]
  <2>1. u \in Worker
    BY <1>4
  <2> HIDE DEF u
  <2>2. stored' = [stored EXCEPT ![u][b0] = stored[u][b0] + 1]
    BY <1>3, <1>6, <1>7, <2>1 DEF u
  <2>3. stored[u][b0] + 1 \in Nat
    BY <1>3, <1>6, <2>1
  <2>4. /\ stored' \in [Worker -> [Block -> Nat]]
        /\ \A w \in Worker, b \in Block :
             stored'[w][b] = IF w = u /\ b = b0 THEN stored[u][b0] + 1 ELSE stored[w][b]
    BY <1>3, <1>6, <2>1, <2>2, <2>3, Entry
  <2>5. QED
    BY <2>4 DEF u
<1>9. /\ log' \in [Block -> Seq(Data)]
      /\ \A b \in Block : log'[b] = IF b = b0 THEN Append(log[b], d) ELSE log[b]
  BY <1>3, <1>6, <1>7, ChannelStep
<1>10. \A b \in Block : local'[b] = IF b = b0 THEN d ELSE local[b]
  BY <1>3, <1>6, <1>7
<1>11. \A o \in Worker : wpc'[o] = IF o = v THEN "notify" ELSE wpc[o]
  BY <1>6, <1>7
<1>12. QED
  BY <1>1, <1>2, <1>3, <1>4, <1>5, <1>7, <1>8, <1>9, <1>10, <1>11, Zenon

\* A request is received: its place is in the hands of the write_listener.
LEMMA ReceiveStep ==
  ASSUME TypeOK, NEW v \in Worker, NEW src \in Worker, ReceiveWrite(v, src)
  PROVE  /\ wpc[v] = "probe" /\ writeReq[v][src] # <<>>
         /\ Head(writeReq[v][src]) \in Request
         /\ \A o \in Worker :
              /\ wpc'[o] = IF o = v THEN "apply" ELSE wpc[o]
              /\ whand'[o] = IF o = v THEN Head(writeReq[v][src]) ELSE whand[o]
         /\ \A o, w \in Worker :
              writeReq'[o][w] = IF o = v /\ w = src THEN Tail(writeReq[v][src])
                                                    ELSE writeReq[o][w]
         /\ UNCHANGED <<written, local, cache, readResp, next>>
<1>1. /\ wpc \in [Worker -> {"probe", "apply", "notify", "sending"}]
      /\ whand \in [Worker -> Request \cup {Null}]
      /\ writeReq \in [Worker -> [Worker -> Seq(Request)]]
  BY DEF TypeOK, ListenerTypeOK, ChannelTypeOK
<1>2. wpc[v] = "probe" /\ writeReq[v][src] # <<>> /\ writeReq[v][src] \in Seq(Request)
  BY <1>1 DEF ReceiveWrite
<1>3. Head(writeReq[v][src]) \in Request /\ Tail(writeReq[v][src]) \in Seq(Request)
  BY <1>2, Received
<1>4. /\ whand' = [whand EXCEPT ![v] = Head(writeReq[v][src])]
      /\ writeReq' = [writeReq EXCEPT ![v][src] = Tail(writeReq[v][src])]
      /\ wpc' = [wpc EXCEPT ![v] = "apply"]
      /\ UNCHANGED <<written, local, cache, readResp, next>>
  BY <1>1 DEF ReceiveWrite, mainVars
<1>5. \A o, w \in Worker :
        writeReq'[o][w] = IF o = v /\ w = src THEN Tail(writeReq[v][src]) ELSE writeReq[o][w]
  BY <1>1, <1>3, <1>4, Entry
<1>6. \A o \in Worker :
        /\ wpc'[o] = IF o = v THEN "apply" ELSE wpc[o]
        /\ whand'[o] = IF o = v THEN Head(writeReq[v][src]) ELSE whand[o]
  BY <1>1, <1>4
<1>7. QED
  BY <1>2, <1>3, <1>4, <1>5, <1>6, Zenon

\* No write is issued, sent, received or stored.
NoWriteMoves ==
  /\ UNCHANGED <<issued, stored, log, written, writeReq, local>>
  /\ \A o \in Worker : /\ wpc'[o] = "apply" <=> wpc[o] = "apply"
                       /\ wpc[o] = "apply" => whand'[o] = whand[o]

\* The kinds of steps, as far as writes are concerned.
LEMMA StepKinds ==
  ASSUME TypeOK, [HistoryNext]_<<vars, history>>
  PROVE  \/ \E v \in Worker : WritingLocal(v)
         \/ \E v \in Worker : WritingRemote(v)
         \/ \E v \in Worker : Storing(v)
         \/ \E v, src \in Worker : ReceiveWrite(v, src) /\ UNCHANGED history
         \/ NoWriteMoves
<1> USE DEF NoWriteMoves
<1>1. ASSUME NEW v \in Worker, Reading(v) PROVE NoWriteMoves
  BY <1>1 DEF Reading, ReadReturns, LocalRead, RemoteReadHit, RemoteReadFill, writerVars,
              channelVars
<1>2. ASSUME NEW v \in Worker, CallLe(v) \/ CallEscreve(v), UNCHANGED history PROVE NoWriteMoves
  BY <1>2 DEF CallLe, CallEscreve, Call, writerVars, channelVars, history
<1>3. ASSUME NEW v \in Worker, UNCHANGED history,
             RemoteReadMiss(v) \/ NotifyBroadcaster(v) \/ NoticeSent(v) \/ RemoteWriteSent(v)
      PROVE  NoWriteMoves
  BY <1>3 DEF RemoteReadMiss, NotifyBroadcaster, NoticeSent, RemoteWriteSent, writerVars,
              channelVars, history
<1>4. ASSUME NEW v \in Worker, ReadListener(v) \/ NotificationListener(v), UNCHANGED history
      PROVE  NoWriteMoves
  BY <1>4 DEF ReadListener, HandleRead, NotificationListener, ReceiveInval, InvalidateCache,
              mainVars, writerVars, channelVars, history
<1>5. ASSUME NEW v \in Worker, NotifyWrite(v) \/ NotifyWriteSent(v), UNCHANGED history
      PROVE  NoWriteMoves
  BY <1>5 DEF NotifyWrite, NotifyWriteSent, mainVars, channelVars, history, TypeOK, ListenerTypeOK
<1>6. ASSUME Broadcaster, UNCHANGED history PROVE NoWriteMoves
  BY <1>6 DEF Broadcaster, HandleNotify, mainVars, writerVars, history
<1>7. ASSUME UNCHANGED <<vars, history>> PROVE NoWriteMoves
  BY <1>7 DEF vars, mainVars, writerVars, channelVars, history
<1> HIDE DEF NoWriteMoves
<1>8. QED
  BY <1>1, <1>2, <1>3, <1>4, <1>5, <1>6, <1>7 DEF HistoryNext, Silent

(***************************************************************************)
(* Writes: issued, in flight, stored                                       *)
(***************************************************************************)

\* The entries of a sequence of writes are writes.
LEMMA IssuedEntry ==
  ASSUME HistoryTypeOK, NEW w \in Worker, NEW b \in Block
  PROVE  /\ issued[w][b] \in Seq(Data) /\ Len(issued[w][b]) \in Nat
         /\ DOMAIN issued[w][b] = 1 .. Len(issued[w][b])
         /\ stored[w][b] \in Nat
         /\ \A i \in DOMAIN issued[w][b] :
              /\ issued[w][b][i] = <<issued[w][b][i][1], issued[w][b][i][2]>>
              /\ issued[w][b][i][2] \in Nat
<1>1. issued[w][b] \in Seq(Data) /\ stored[w][b] \in Nat
  BY DEF HistoryTypeOK
<1>2. Len(issued[w][b]) \in Nat /\ DOMAIN issued[w][b] = 1 .. Len(issued[w][b])
  BY <1>1
<1>3. \A i \in DOMAIN issued[w][b] : issued[w][b][i] \in Worker \X Nat
  BY <1>1 DEF Data
<1>4. QED
  BY <1>1, <1>2, <1>3

\* A write in the hands of a write_listener is the oldest of its caller that is not
\* stored, and not of this process: a channel keeps the order of the calls.
LEMMA InTurn ==
  ASSUME TypeOK, HistoryTypeOK, IssuedInOrder, RequestsInOrder, PendingIsInFlight,
         NEW o \in Worker, wpc[o] = "apply",
         NEW u \in Worker, NEW b \in Block, NEW n \in 1 .. written[u],
         o = ResolveMaintainer(b), whand[o] = [key |-> b, data |-> <<u, n>>]
  PROVE  /\ stored[u][b] + 1 \in DOMAIN issued[u][b]
         /\ issued[u][b][stored[u][b] + 1] = <<u, n>>
         /\ ~ IsLocal(u, b)
<1> DEFINE s == issued[u][b]
           c == stored[u][b]
<1>1. /\ DOMAIN s = 1 .. Len(s) /\ Len(s) \in Nat /\ c \in Nat /\ n \in Nat
      /\ \A i \in DOMAIN s : s[i] = <<s[i][1], s[i][2]>> /\ s[i][2] \in Nat
  BY IssuedEntry DEF TypeOK, MainTypeOK
<1>2. /\ IsLocal(u, b) => c = Len(s)
      /\ \A i \in DOMAIN s : /\ s[i][1] = u /\ s[i][2] \in 1 .. written[u]
                             /\ \A j \in DOMAIN s : i < j => s[i][2] < s[j][2]
  BY DEF IssuedInOrder
<1>3. \A k \in 1 .. written[u] : (\E i \in c + 1 .. Len(s) : s[i] = <<u, k>>) <=> InFlight(u, b, k)
  BY DEF PendingIsInFlight, Pending
<1>4. \A x \in DOMAIN writeReq[o][u] : n < writeReq[o][u][x].data[2]
  BY DEF RequestsInOrder
<1>5. InFlight(u, b, n)
  BY DEF InFlight
<1> HIDE DEF s, c
<1>6. PICK i \in c + 1 .. Len(s) : s[i] = <<u, n>>
  BY <1>3, <1>5
<1>7. i \in DOMAIN s /\ c + 1 \in DOMAIN s /\ c + 1 \in c + 1 .. Len(s) /\ c + 1 <= i /\ i \in Nat
  BY <1>1, <1>6
<1>8. ASSUME c + 1 # i PROVE FALSE
  <2> DEFINE k == s[c + 1][2]
  <2>1. s[c + 1] = <<u, k>> /\ k \in 1 .. written[u] /\ k \in Nat
    BY <1>1, <1>2, <1>7
  <2>2. k < n
    BY <1>1, <1>2, <1>6, <1>7, <1>8
  <2> HIDE DEF k
  <2>3. InFlight(u, b, k)
    BY <1>3, <1>7, <2>1
  <2>4. \/ \E x \in DOMAIN writeReq[o][u] : writeReq[o][u][x].data = <<u, k>>
        \/ <<u, n>> = <<u, k>>
    BY <2>3 DEF InFlight
  <2>5. QED
    BY <1>1, <1>4, <2>1, <2>2, <2>4
<1>9. QED
  BY <1>1, <1>2, <1>6, <1>7, <1>8 DEF s, c

\* So it is of what the listener stores.
LEMMA StoredInTurn ==
  ASSUME TypeOK, HistoryTypeOK, NoHandlerThrows, IssuedInOrder, RequestsInOrder,
         PendingIsInFlight, NEW v \in Worker, Storing(v)
  PROVE  LET b == whand[v].key
             d == whand[v].data
             u == d[1]
         IN  /\ b \in Block /\ u \in Worker /\ d[2] \in 1 .. written[u]
             /\ stored[u][b] + 1 \in DOMAIN issued[u][b]
             /\ issued[u][b][stored[u][b] + 1] = d
             /\ ~ IsLocal(u, b)
<1> DEFINE b == whand[v].key
           d == whand[v].data
           u == d[1]
           n == d[2]
<1>1. /\ wpc[v] = "apply" /\ whand[v] \in Request /\ b \in Block /\ d \in Data
      /\ u \in Worker /\ d = <<u, n>> /\ v = ResolveMaintainer(b)
  BY StoreStep
<1>2. whand[v] = [key |-> b, data |-> d]
  BY <1>1 DEF Request
<1>3. n \in 1 .. written[u]
  BY <1>1 DEF RequestsInOrder
<1> HIDE DEF b, d, u, n
<1>4. /\ stored[u][b] + 1 \in DOMAIN issued[u][b]
      /\ issued[u][b][stored[u][b] + 1] = <<u, n>>
      /\ ~ IsLocal(u, b)
  BY <1>1, <1>2, <1>3, InTurn
<1>5. QED
  BY <1>1, <1>3, <1>4 DEF b, d, u, n

\* Writes of w with rising numbers up to last.
Rising(s, w, last) ==
  \A i \in DOMAIN s :
    /\ s[i][1] = w
    /\ s[i][2] \in 1 .. last
    /\ \A j \in DOMAIN s : i < j => s[i][2] < s[j][2]

\* The next write has the next number.
LEMMA RisingOn ==
  ASSUME NEW w \in Worker, NEW last \in Nat, NEW s \in Seq(Data), Rising(s, w, last)
  PROVE  /\ Rising(Append(s, <<w, last + 1>>), w, last + 1)
         /\ Len(Append(s, <<w, last + 1>>)) = Len(s) + 1
<1> DEFINE e == <<w, last + 1>>
           t == Append(s, e)
<1>1. e \in Data /\ e[1] = w /\ e[2] = last + 1
  BY DEF Data
<1>2. /\ DOMAIN t = 1 .. Len(s) + 1 /\ Len(t) = Len(s) + 1 /\ t[Len(s) + 1] = e
      /\ DOMAIN s = 1 .. Len(s) /\ Len(s) \in Nat
      /\ \A i \in 1 .. Len(s) : t[i] = s[i]
  BY <1>1, Sent
<1> HIDE DEF e, t
<1>3. \A i \in 1 .. Len(s) : s[i][1] = w /\ s[i][2] \in 1 .. last
  BY <1>2 DEF Rising
<1>4. \A i, k \in 1 .. Len(s) : i < k => s[i][2] < s[k][2]
  BY <1>2 DEF Rising
<1>5. \A i \in DOMAIN t : i \in 1 .. Len(s) \/ i = Len(s) + 1
  BY <1>2
<1>6. \A i \in DOMAIN t : t[i][1] = w /\ t[i][2] \in 1 .. last + 1
  BY <1>1, <1>2, <1>3, <1>5
<1>7. \A i, k \in DOMAIN t : i < k => t[i][2] < t[k][2]
  BY <1>1, <1>2, <1>3, <1>4, <1>5
<1>8. QED
  BY <1>2, <1>6, <1>7 DEF e, t, Rising

\* The numbering of the writes is kept by every step.
LEMMA NextIssuedInOrder ==
  ASSUME TypeOK, HistoryTypeOK, NoHandlerThrows, IssuedInOrder, RequestsInOrder,
         PendingIsInFlight, [HistoryNext]_<<vars, history>>
  PROVE  IssuedInOrder'
<1> DEFINE Good(w, b) == /\ stored'[w][b] <= Len(issued'[w][b])
                         /\ IsLocal(w, b) => stored'[w][b] = Len(issued'[w][b])
                         /\ Rising(issued'[w][b], w, written'[w])
<1> SUFFICES ASSUME NEW w \in Worker, NEW b \in Block PROVE Good(w, b)
  BY DEF IssuedInOrder, Rising, IsLocal, MemMap
<1>1. /\ stored[w][b] <= Len(issued[w][b])
      /\ IsLocal(w, b) => stored[w][b] = Len(issued[w][b])
      /\ Rising(issued[w][b], w, written[w])
  BY DEF IssuedInOrder, Rising
<1>2. /\ issued[w][b] \in Seq(Data) /\ Len(issued[w][b]) \in Nat /\ stored[w][b] \in Nat
      /\ DOMAIN issued[w][b] = 1 .. Len(issued[w][b])
      /\ written[w] \in Nat
  BY IssuedEntry DEF TypeOK, MainTypeOK
<1>3. ASSUME issued'[w][b] = issued[w][b], stored'[w][b] = stored[w][b],
             written'[w] \in {written[w], written[w] + 1}
      PROVE  Good(w, b)
  <2>1. Rising(issued[w][b], w, written'[w])
    BY <1>1, <1>2, <1>3 DEF Rising
  <2>2. QED
    BY <1>1, <1>3, <2>1
<1>4. ASSUME issued'[w][b] = Append(issued[w][b], <<w, written[w] + 1>>),
             written'[w] = written[w] + 1,
             stored'[w][b] = stored[w][b] + 1 \/ (~ IsLocal(w, b) /\ stored'[w][b] = stored[w][b])
      PROVE  Good(w, b)
  <2>1. Rising(issued'[w][b], w, written'[w]) /\ Len(issued'[w][b]) = Len(issued[w][b]) + 1
    BY <1>1, <1>2, <1>4, RisingOn
  <2>2. QED
    BY <1>1, <1>2, <1>4, <2>1
<1> HIDE DEF Good
<1>5. ASSUME NEW v \in Worker, WritingLocal(v) PROVE Good(w, b)
  <2>1. CASE w = v /\ b = next[v]
    BY <1>4, <1>5, <2>1, LocalWriteStep
  <2>2. CASE ~ (w = v /\ b = next[v])
    <3>1. /\ issued'[w][b] = IF w = v /\ b = next[v]
                             THEN Append(issued[w][b], <<v, written[v] + 1>>) ELSE issued[w][b]
          /\ stored'[w][b] = IF w = v /\ b = next[v] THEN stored[w][b] + 1 ELSE stored[w][b]
          /\ written'[w] = IF w = v THEN written[v] + 1 ELSE written[w]
      BY <1>5, LocalWriteStep
    <3>2. issued'[w][b] = issued[w][b] /\ stored'[w][b] = stored[w][b]
      BY <2>2, <3>1, Zenon
    <3>3. written'[w] \in {written[w], written[w] + 1}
      BY <3>1
    <3>4. QED
      BY <1>3, <3>2, <3>3
  <2>3. QED
    BY <2>1, <2>2
<1>6. ASSUME NEW v \in Worker, WritingRemote(v) PROVE Good(w, b)
  <2>1. CASE w = v /\ b = next[v]
    BY <1>4, <1>6, <2>1, RemoteWriteIssues
  <2>2. CASE ~ (w = v /\ b = next[v])
    <3>1. /\ issued'[w][b] = IF w = v /\ b = next[v]
                             THEN Append(issued[w][b], <<v, written[v] + 1>>) ELSE issued[w][b]
          /\ written'[w] = IF w = v THEN written[v] + 1 ELSE written[w]
          /\ stored' = stored
      BY <1>6, RemoteWriteIssues
    <3>2. issued'[w][b] = issued[w][b] /\ stored'[w][b] = stored[w][b]
      BY <2>2, <3>1, Zenon
    <3>3. written'[w] \in {written[w], written[w] + 1}
      BY <3>1
    <3>4. QED
      BY <1>3, <3>2, <3>3
  <2>3. QED
    BY <2>1, <2>2
<1>7. ASSUME NEW v \in Worker, Storing(v) PROVE Good(w, b)
  <2>1. UNCHANGED <<issued, written>>
    BY <1>7, StoreStep
  <2>2. CASE w = whand[v].data[1] /\ b = whand[v].key
    <3>1. stored[w][b] + 1 \in DOMAIN issued[w][b] /\ ~ IsLocal(w, b)
      BY <1>7, <2>2, StoredInTurn
    <3>2. stored'[w][b] = stored[w][b] + 1
      BY <1>7, <2>2, StoreStep
    <3>3. QED
      BY <1>1, <1>2, <2>1, <3>1, <3>2 DEF Good
  <2>3. CASE ~ (w = whand[v].data[1] /\ b = whand[v].key)
    BY <1>3, <1>7, <2>1, <2>3, StoreStep
  <2>4. QED
    BY <2>2, <2>3
<1>8. CASE UNCHANGED <<issued, stored, written>>
  BY <1>3, <1>8
<1>9. ASSUME NEW v \in Worker, NEW src \in Worker, ReceiveWrite(v, src), UNCHANGED history
      PROVE  Good(w, b)
  BY <1>8, <1>9, ReceiveStep DEF history
<1>10. QED
  BY <1>5, <1>6, <1>7, <1>8, <1>9, StepKinds DEF NoWriteMoves

\* Requests of w with rising numbers up to last.
RisingRequests(q, w, last) ==
  \A i \in DOMAIN q :
    /\ q[i].data[1] = w
    /\ q[i].data[2] \in 1 .. last
    /\ \A j \in DOMAIN q : i < j => q[i].data[2] < q[j].data[2]

\* The next request has the next number ...
LEMMA RequestSent ==
  ASSUME NEW w \in Worker, NEW last \in Nat, NEW q \in Seq(Request), NEW m \in Request,
         m.data = <<w, last + 1>>, RisingRequests(q, w, last)
  PROVE  RisingRequests(Append(q, m), w, last + 1)
<1> DEFINE t == Append(q, m)
<1>1. /\ DOMAIN t = 1 .. Len(q) + 1 /\ t[Len(q) + 1] = m
      /\ DOMAIN q = 1 .. Len(q) /\ Len(q) \in Nat
      /\ \A i \in 1 .. Len(q) : t[i] = q[i]
  BY Sent
<1>2. m.data[1] = w /\ m.data[2] = last + 1
  OBVIOUS
<1> HIDE DEF t
<1>3. \A i \in 1 .. Len(q) : q[i].data[1] = w /\ q[i].data[2] \in 1 .. last
  BY <1>1 DEF RisingRequests
<1>4. \A i, k \in 1 .. Len(q) : i < k => q[i].data[2] < q[k].data[2]
  BY <1>1 DEF RisingRequests
<1>5. \A i \in DOMAIN t : i \in 1 .. Len(q) \/ i = Len(q) + 1
  BY <1>1
<1>6. \A i \in DOMAIN t : t[i].data[1] = w /\ t[i].data[2] \in 1 .. last + 1
  BY <1>1, <1>2, <1>3, <1>5
<1>7. \A i, k \in DOMAIN t : i < k => t[i].data[2] < t[k].data[2]
  BY <1>1, <1>2, <1>3, <1>4, <1>5
<1>8. QED
  BY <1>6, <1>7 DEF t, RisingRequests

\* ... and one that is received is earlier than those that stay.
LEMMA RequestTaken ==
  ASSUME NEW w \in Worker, NEW last \in Nat, NEW q \in Seq(Request), q # <<>>,
         RisingRequests(q, w, last)
  PROVE  /\ RisingRequests(Tail(q), w, last)
         /\ Head(q).data[1] = w /\ Head(q).data[2] \in 1 .. last
         /\ \A i \in DOMAIN Tail(q) : Head(q).data[2] < Tail(q)[i].data[2]
<1> DEFINE t == Tail(q)
<1>1. /\ Head(q) = q[1] /\ 1 \in DOMAIN q /\ DOMAIN q = 1 .. Len(q) /\ Len(q) \in Nat
      /\ DOMAIN t = 1 .. Len(q) - 1 /\ \A i \in DOMAIN t : t[i] = q[i + 1]
  BY Received
<1>2. \A i \in DOMAIN t : i + 1 \in DOMAIN q /\ i \in Nat /\ 1 < i + 1
  BY <1>1
<1> HIDE DEF t
<1>3. \A i \in DOMAIN q : /\ q[i].data[1] = w /\ q[i].data[2] \in 1 .. last
                          /\ \A j \in DOMAIN q : i < j => q[i].data[2] < q[j].data[2]
  BY DEF RisingRequests
<1>4. RisingRequests(t, w, last)
  BY <1>1, <1>2, <1>3 DEF RisingRequests
<1>5. QED
  BY <1>1, <1>2, <1>3, <1>4 DEF t

\* The order of the requests is kept by every step.
LEMMA NextRequestsInOrder ==
  ASSUME TypeOK, HistoryTypeOK, NoHandlerThrows, RequestsInOrder,
         [HistoryNext]_<<vars, history>>
  PROVE  RequestsInOrder'
<1> DEFINE Behind(o, w) == wpc'[o] = "apply" /\ whand'[o].data[1] = w =>
                             /\ whand'[o].data[2] \in 1 .. written'[w]
                             /\ \A i \in DOMAIN writeReq'[o][w] :
                                  whand'[o].data[2] < writeReq'[o][w][i].data[2]
           Good(o, w) == RisingRequests(writeReq'[o][w], w, written'[w]) /\ Behind(o, w)
<1> SUFFICES ASSUME NEW o \in Worker, NEW w \in Worker PROVE Good(o, w)
  BY DEF RequestsInOrder, RisingRequests
<1> DEFINE q == writeReq[o][w]
<1>1. /\ RisingRequests(q, w, written[w])
      /\ wpc[o] = "apply" /\ whand[o].data[1] = w =>
           /\ whand[o].data[2] \in 1 .. written[w]
           /\ \A i \in DOMAIN q : whand[o].data[2] < q[i].data[2]
  BY DEF RequestsInOrder, RisingRequests
<1>2. q \in Seq(Request) /\ written[w] \in Nat
  BY DEF TypeOK, MainTypeOK, ChannelTypeOK
<1>3. ASSUME writeReq'[o][w] = q, written'[w] \in {written[w], written[w] + 1},
             wpc'[o] = "apply" => wpc[o] = "apply" /\ whand'[o] = whand[o]
      PROVE  Good(o, w)
  <2>1. RisingRequests(q, w, written'[w])
    BY <1>1, <1>2, <1>3 DEF RisingRequests
  <2>2. Behind(o, w)
    BY <1>1, <1>2, <1>3
  <2>3. QED
    BY <1>3, <2>1, <2>2
<1>4. ASSUME NEW v \in Worker, WritingLocal(v) PROVE Good(o, w)
  <2>1. writeReq' = writeReq /\ wpc' = wpc /\ whand' = whand
    BY <1>4 DEF WritingLocal, LocalWrite, writerVars, channelVars
  <2>2. written'[w] \in {written[w], written[w] + 1}
    BY <1>2, <1>4, LocalWriteStep
  <2> HIDE DEF Good
  <2>3. QED
    BY <1>3, <2>1, <2>2
<1>5. ASSUME NEW v \in Worker, WritingRemote(v) PROVE Good(o, w)
  <2> DEFINE m == [key |-> next[v], data |-> <<v, written[v] + 1>>]
  <2>1. wpc' = wpc /\ whand' = whand /\ m \in Request
    BY <1>5, RemoteWriteSends
  <2>2. writeReq'[o][w] = IF o = ResolveMaintainer(next[v]) /\ w = v THEN Append(q, m) ELSE q
    BY <1>5, RemoteWriteSends
  <2>3. written'[w] = IF w = v THEN written[v] + 1 ELSE written[w]
    BY <1>5, RemoteWriteIssues
  <2>4. CASE o = ResolveMaintainer(next[v]) /\ w = v
    <3>1. m.data = <<w, written[w] + 1>>
      BY <2>4
    <3> HIDE DEF m, q
    <3>2. RisingRequests(Append(q, m), w, written[w] + 1)
      BY <1>1, <1>2, <2>1, <3>1, RequestSent
    <3>3. Behind(o, w)
      <4> SUFFICES ASSUME wpc[o] = "apply", whand[o].data[1] = w
                   PROVE  /\ whand[o].data[2] \in 1 .. written[w] + 1
                          /\ \A i \in DOMAIN Append(q, m) :
                               whand[o].data[2] < Append(q, m)[i].data[2]
        BY <2>1, <2>2, <2>3, <2>4
      <4>1. /\ whand[o].data[2] \in 1 .. written[w]
            /\ \A i \in DOMAIN q : whand[o].data[2] < q[i].data[2]
        BY <1>1
      <4>2. whand[o].data[2] < m.data[2]
        BY <1>2, <3>1, <4>1
      <4>3. QED
        BY <1>2, <2>1, <4>1, <4>2, OldOrSent
    <3>4. QED
      BY <2>2, <2>3, <2>4, <3>2, <3>3
  <2>5. CASE ~ (o = ResolveMaintainer(next[v]) /\ w = v)
    <3>1. writeReq'[o][w] = q
      BY <2>2, <2>5, Zenon
    <3>2. written'[w] \in {written[w], written[w] + 1}
      BY <2>3
    <3> HIDE DEF Good
    <3>3. QED
      BY <1>3, <2>1, <3>1, <3>2
  <2>6. QED
    BY <2>4, <2>5
<1>6. ASSUME NEW v \in Worker, Storing(v) PROVE Good(o, w)
  <2>1. writeReq' = writeReq /\ written' = written /\ whand' = whand
    BY <1>6, StoreStep
  <2>2. wpc'[o] = IF o = v THEN "notify" ELSE wpc[o]
    BY <1>6, StoreStep
  <2> HIDE DEF Good
  <2>3. QED
    BY <1>3, <2>1, <2>2
<1>7. ASSUME NEW v \in Worker, NEW src \in Worker, ReceiveWrite(v, src) PROVE Good(o, w)
  <2>1. /\ writeReq[v][src] # <<>> /\ written' = written
        /\ wpc'[o] = IF o = v THEN "apply" ELSE wpc[o]
        /\ whand'[o] = IF o = v THEN Head(writeReq[v][src]) ELSE whand[o]
        /\ writeReq'[o][w] = IF o = v /\ w = src THEN Tail(writeReq[v][src]) ELSE q
    BY <1>7, ReceiveStep
  <2>2. /\ RisingRequests(writeReq[v][src], src, written[src])
        /\ writeReq[v][src] \in Seq(Request) /\ written[src] \in Nat
    <3>1. RisingRequests(writeReq[v][src], src, written[src])
      BY DEF RequestsInOrder, RisingRequests
    <3>2. QED
      BY <3>1 DEF TypeOK, MainTypeOK, ChannelTypeOK
  <2>3. /\ RisingRequests(Tail(writeReq[v][src]), src, written[src])
        /\ Head(writeReq[v][src]).data[1] = src
        /\ Head(writeReq[v][src]).data[2] \in 1 .. written[src]
        /\ \A i \in DOMAIN Tail(writeReq[v][src]) :
             Head(writeReq[v][src]).data[2] < Tail(writeReq[v][src])[i].data[2]
    BY <2>1, <2>2, RequestTaken
  <2>4. CASE o = v /\ w = src
    BY <2>1, <2>3, <2>4
  <2>5. CASE o = v /\ w # src
    <3>1. writeReq'[o][w] = q /\ whand'[o].data[1] = src
      BY <2>1, <2>3, <2>5, Zenon
    <3>2. Behind(o, w)
      BY <2>5, <3>1
    <3>3. QED
      BY <1>1, <2>1, <3>1, <3>2
  <2>6. CASE o # v
    <3> HIDE DEF Good
    <3>1. QED
      BY <1>3, <2>1, <2>6
  <2>7. QED
    BY <2>4, <2>5, <2>6
<1>8. ASSUME NoWriteMoves PROVE Good(o, w)
  <2> HIDE DEF Good
  <2>1. QED
    BY <1>3, <1>8 DEF NoWriteMoves
<1> HIDE DEF Good
<1>9. QED
  BY <1>4, <1>5, <1>6, <1>7, <1>8, StepKinds

\* m is in the channel q.
Holds(q, m) == \E i \in DOMAIN q : q[i] = m

\* What a channel holds after a send ...
LEMMA HeldAfterSend ==
  ASSUME NEW S, NEW q \in Seq(S), NEW e \in S, NEW m
  PROVE  Holds(Append(q, e), m) <=> Holds(q, m) \/ m = e
<1>1. /\ DOMAIN Append(q, e) = 1 .. Len(q) + 1 /\ Append(q, e)[Len(q) + 1] = e
      /\ DOMAIN q = 1 .. Len(q) /\ Len(q) \in Nat
      /\ \A i \in DOMAIN q : Append(q, e)[i] = q[i]
  BY Sent
<1>2. Len(q) + 1 \in DOMAIN Append(q, e) /\ DOMAIN q \subseteq DOMAIN Append(q, e)
  BY <1>1
<1>3. \A i \in DOMAIN Append(q, e) : i \in DOMAIN q \/ i = Len(q) + 1
  BY <1>1
<1>4. QED
  BY <1>1, <1>2, <1>3 DEF Holds

\* ... and after a receive.
LEMMA HeldAfterReceive ==
  ASSUME NEW S, NEW q \in Seq(S), q # <<>>, NEW m
  PROVE  Holds(q, m) <=> Holds(Tail(q), m) \/ m = Head(q)
<1>1. Head(q) = q[1] /\ 1 \in DOMAIN q
  BY Received
<1>2. ASSUME NEW i \in DOMAIN q, q[i] = m
      PROVE  (\E k \in DOMAIN Tail(q) : Tail(q)[k] = m) \/ m = Head(q)
  BY <1>1, <1>2, MovesUp
<1>3. ASSUME NEW i \in DOMAIN Tail(q) PROVE \E k \in DOMAIN q : Tail(q)[i] = q[k]
  <2>1. \A e \in S : \A k \in DOMAIN Tail(q) : \E l \in DOMAIN q : Tail(q)[k] = q[l]
    BY OldOrSent
  <2>2. Head(q) \in S
    BY Received
  <2>3. QED
    BY <2>1, <2>2
<1>4. QED
  BY <1>1, <1>2, <1>3 DEF Holds

\* x comes in s after the first c entries.
Beyond(s, c, x) == \E i \in c + 1 .. Len(s) : s[i] = x

\* Which writes are pending after one more is issued.
LEMMA PendingAfter ==
  ASSUME NEW s \in Seq(Data), NEW c \in Nat, c <= Len(s), NEW e \in Data, NEW x
  PROVE  Beyond(Append(s, e), c, x) <=> Beyond(s, c, x) \/ x = e
<1>1. /\ Len(Append(s, e)) = Len(s) + 1 /\ Append(s, e)[Len(s) + 1] = e /\ Len(s) \in Nat
      /\ \A i \in 1 .. Len(s) : Append(s, e)[i] = s[i]
  BY Sent
<1>2. /\ Len(s) + 1 \in c + 1 .. Len(s) + 1
      /\ \A i \in c + 1 .. Len(s) : i \in 1 .. Len(s) /\ i \in c + 1 .. Len(s) + 1
      /\ \A i \in c + 1 .. Len(s) + 1 :
           i = Len(s) + 1 \/ (i \in c + 1 .. Len(s) /\ i \in 1 .. Len(s))
  BY <1>1
<1>3. QED
  BY <1>1, <1>2 DEF Beyond

\* The next write of a worker is neither pending nor in flight.
LEMMA Unissued ==
  ASSUME TypeOK, HistoryTypeOK, IssuedInOrder, RequestsInOrder, PendingIsInFlight,
         NEW w \in Worker, NEW b \in Block, NEW n \in 1 .. written[w] + 1
  PROVE  /\ Pending(w, b, n) <=> InFlight(w, b, n)
         /\ n = written[w] + 1 => ~ InFlight(w, b, n)
<1>1. written[w] \in Nat /\ ResolveMaintainer(b) \in Worker
  BY MaintainerIsWorker DEF TypeOK, MainTypeOK
<1>2. ASSUME n \in 1 .. written[w] PROVE Pending(w, b, n) <=> InFlight(w, b, n)
  BY <1>2 DEF PendingIsInFlight
<1>3. ASSUME n = written[w] + 1, Pending(w, b, n) PROVE FALSE
  <2>1. PICK i \in stored[w][b] + 1 .. Len(issued[w][b]) : issued[w][b][i] = <<w, n>>
    BY <1>3 DEF Pending
  <2>2. i \in DOMAIN issued[w][b]
    BY <2>1, IssuedEntry
  <2>3. issued[w][b][i][2] \in 1 .. written[w]
    BY <2>2 DEF IssuedInOrder
  <2>4. QED
    BY <1>1, <1>3, <2>1, <2>3
<1>4. ASSUME n = written[w] + 1, InFlight(w, b, n) PROVE FALSE
  <2> DEFINE o == ResolveMaintainer(b)
             m == [key |-> b, data |-> <<w, n>>]
  <2>1. m.data = <<w, n>>
    OBVIOUS
  <2>2. \/ \E i \in DOMAIN writeReq[o][w] : writeReq[o][w][i] = m
        \/ wpc[o] = "apply" /\ whand[o] = m
    BY <1>4 DEF InFlight
  <2>3. \A i \in DOMAIN writeReq[o][w] : writeReq[o][w][i].data[2] \in 1 .. written[w]
    BY <1>1 DEF RequestsInOrder
  <2>4. wpc[o] = "apply" /\ whand[o].data[1] = w => whand[o].data[2] \in 1 .. written[w]
    BY <1>1 DEF RequestsInOrder
  <2> HIDE DEF m, o
  <2>5. QED
    BY <1>1, <1>4, <2>1, <2>2, <2>3, <2>4
<1>5. QED
  BY <1>1, <1>2, <1>3, <1>4

\* No step loses a write, and none stores one that stays in flight.
LEMMA NextPendingIsInFlight ==
  ASSUME TypeOK, HistoryTypeOK, NoHandlerThrows, IssuedInOrder, RequestsInOrder,
         PendingIsInFlight, [HistoryNext]_<<vars, history>>
  PROVE  PendingIsInFlight'
<1> SUFFICES ASSUME NEW w \in Worker, NEW b \in Block, NEW n \in 1 .. written'[w]
             PROVE  Pending(w, b, n)' <=> InFlight(w, b, n)'
  BY DEF PendingIsInFlight
<1> DEFINE o == ResolveMaintainer(b)
           m == [key |-> b, data |-> <<w, n>>]
           s == issued[w][b]
           q == writeReq[o][w]
           Good == Pending(w, b, n)' <=> InFlight(w, b, n)'
<1>1. o \in Worker /\ q \in Seq(Request) /\ written[w] \in Nat
  BY MaintainerIsWorker DEF TypeOK, MainTypeOK, ChannelTypeOK
<1>2. s \in Seq(Data) /\ stored[w][b] \in Nat /\ stored[w][b] <= Len(s) /\ Len(s) \in Nat
  BY IssuedEntry DEF IssuedInOrder
<1>3. /\ Pending(w, b, n) <=> Beyond(s, stored[w][b], <<w, n>>)
      /\ InFlight(w, b, n) <=> Holds(q, m) \/ (wpc[o] = "apply" /\ whand[o] = m)
      /\ Pending(w, b, n)' <=> Beyond(issued'[w][b], stored'[w][b], <<w, n>>)
      /\ InFlight(w, b, n)' <=> Holds(writeReq'[o][w], m) \/ (wpc'[o] = "apply" /\ whand'[o] = m)
  BY DEF Pending, InFlight, ResolveMaintainer, Beyond, Holds
<1>4. m.key = b /\ m.data = <<w, n>> /\ m.data[1] = w /\ m.data[2] = n
  OBVIOUS
<1>5. ASSUME written'[w] \in {written[w], written[w] + 1}
      PROVE  /\ Pending(w, b, n) <=> InFlight(w, b, n)
             /\ n = written[w] + 1 => ~ InFlight(w, b, n)
  <2>1. n \in 1 .. written[w] + 1
    BY <1>1, <1>5
  <2>2. QED
    BY <2>1, Unissued
<1> HIDE DEF o, m, s, q
<1>6. ASSUME NEW v \in Worker, WritingLocal(v) PROVE Good
  <2>1. /\ writeReq' = writeReq /\ wpc' = wpc /\ whand' = whand
        /\ written'[w] = IF w = v THEN written[v] + 1 ELSE written[w]
    BY <1>6, LocalWriteStep
  <2>2. /\ Pending(w, b, n) <=> InFlight(w, b, n)
        /\ n = written[w] + 1 => ~ InFlight(w, b, n)
    BY <1>5, <2>1
  <2>3. InFlight(w, b, n)' <=> InFlight(w, b, n)
    BY <1>3, <2>1 DEF q
  <2>4. CASE w = v /\ b = next[v]
    <3>1. /\ stored'[w][b] = stored[w][b] + 1 /\ IsLocal(v, next[v])
          /\ issued'[w][b] = Append(s, <<v, written[v] + 1>>) /\ <<v, written[v] + 1>> \in Data
      BY <1>6, <2>4, LocalWriteStep DEF s
    <3>5. stored[w][b] = Len(s)
      BY <2>4, <3>1 DEF IssuedInOrder, s
    <3>2. Len(issued'[w][b]) = Len(s) + 1
      BY <1>2, <3>1, Sent
    <3>3. ~ Pending(w, b, n) /\ ~ Pending(w, b, n)'
      BY <1>2, <1>3, <3>1, <3>2, <3>5 DEF Beyond
    <3>4. QED
      BY <2>2, <2>3, <3>3
  <2>5. CASE ~ (w = v /\ b = next[v])
    <3>1. /\ issued'[w][b] = IF w = v /\ b = next[v] THEN Append(s, <<v, written[v] + 1>>) ELSE s
          /\ stored'[w][b] = IF w = v /\ b = next[v] THEN stored[w][b] + 1 ELSE stored[w][b]
      BY <1>6, LocalWriteStep DEF s
    <3>2. issued'[w][b] = s /\ stored'[w][b] = stored[w][b]
      BY <2>5, <3>1, Zenon
    <3>3. QED
      BY <1>3, <2>2, <2>3, <3>2
  <2>6. QED
    BY <2>4, <2>5
<1>7. ASSUME NEW v \in Worker, WritingRemote(v) PROVE Good
  <2> DEFINE r == [key |-> next[v], data |-> <<v, written[v] + 1>>]
  <2>1. /\ issued'[w][b] = IF w = v /\ b = next[v] THEN Append(s, <<v, written[v] + 1>>) ELSE s
        /\ written'[w] = IF w = v THEN written[v] + 1 ELSE written[w]
        /\ stored' = stored /\ next[v] \in Block
        /\ <<v, written[v] + 1>> \in Data
    BY <1>7, RemoteWriteIssues DEF s
  <2>2. /\ r \in Request /\ wpc' = wpc /\ whand' = whand
        /\ writeReq'[o][w] = IF o = ResolveMaintainer(next[v]) /\ w = v THEN Append(q, r) ELSE q
    BY <1>1, <1>7, RemoteWriteSends DEF q
  <2>3. Pending(w, b, n) <=> InFlight(w, b, n)
    BY <1>5, <2>1
  <2>4. /\ m = r <=> (w = v /\ b = next[v] /\ n = written[v] + 1)
        /\ <<w, n>> = <<v, written[v] + 1>> <=> (w = v /\ n = written[v] + 1)
    <3>1. m.key = b /\ m.data[1] = w /\ m.data[2] = n
      BY <1>4
    <3>2. r.key = next[v] /\ r.data[1] = v /\ r.data[2] = written[v] + 1
      OBVIOUS
    <3>3. w = v /\ b = next[v] /\ n = written[v] + 1 => m = r
      BY DEF m
    <3>4. m = r => w = v /\ b = next[v] /\ n = written[v] + 1
      <4> HIDE DEF r
      <4>1. QED
        BY <3>1, <3>2
    <3>5. <<w, n>> = <<v, written[v] + 1>> <=> (w = v /\ n = written[v] + 1)
      OBVIOUS
    <3>6. QED
      BY <3>3, <3>4, <3>5
  <2> HIDE DEF r
  <2>5. Holds(Append(q, r), m) <=> Holds(q, m) \/ m = r
    BY <1>1, <2>2, HeldAfterSend
  <2>6. Beyond(Append(s, <<v, written[v] + 1>>), stored[w][b], <<w, n>>)
          <=> Beyond(s, stored[w][b], <<w, n>>) \/ <<w, n>> = <<v, written[v] + 1>>
    BY <1>2, <2>1, PendingAfter
  <2>7. CASE w = v /\ b = next[v]
    <3>1. o = ResolveMaintainer(next[v])
      BY <2>7 DEF o
    <3>2. InFlight(w, b, n)' <=> InFlight(w, b, n) \/ n = written[v] + 1
      BY <1>3, <2>2, <2>4, <2>5, <2>7, <3>1
    <3>3. Pending(w, b, n)' <=> Pending(w, b, n) \/ n = written[v] + 1
      BY <1>3, <2>1, <2>4, <2>6, <2>7
    <3>4. QED
      BY <2>3, <3>2, <3>3
  <2>8. CASE ~ (w = v /\ b = next[v])
    <3>1. issued'[w][b] = s
      BY <2>1, <2>8, Zenon
    <3>2. Pending(w, b, n)' <=> Pending(w, b, n)
      BY <1>3, <2>1, <3>1
    <3>3. Holds(writeReq'[o][w], m) <=> Holds(q, m)
      BY <2>2, <2>4, <2>5, <2>8
    <3>4. InFlight(w, b, n)' <=> InFlight(w, b, n)
      BY <1>3, <2>2, <3>3
    <3>5. QED
      BY <2>3, <3>2, <3>4
  <2>9. QED
    BY <2>7, <2>8
<1>8. ASSUME NEW v \in Worker, Storing(v) PROVE Good
  <2> DEFINE d == whand[v].data
             k == whand[v].key
  <2>1. /\ issued' = issued /\ written' = written /\ writeReq' = writeReq /\ whand' = whand
        /\ wpc'[o] = IF o = v THEN "notify" ELSE wpc[o]
        /\ stored'[w][b] = IF w = d[1] /\ b = k THEN stored[w][b] + 1 ELSE stored[w][b]
    BY <1>1, <1>8, StoreStep
  <2>2. /\ wpc[v] = "apply" /\ whand[v] = [key |-> k, data |-> d] /\ v = ResolveMaintainer(k)
        /\ d = <<d[1], d[2]>> /\ d[1] \in Worker
    BY <1>8, StoreStep DEF Request
  <2>3. /\ Pending(w, b, n) <=> InFlight(w, b, n)
    BY <1>5, <2>1
  <2>4. CASE w = d[1] /\ b = k
    <3>1. o = v
      BY <2>2, <2>4 DEF o
    <3>2. /\ stored[w][b] + 1 \in DOMAIN s /\ s[stored[w][b] + 1] = <<w, d[2]>>
      BY <1>8, <2>2, <2>4, StoredInTurn DEF s
    <3>3. m = whand[v] <=> n = d[2]
      BY <2>2, <2>4 DEF m
    <3>4. \A i \in DOMAIN q : d[2] < q[i].data[2]
      BY <2>2, <2>4, <3>1 DEF RequestsInOrder, q
    <3>5. n = d[2] => ~ Holds(q, m)
      BY <1>4, <3>4 DEF Holds
    <3>6. InFlight(w, b, n)' <=> InFlight(w, b, n) /\ n # d[2]
      BY <1>3, <2>1, <2>2, <3>1, <3>3, <3>5 DEF q
    <3>7. \A i \in DOMAIN s : \A j \in DOMAIN s : i < j => s[i][2] < s[j][2]
      BY DEF IssuedInOrder, s
    <3>8. Pending(w, b, n)' <=> Pending(w, b, n) /\ n # d[2]
      <4> DEFINE c == stored[w][b]
                 e == d[2]
      <4>1. /\ c \in Nat /\ DOMAIN s = 1 .. Len(s) /\ c + 1 \in DOMAIN s /\ s[c + 1] = <<w, e>>
            /\ Pending(w, b, n) <=> \E i \in c + 1 .. Len(s) : s[i] = <<w, n>>
        BY <1>2, <1>3, <3>2 DEF Beyond
      <4>2. stored'[w][b] = c + 1 /\ issued'[w][b] = s
        BY <2>1, <2>4 DEF s
      <4> HIDE DEF c, d, k, e
      <4>3. (c + 1) + 1 = c + 2
        BY <4>1
      <4>4. Pending(w, b, n)' <=> \E i \in c + 2 .. Len(s) : s[i] = <<w, n>>
        BY <1>3, <4>2, <4>3 DEF Beyond
      <4>5. \A i \in c + 2 .. Len(s) : i \in DOMAIN s /\ c + 1 < i /\ i \in c + 1 .. Len(s)
        BY <1>2, <4>1
      <4>6. s[c + 1][2] = e
        BY <4>1
      <4>7. \A i \in c + 2 .. Len(s) : e < s[i][2]
        BY <3>7, <4>1, <4>5, <4>6
      <4>8. \A i \in c + 1 .. Len(s) : i = c + 1 \/ i \in c + 2 .. Len(s)
        BY <1>2, <4>1
      <4>9. e \in Nat /\ c + 1 \in c + 1 .. Len(s)
        BY <1>2, <4>1, <4>6, IssuedEntry DEF s
      <4>10. Pending(w, b, n)' <=> Pending(w, b, n) /\ n # e
        <5>1. ASSUME NEW i \in c + 2 .. Len(s), s[i] = <<w, n>>
              PROVE  i \in c + 1 .. Len(s) /\ n # e
          <6>1. s[i][2] = n /\ e < s[i][2] /\ i \in c + 1 .. Len(s)
            BY <4>5, <4>7, <5>1
          <6>2. QED
            BY <4>9, <6>1
        <5>2. ASSUME NEW i \in c + 1 .. Len(s), s[i] = <<w, n>>, n # e
              PROVE  i \in c + 2 .. Len(s)
          <6>1. i # c + 1
            BY <4>6, <5>2
          <6>2. QED
            BY <4>8, <6>1
        <5>3. QED
          BY <4>1, <4>4, <5>1, <5>2
      <4>11. QED
        BY <4>10 DEF e
    <3>9. QED
      BY <2>3, <3>6, <3>8
  <2>5. CASE ~ (w = d[1] /\ b = k)
    <3>1. stored'[w][b] = stored[w][b]
      BY <2>1, <2>5, Zenon
    <3>2. Pending(w, b, n)' <=> Pending(w, b, n)
      BY <1>3, <2>1, <3>1 DEF s
    <3>3. o = v => whand[o] # m
      BY <1>4, <2>5
    <3>4. InFlight(w, b, n)' <=> InFlight(w, b, n)
      BY <1>3, <2>1, <3>3 DEF q
    <3>5. QED
      BY <2>3, <3>2, <3>4
  <2>6. QED
    BY <2>4, <2>5
<1>9. ASSUME NEW v \in Worker, NEW src \in Worker, ReceiveWrite(v, src), UNCHANGED history
      PROVE  Good
  <2> DEFINE h == Head(writeReq[v][src])
  <2>1. /\ issued' = issued /\ stored' = stored /\ written' = written
        /\ wpc[v] = "probe" /\ writeReq[v][src] # <<>>
        /\ wpc'[o] = IF o = v THEN "apply" ELSE wpc[o]
        /\ whand'[o] = IF o = v THEN h ELSE whand[o]
        /\ writeReq'[o][w] = IF o = v /\ w = src THEN Tail(writeReq[v][src]) ELSE q
    BY <1>1, <1>9, ReceiveStep DEF history, q
  <2>2. Pending(w, b, n) <=> InFlight(w, b, n)
    BY <1>5, <2>1
  <2>3. Pending(w, b, n)' <=> Pending(w, b, n)
    BY <1>3, <2>1 DEF s
  <2>4. InFlight(w, b, n)' <=> InFlight(w, b, n)
    <3>1. CASE o = v /\ w = src
      <4>1. q = writeReq[v][src] /\ q # <<>>
        BY <2>1, <3>1 DEF q
      <4>2. Holds(q, m) <=> Holds(Tail(q), m) \/ m = Head(q)
        BY <1>1, <4>1, HeldAfterReceive
      <4>3. h = Head(q)
        BY <4>1
      <4> HIDE DEF h
      <4>4. QED
        BY <1>3, <2>1, <3>1, <4>1, <4>2, <4>3
    <3>2. CASE o = v /\ w # src
      <4> DEFINE z == writeReq[v][src]
      <4>0. z \in Seq(Request) /\ z # <<>>
        BY <2>1 DEF TypeOK, ChannelTypeOK
      <4>1. 1 \in DOMAIN z /\ h = z[1]
        <5>1. h = Head(z)
          OBVIOUS
        <5> HIDE DEF z, h
        <5>2. QED
          BY <4>0, <5>1, Received
      <4>2. h.data[1] = src
        BY <4>1 DEF RequestsInOrder
      <4>3. h # m
        BY <1>4, <3>2, <4>2
      <4>4. QED
        BY <1>3, <2>1, <3>2, <4>3
    <3>3. CASE o # v
      BY <1>3, <2>1, <3>3
    <3>4. QED
      BY <3>1, <3>2, <3>3
  <2>5. QED
    BY <2>2, <2>3, <2>4
<1>10. ASSUME NoWriteMoves PROVE Good
  BY <1>1, <1>3, <1>5, <1>10 DEF NoWriteMoves, q, s
<1> HIDE DEF Good
<1>11. Good
  BY <1>6, <1>7, <1>8, <1>9, <1>10, StepKinds
<1>12. QED
  BY <1>11 DEF Good

(***************************************************************************)
(* The log of a block                                                      *)
(***************************************************************************)

\* d is what l holds after v writes.
VersionIn(l, v, d) ==
  /\ v \in 0 .. Len(l)
  /\ d = IF v = 0 THEN Zero ELSE l[v]

\* A block's log holds writes, and none of them is the content at the start.
LEMMA LogEntry ==
  ASSUME HistoryTypeOK, IssuedInOrder, LogIsStored, NEW b \in Block
  PROVE  /\ log[b] \in Seq(Data) /\ Len(log[b]) \in Nat /\ DOMAIN log[b] = 1 .. Len(log[b])
         /\ \A i \in DOMAIN log[b] : log[b][i] # Zero
<1>1. log[b] \in Seq(Data) /\ Len(log[b]) \in Nat /\ DOMAIN log[b] = 1 .. Len(log[b])
  BY DEF HistoryTypeOK
<1>2. ASSUME NEW i \in DOMAIN log[b], log[b][i] = Zero PROVE FALSE
  <2>1. PICK w \in Worker : \E j \in 1 .. stored[w][b] : issued[w][b][j] = log[b][i]
    BY DEF LogIsStored
  <2>2. PICK j \in 1 .. stored[w][b] : issued[w][b][j] = Zero
    BY <1>2, <2>1
  <2>3. j \in DOMAIN issued[w][b]
    BY <2>2, IssuedEntry DEF IssuedInOrder
  <2>4. issued[w][b][j][2] \in 1 .. written[w]
    BY <2>3 DEF IssuedInOrder
  <2>5. QED
    BY <2>2, <2>4 DEF Zero
<1>3. QED
  BY <1>1, <1>2

\* A content is one version of the block at most: Version finds it.
LEMMA VersionUnique ==
  ASSUME HistoryTypeOK, IssuedInOrder, LogIsStored, NEW b \in Block, NEW d,
         NEW v, IsVersion(b, v, d)
  PROVE  Version(b, d) = v
<1>1. /\ Len(log[b]) \in Nat /\ DOMAIN log[b] = 1 .. Len(log[b])
      /\ \A i \in DOMAIN log[b] : log[b][i] # Zero
      /\ \A i, j \in DOMAIN log[b] : log[b][i] = log[b][j] => i = j
  BY LogEntry DEF LogIsStored
<1>2. ASSUME NEW u, IsVersion(b, u, d) PROVE u = v
  BY <1>1, <1>2 DEF IsVersion
<1>3. v \in 0 .. Len(log[b])
  BY DEF IsVersion
<1>4. QED
  BY <1>2, <1>3 DEF Version

\* A version stays a version when the log grows.
LEMMA VersionStays ==
  ASSUME NEW l \in Seq(Data), NEW e \in Data, NEW v, NEW d, VersionIn(l, v, d)
  PROVE  VersionIn(Append(l, e), v, d)
<1>1. /\ Len(Append(l, e)) = Len(l) + 1 /\ Len(l) \in Nat
      /\ DOMAIN l = 1 .. Len(l)
      /\ \A i \in DOMAIN l : Append(l, e)[i] = l[i]
  BY Sent
<1>2. v \in 0 .. Len(l) + 1 /\ (v # 0 => v \in DOMAIN l)
  BY <1>1 DEF VersionIn
<1>3. QED
  BY <1>1, <1>2 DEF VersionIn

\* What LogIsStored says of one block.
LogOf(b) ==
  /\ VersionIn(log[b], Len(log[b]), local[b])
  /\ \A i \in DOMAIN log[b] :
       /\ \E w \in Worker : \E j \in 1 .. stored[w][b] : issued[w][b][j] = log[b][i]
       /\ \A j \in DOMAIN log[b] : log[b][i] = log[b][j] => i = j

\* A log with one more of its worker's writes, the oldest that was not stored, has
\* every stored write once.
LEMMA LogGrows ==
  ASSUME HistoryTypeOK, IssuedInOrder, LogIsStored,
         issued' \in [Worker -> [Block -> Seq(Data)]], IssuedInOrder', NEW b \in Block,
         NEW u \in Worker, NEW d \in Data,
         log'[b] = Append(log[b], d), local'[b] = d,
         stored[u][b] + 1 \in DOMAIN issued'[u][b], issued'[u][b][stored[u][b] + 1] = d,
         stored'[u][b] = stored[u][b] + 1,
         \A w \in Worker : /\ stored'[w][b] \in Nat /\ stored[w][b] <= stored'[w][b]
                           /\ \A j \in 1 .. stored[w][b] : issued'[w][b][j] = issued[w][b][j]
  PROVE  LogOf(b)'
<1> DEFINE l == log[b]
           t == Append(l, d)
<1>1. /\ l \in Seq(Data) /\ Len(l) \in Nat /\ DOMAIN l = 1 .. Len(l)
      /\ DOMAIN t = 1 .. Len(l) + 1 /\ Len(t) = Len(l) + 1 /\ t[Len(l) + 1] = d
      /\ \A i \in DOMAIN l : t[i] = l[i]
  BY LogEntry, Sent
<1>2. \A i \in DOMAIN l :
        /\ \E w \in Worker : \E j \in 1 .. stored[w][b] : issued[w][b][j] = l[i]
        /\ \A j \in DOMAIN l : l[i] = l[j] => i = j
  BY DEF LogIsStored
<1>3. \A w \in Worker : stored[w][b] \in Nat
  BY DEF HistoryTypeOK
<1> HIDE DEF l, t
<1>4. \A i \in DOMAIN t : i \in DOMAIN l \/ i = Len(l) + 1
  BY <1>1
<1>5. ASSUME NEW i \in DOMAIN l
      PROVE  \E w \in Worker : \E j \in 1 .. stored'[w][b] : issued'[w][b][j] = l[i]
  <2>1. PICK w \in Worker : \E j \in 1 .. stored[w][b] : issued[w][b][j] = l[i]
    BY <1>2
  <2>2. PICK j \in 1 .. stored[w][b] : issued'[w][b][j] = l[i]
    BY <2>1
  <2>3. j \in 1 .. stored'[w][b]
    BY <1>3
  <2>4. QED
    BY <2>2, <2>3
<1>6. ASSUME NEW i \in DOMAIN l, l[i] = d PROVE FALSE
  <2>1. PICK w \in Worker : \E j \in 1 .. stored[w][b] : issued[w][b][j] = l[i]
    BY <1>2
  <2>2. PICK j \in 1 .. stored[w][b] : issued'[w][b][j] = d
    BY <1>6, <2>1
  <2>3. /\ stored'[w][b] <= Len(issued'[w][b]) /\ Len(issued'[w][b]) \in Nat
        /\ DOMAIN issued'[w][b] = 1 .. Len(issued'[w][b])
    BY DEF IssuedInOrder
  <2>4. j \in DOMAIN issued'[w][b]
    BY <1>3, <2>3
  <2>5. \A r \in Worker : \A x \in DOMAIN issued'[r][b] :
          /\ issued'[r][b][x][1] = r
          /\ \A y \in DOMAIN issued'[r][b] : x < y => issued'[r][b][x][2] < issued'[r][b][y][2]
    BY DEF IssuedInOrder
  <2>6. d[1] = w /\ d[1] = u
    BY <2>2, <2>4, <2>5
  <2>7. j < stored[u][b] + 1
    BY <1>3, <2>6
  <2>8. d[2] < d[2]
    BY <2>2, <2>4, <2>5, <2>6, <2>7
  <2>9. d[2] \in Nat
    BY DEF Data
  <2>10. QED
    BY <2>8, <2>9
<1>7. stored[u][b] + 1 \in 1 .. stored'[u][b]
  BY <1>3
<1>8. ASSUME NEW i \in DOMAIN t
      PROVE  /\ \E w \in Worker : \E j \in 1 .. stored'[w][b] : issued'[w][b][j] = t[i]
             /\ \A j \in DOMAIN t : t[i] = t[j] => i = j
  <2>1. \E w \in Worker : \E j \in 1 .. stored'[w][b] : issued'[w][b][j] = t[i]
    BY <1>1, <1>4, <1>5, <1>7
  <2>2. \A j \in DOMAIN t : t[i] = t[j] => i = j
    BY <1>1, <1>2, <1>4, <1>6
  <2>3. QED
    BY <2>1, <2>2
<1>9. VersionIn(t, Len(t), d)
  BY <1>1 DEF VersionIn
<1>10. log'[b] = t /\ local'[b] = d
  BY DEF l, t
<1>11. /\ VersionIn(log'[b], Len(log'[b]), local'[b])
       /\ \A i \in DOMAIN log'[b] :
            /\ \E w \in Worker : \E j \in 1 .. stored'[w][b] : issued'[w][b][j] = log'[b][i]
            /\ \A j \in DOMAIN log'[b] : log'[b][i] = log'[b][j] => i = j
  BY <1>8, <1>9, <1>10, Zenon
<1>12. QED
  BY <1>11 DEF LogOf, VersionIn

\* The log of every block stays what is stored of it.
LEMMA NextLogIsStored ==
  ASSUME TypeOK, HistoryTypeOK, NoHandlerThrows, IssuedInOrder, RequestsInOrder,
         PendingIsInFlight, LogIsStored, [HistoryNext]_<<vars, history>>
  PROVE  LogIsStored'
<1> SUFFICES ASSUME NEW b \in Block PROVE LogOf(b)'
  BY DEF LogIsStored, LogOf, IsVersion, VersionIn
<1>1. VersionIn(log[b], Len(log[b]), local[b])
  BY DEF LogIsStored, IsVersion, VersionIn
<1>2. IssuedInOrder'
  BY NextIssuedInOrder
<1>3. \A w \in Worker :
        /\ issued[w][b] \in Seq(Data) /\ stored[w][b] \in Nat /\ stored[w][b] <= Len(issued[w][b])
        /\ Len(issued[w][b]) \in Nat /\ DOMAIN issued[w][b] = 1 .. Len(issued[w][b])
  BY IssuedEntry DEF IssuedInOrder
<1>4. ASSUME log'[b] = log[b], local'[b] = local[b],
             \A w \in Worker : /\ stored'[w][b] = stored[w][b]
                               /\ \A j \in 1 .. stored[w][b] : issued'[w][b][j] = issued[w][b][j]
      PROVE  LogOf(b)'
  <2>1. \A i \in DOMAIN log[b] :
          /\ \E w \in Worker : \E j \in 1 .. stored[w][b] : issued[w][b][j] = log[b][i]
          /\ \A j \in DOMAIN log[b] : log[b][i] = log[b][j] => i = j
    BY DEF LogIsStored
  <2>2. QED
    BY <1>1, <1>4, <2>1 DEF LogOf, VersionIn
<1>5. ASSUME NEW v \in Worker, WritingLocal(v) PROVE LogOf(b)'
  <2> DEFINE d == <<v, written[v] + 1>>
  <2>1. /\ d \in Data /\ IsLocal(v, next[v])
        /\ log'[b] = IF b = next[v] THEN Append(log[b], d) ELSE log[b]
        /\ local'[b] = IF b = next[v] THEN d ELSE local[b]
        /\ issued' \in [Worker -> [Block -> Seq(Data)]]
    BY <1>5, LocalWriteStep
  <2>2. \A w \in Worker :
          /\ issued'[w][b] = IF w = v /\ b = next[v] THEN Append(issued[w][b], d) ELSE issued[w][b]
          /\ stored'[w][b] = IF w = v /\ b = next[v] THEN stored[w][b] + 1 ELSE stored[w][b]
    BY <1>5, LocalWriteStep
  <2> HIDE DEF d
  <2>3. CASE b = next[v]
    <3>1. stored[v][b] = Len(issued[v][b])
      BY <2>1, <2>3 DEF IssuedInOrder
    <3>2. /\ issued'[v][b] = Append(issued[v][b], d) /\ stored'[v][b] = stored[v][b] + 1
          /\ \A w \in Worker : w # v => issued'[w][b] = issued[w][b] /\ stored'[w][b] = stored[w][b]
      BY <2>2, <2>3
    <3>3. /\ stored[v][b] + 1 \in DOMAIN issued'[v][b]
          /\ issued'[v][b][stored[v][b] + 1] = d
          /\ \A j \in 1 .. stored[v][b] : issued'[v][b][j] = issued[v][b][j]
      BY <1>3, <2>1, <3>1, <3>2, Sent
    <3>4. \A w \in Worker : /\ stored'[w][b] \in Nat /\ stored[w][b] <= stored'[w][b]
                            /\ \A j \in 1 .. stored[w][b] : issued'[w][b][j] = issued[w][b][j]
      <4>1. stored[v][b] + 1 \in Nat /\ stored[v][b] <= stored[v][b] + 1
        BY <1>3
      <4>2. QED
        <5>1. ASSUME NEW w \in Worker, w # v
              PROVE  /\ stored'[w][b] \in Nat /\ stored[w][b] <= stored'[w][b]
                     /\ issued'[w][b] = issued[w][b]
          BY <1>3, <3>2, <5>1
        <5>2. stored'[v][b] \in Nat /\ stored[v][b] <= stored'[v][b]
          BY <1>3, <3>2, <4>1
        <5>3. QED
          BY <3>3, <5>1, <5>2
    <3>5. QED
      BY <1>2, <2>1, <2>3, <3>2, <3>3, <3>4, LogGrows
  <2>4. CASE b # next[v]
    BY <1>4, <2>1, <2>2, <2>4
  <2>5. QED
    BY <2>3, <2>4
<1>6. ASSUME NEW v \in Worker, WritingRemote(v) PROVE LogOf(b)'
  <2>1. log' = log /\ local' = local
    BY <1>6, RemoteWriteSends
  <2>2. /\ stored' = stored /\ <<v, written[v] + 1>> \in Data
        /\ \A w \in Worker :
             issued'[w][b] = IF w = v /\ b = next[v]
                             THEN Append(issued[w][b], <<v, written[v] + 1>>) ELSE issued[w][b]
    BY <1>6, RemoteWriteIssues
  <2>3. \A w \in Worker : \A j \in 1 .. stored[w][b] : j \in DOMAIN issued[w][b]
    BY <1>3
  <2>4. \A w \in Worker : \A j \in 1 .. stored[w][b] : issued'[w][b][j] = issued[w][b][j]
    <3>1. ASSUME NEW w \in Worker
          PROVE  \A j \in 1 .. stored[w][b] : issued'[w][b][j] = issued[w][b][j]
      <4>1. \A j \in DOMAIN issued[v][b] :
              Append(issued[v][b], <<v, written[v] + 1>>)[j] = issued[v][b][j]
        BY <1>3, <2>2, Sent
      <4>2. CASE w = v /\ b = next[v]
        BY <2>2, <2>3, <4>1, <4>2
      <4>3. CASE ~ (w = v /\ b = next[v])
        <5>1. issued'[w][b] = issued[w][b]
          BY <2>2, <4>3, Zenon
        <5>2. QED
          BY <5>1
      <4>4. QED
        BY <4>2, <4>3
    <3>2. QED
      BY <3>1
  <2>5. QED
    BY <1>4, <2>1, <2>2, <2>4
<1>7. ASSUME NEW v \in Worker, Storing(v) PROVE LogOf(b)'
  <2> DEFINE k == whand[v].key
             d == whand[v].data
             u == d[1]
  <2>1. /\ d \in Data /\ issued' = issued
        /\ log'[b] = IF b = k THEN Append(log[b], d) ELSE log[b]
        /\ local'[b] = IF b = k THEN d ELSE local[b]
    BY <1>7, StoreStep
  <2>2. \A w \in Worker : stored'[w][b] = IF w = u /\ b = k THEN stored[w][b] + 1 ELSE stored[w][b]
    BY <1>7, StoreStep
  <2>3. /\ u \in Worker
        /\ stored[u][k] + 1 \in DOMAIN issued[u][k] /\ issued[u][k][stored[u][k] + 1] = d
    BY <1>7, StoredInTurn
  <2> HIDE DEF d, k, u
  <2>4. CASE b = k
    <3>1. \A w \in Worker : /\ stored'[w][b] \in Nat /\ stored[w][b] <= stored'[w][b]
                            /\ \A j \in 1 .. stored[w][b] : issued'[w][b][j] = issued[w][b][j]
      BY <1>3, <2>1, <2>2
    <3>2. /\ stored'[u][b] = stored[u][b] + 1
          /\ stored[u][b] + 1 \in DOMAIN issued'[u][b] /\ issued'[u][b][stored[u][b] + 1] = d
          /\ log'[b] = Append(log[b], d) /\ local'[b] = d
          /\ issued' \in [Worker -> [Block -> Seq(Data)]]
      BY <2>1, <2>2, <2>3, <2>4 DEF HistoryTypeOK
    <3>3. QED
      BY <1>2, <2>1, <2>3, <3>1, <3>2, LogGrows
  <2>5. CASE b # k
    BY <1>4, <2>1, <2>2, <2>5
  <2>6. QED
    BY <2>4, <2>5
<1>8. CASE UNCHANGED <<issued, stored, log, local>>
  BY <1>4, <1>8
<1>9. ASSUME NEW v \in Worker, NEW src \in Worker, ReceiveWrite(v, src), UNCHANGED history
      PROVE  LogOf(b)'
  BY <1>8, <1>9, ReceiveStep DEF history
<1>10. QED
  BY <1>5, <1>6, <1>7, <1>8, <1>9, StepKinds DEF NoWriteMoves

\* A step that stores nothing leaves the log, and one that does adds to it.
LEMMA LogKept ==
  ASSUME TypeOK, HistoryTypeOK, NoHandlerThrows, [HistoryNext]_<<vars, history>>
  PROVE  /\ log' \in [Block -> Seq(Data)]
         /\ \A b \in Block : log'[b] = log[b] \/ \E e \in Data : log'[b] = Append(log[b], e)
<1>1. log \in [Block -> Seq(Data)]
  BY DEF HistoryTypeOK
<1>2. ASSUME NEW v \in Worker, WritingLocal(v)
      PROVE  /\ log' \in [Block -> Seq(Data)]
             /\ \A b \in Block : log'[b] = log[b] \/ \E e \in Data : log'[b] = Append(log[b], e)
  BY <1>2, LocalWriteStep
<1>3. ASSUME NEW v \in Worker, Storing(v)
      PROVE  /\ log' \in [Block -> Seq(Data)]
             /\ \A b \in Block : log'[b] = log[b] \/ \E e \in Data : log'[b] = Append(log[b], e)
  BY <1>3, StoreStep
<1>4. ASSUME NEW v \in Worker, WritingRemote(v) PROVE log' = log
  BY <1>4, RemoteWriteSends
<1>5. QED
  BY <1>1, <1>2, <1>3, <1>4, StepKinds DEF NoWriteMoves, history

\* What is a version of a block stays one.
LEMMA VersionsStay ==
  ASSUME TypeOK, HistoryTypeOK, NoHandlerThrows, [HistoryNext]_<<vars, history>>,
         NEW b \in Block
  PROVE  /\ Len(log'[b]) \in Nat /\ Len(log[b]) \in Nat /\ Len(log[b]) <= Len(log'[b])
         /\ \A v, d : VersionIn(log[b], v, d) => VersionIn(log'[b], v, d)
<1>1. log[b] \in Seq(Data) /\ log'[b] \in Seq(Data)
  BY LogKept DEF HistoryTypeOK
<1>2. CASE log'[b] = log[b]
  BY <1>1, <1>2
<1>3. ASSUME NEW e \in Data, log'[b] = Append(log[b], e)
      PROVE  /\ Len(log[b]) <= Len(log'[b])
             /\ \A v, d : VersionIn(log[b], v, d) => VersionIn(log'[b], v, d)
  <2>1. Len(log'[b]) = Len(log[b]) + 1
    BY <1>1, <1>3, Sent
  <2>2. \A v, d : VersionIn(log[b], v, d) => VersionIn(log'[b], v, d)
    BY <1>1, <1>3, VersionStays
  <2>3. QED
    BY <1>1, <2>1, <2>2
<1>4. log'[b] = log[b] \/ \E e \in Data : log'[b] = Append(log[b], e)
  BY LogKept
<1>5. QED
  BY <1>1, <1>2, <1>3, <1>4

(***************************************************************************)
(* Reads                                                                   *)
(***************************************************************************)

\* What a read returns is a version of the block no older than what its worker has
\* seen, and at the maintainer the latest one.
LEMMA ReadVersion ==
  ASSUME CodeInv, HistoryInv, NEW w \in Worker, ReadReturns(w)
  PROVE  LET b == next[w]
             v == Version(b, ReadValue(w))
         IN  /\ b \in Block
             /\ v \in seen[w][b] .. Len(log[b])
             /\ VersionIn(log[b], v, ReadValue(w))
             /\ IsLocal(w, b) => v = Len(log[b])
<1> DEFINE b == next[w]
           x == ReadValue(w)
<1>1. TypeOK /\ OneRequestPerReader /\ CopiesAreRemote /\ StaleCopyIsInvalidated
  BY DEF CodeInv, CoherenceInv
<1>2. HistoryTypeOK /\ IssuedInOrder /\ LogIsStored /\ CopiesAreSeen
  BY DEF HistoryInv
<1>3. pc[w] # "idle"
  BY DEF ReadReturns, LocalRead, RemoteReadHit, RemoteReadFill
<1>4. b \in Block
  BY <1>1, <1>3, NextIsBlock
<1>5. seen[w][b] \in Nat /\ Len(log[b]) \in Nat
  BY <1>2, <1>4 DEF HistoryTypeOK
<1>6. CASE IsLocal(w, b)
  <2>1. x = local[b]
    BY <1>6 DEF ReadValue
  <2>2. IsVersion(b, Len(log[b]), x)
    BY <1>2, <1>4, <2>1 DEF LogIsStored
  <2>3. seen[w][b] <= Len(log[b])
    BY <1>2, <1>4 DEF CopiesAreSeen
  <2> HIDE DEF x, b
  <2>4. Version(b, x) = Len(log[b])
    BY <1>2, <1>4, <2>2, VersionUnique
  <2>5. QED
    BY <1>4, <1>5, <2>2, <2>3, <2>4 DEF IsVersion, VersionIn, x, b
<1>7. CASE ~ IsLocal(w, b)
  <2>1. \E v \in seen[w][b] .. Len(log[b]) : IsVersion(b, v, x)
    <3>1. CASE RemoteReadHit(w)
      <4>1. pc[w] # "awaiting" /\ cache[w][b] # Null
        BY <3>1 DEF RemoteReadHit
      <4>2. x = cache[w][b]
        BY <1>7, <4>1 DEF ReadValue
      <4>3. QED
        BY <1>2, <1>4, <4>1, <4>2 DEF CopiesAreSeen
    <3>2. CASE RemoteReadFill(w)
      <4> DEFINE o == RemoteTarget(b)
                 q == readResp[w][o]
      <4>1. pc[w] = "awaiting" /\ q # <<>>
        BY <3>2 DEF RemoteReadFill
      <4>2. x = Head(q)
        BY <1>7, <4>1 DEF ReadValue
      <4>3. o \in Worker
        BY <1>4, TargetIsWorker
      <4>4. q \in Seq(Data)
        BY <1>1, <4>3 DEF TypeOK, ChannelTypeOK
      <4>5. \A i \in DOMAIN q : \E v \in seen[w][b] .. Len(log[b]) : IsVersion(b, v, q[i])
        BY <1>2, <4>3 DEF CopiesAreSeen
      <4> HIDE DEF q
      <4>6. 1 \in DOMAIN q /\ x = q[1]
        BY <4>1, <4>2, <4>4, Received
      <4>7. QED
        BY <4>5, <4>6
    <3>3. QED
      BY <1>7, <3>1, <3>2 DEF ReadReturns, LocalRead
  <2>2. PICK v \in seen[w][b] .. Len(log[b]) : IsVersion(b, v, x)
    BY <2>1
  <2> HIDE DEF x, b
  <2>3. Version(b, x) = v
    BY <1>2, <1>4, <2>2, VersionUnique
  <2>4. QED
    BY <1>4, <1>7, <2>2, <2>3 DEF IsVersion, VersionIn, x, b
<1>8. QED
  BY <1>6, <1>7

\* A step in which no read of w returns changes nothing of what w has seen.
LEMMA SeenKept ==
  ASSUME [HistoryNext]_<<vars, history>>, HistoryTypeOK, NEW w \in Worker, ~ Reading(w)
  PROVE  seen'[w] = seen[w]
<1>1. ASSUME NEW v \in Worker, Reading(v) PROVE seen'[w] = seen[w]
  BY <1>1 DEF Reading, HistoryTypeOK
<1>2. ASSUME NEW v \in Worker, WritingLocal(v) \/ WritingRemote(v) \/ Storing(v)
      PROVE  seen'[w] = seen[w]
  BY <1>2 DEF WritingLocal, WritingRemote, Storing
<1>3. CASE UNCHANGED history
  BY <1>3 DEF history
<1>4. QED
  BY <1>1, <1>2, <1>3 DEF HistoryNext, Silent

\* What a read that returns changes of what its worker has seen and has cached.
LEMMA ReadStep ==
  ASSUME TypeOK, HistoryTypeOK, NEW w \in Worker, Reading(w), next[w] \in Block,
         Version(next[w], ReadValue(w)) \in Nat
  PROVE  /\ \A b \in Block : seen'[w][b] = IF b = next[w] THEN Version(b, ReadValue(w))
                                                          ELSE seen[w][b]
         /\ seen' \in [Worker -> [Block -> Nat]]
         /\ log' = log
         /\ \A b \in Block : b # next[w] => cache'[w][b] = cache[w][b]
         /\ ~ IsLocal(w, next[w]) => cache'[w][next[w]] = ReadValue(w)
         /\ IsLocal(w, next[w]) /\ pc[w] = "reading" => cache' = cache
         /\ pc'[w] # "awaiting"
<1> DEFINE b0 == next[w]
           v0 == Version(b0, ReadValue(w))
<1>1. seen' = [seen EXCEPT ![w][b0] = v0] /\ log' = log /\ ReadReturns(w)
  BY DEF Reading
<1>2. seen \in [Worker -> [Block -> Nat]] /\ cache \in [Worker -> [Block -> Data \cup {Null}]]
  BY DEF HistoryTypeOK, TypeOK, MemoryTypeOK
<1> HIDE DEF v0
<1>3. /\ seen' \in [Worker -> [Block -> Nat]]
      /\ \A b \in Block : seen'[w][b] = IF b = b0 THEN v0 ELSE seen[w][b]
  BY <1>1, <1>2, Entry DEF v0
<1>4. ASSUME LocalRead(w) \/ RemoteReadHit(w)
      PROVE  /\ cache' = cache
             /\ ~ IsLocal(w, b0) => cache[w][b0] = ReadValue(w)
  BY <1>4 DEF LocalRead, RemoteReadHit, ReadValue
<1>5. ASSUME RemoteReadFill(w)
      PROVE  /\ \A b \in Block : b # b0 => cache'[w][b] = cache[w][b]
             /\ pc[w] = "awaiting"
             /\ ~ IsLocal(w, b0) => cache'[w][b0] = ReadValue(w)
  <2>1. /\ cache' = [cache EXCEPT ![w][b0] = Head(readResp[w][RemoteTarget(b0)])]
        /\ pc[w] = "awaiting"
    BY <1>5 DEF RemoteReadFill
  <2>2. QED
    BY <1>2, <2>1 DEF ReadValue
<1>6. pc'[w] # "awaiting"
  BY <1>1, AdvanceLeaves DEF ReadReturns, LocalRead, RemoteReadHit, RemoteReadFill
<1>7. QED
  BY <1>1, <1>3, <1>4, <1>5, <1>6 DEF ReadReturns, v0

\* The types of the history variables are kept.
LEMMA NextHistoryType ==
  ASSUME CodeInv, HistoryInv, [HistoryNext]_<<vars, history>>
  PROVE  HistoryTypeOK'
<1>1. TypeOK /\ NoHandlerThrows /\ HistoryTypeOK
  BY DEF CodeInv, CoherenceInv, HistoryInv
<1>2. log' \in [Block -> Seq(Data)]
  BY <1>1, LogKept
<1>3. issued' \in [Worker -> [Block -> Seq(Data)]] /\ stored' \in [Worker -> [Block -> Nat]]
  <2>1. ASSUME NEW v \in Worker, WritingLocal(v)
        PROVE  /\ issued' \in [Worker -> [Block -> Seq(Data)]]
               /\ stored' \in [Worker -> [Block -> Nat]]
    BY <1>1, <2>1, LocalWriteStep
  <2>2. ASSUME NEW v \in Worker, WritingRemote(v)
        PROVE  issued' \in [Worker -> [Block -> Seq(Data)]] /\ stored' = stored
    BY <1>1, <2>2, RemoteWriteIssues
  <2>3. ASSUME NEW v \in Worker, Storing(v)
        PROVE  issued' = issued /\ stored' \in [Worker -> [Block -> Nat]]
    BY <1>1, <2>3, StoreStep
  <2>4. QED
    BY <1>1, <2>1, <2>2, <2>3, StepKinds DEF NoWriteMoves, history, HistoryTypeOK
<1>4. seen' \in [Worker -> [Block -> Nat]]
  <2>1. ASSUME NEW v \in Worker, Reading(v) PROVE seen' \in [Worker -> [Block -> Nat]]
    <3>1. /\ next[v] \in Block
          /\ Version(next[v], ReadValue(v)) \in seen[v][next[v]] .. Len(log[next[v]])
      BY <2>1, ReadVersion DEF Reading
    <3>2. Version(next[v], ReadValue(v)) \in Nat
      BY <1>1, <3>1 DEF HistoryTypeOK
    <3>3. QED
      BY <1>1, <2>1, <3>1, <3>2, ReadStep
  <2>2. ASSUME ~ \E v \in Worker : Reading(v) PROVE seen' = seen
    BY <2>2 DEF HistoryNext, WritingLocal, WritingRemote, Storing, Silent, history
  <2>3. QED
    BY <1>1, <2>1, <2>2 DEF HistoryTypeOK
<1>5. QED
  BY <1>2, <1>3, <1>4 DEF HistoryTypeOK

\* A copy that w does not read in this step is the one it had, or is dropped.
LEMMA CacheKept ==
  ASSUME [HistoryNext]_<<vars, history>>, TypeOK, HistoryTypeOK, NEW w \in Worker,
         ~ Reading(w), NEW b \in Block, cache'[w][b] # Null
  PROVE  cache'[w][b] = cache[w][b]
<1>1. cache \in [Worker -> [Block -> Data \cup {Null}]] /\ nkey \in [Worker -> Block \cup {Null}]
  BY DEF TypeOK, MemoryTypeOK, ListenerTypeOK
<1>2. ASSUME NEW v \in Worker, Reading(v) PROVE cache'[w] = cache[w]
  BY <1>1, <1>2 DEF Reading, ReadReturns, LocalRead, RemoteReadHit, RemoteReadFill
<1>3. ASSUME NEW v \in Worker, WritingLocal(v) \/ WritingRemote(v) \/ Storing(v)
      PROVE  cache' = cache
  BY <1>3 DEF WritingLocal, WritingRemote, Storing, LocalWrite, RemoteWrite, ApplyWrite
<1>4. ASSUME NEW v \in Worker, InvalidateCache(v) PROVE cache'[w][b] = cache[w][b]
  <2>1. cache' = [cache EXCEPT ![v][nkey[v]] = Null] /\ nkey[v] \in Block
    BY <1>1, <1>4 DEF InvalidateCache
  <2>2. CASE v = w /\ nkey[v] = b
    BY <1>1, <2>1, <2>2
  <2>3. CASE ~ (v = w /\ nkey[v] = b)
    BY <1>1, <2>1, <2>3
  <2>4. QED
    BY <2>2, <2>3
<1>5. ASSUME NEW v \in Worker, Silent(v), ~ InvalidateCache(v) PROVE cache' = cache
  BY <1>5 DEF Silent, CallLe, CallEscreve, Call, RemoteReadMiss, NotifyBroadcaster, NoticeSent,
              RemoteWriteSent, ReadListener, HandleRead, ReceiveWrite, NotifyWrite, NotifyWriteSent,
              NotificationListener, ReceiveInval
<1>6. ASSUME Broadcaster PROVE cache' = cache
  BY <1>6 DEF Broadcaster, HandleNotify
<1>7. ASSUME UNCHANGED vars PROVE cache' = cache
  BY <1>7 DEF vars
<1>8. QED
  BY <1>2, <1>3, <1>4, <1>5, <1>6, <1>7 DEF HistoryNext

\* A response is one that was there, or the block as it is now at its maintainer; and
\* while w waits, it stays at its block and sees nothing new.
LEMMA ResponseKept ==
  ASSUME CodeInv, CodeInv', HistoryInv, [HistoryNext]_<<vars, history>>,
         NEW w \in Worker, NEW o \in Worker, NEW i \in DOMAIN readResp'[w][o]
  PROVE  /\ next'[w] = next[w] /\ next[w] \in Block /\ ~ Reading(w)
         /\ \/ readResp'[w][o][i] = local[next[w]]
            \/ \E j \in DOMAIN readResp[w][o] : readResp'[w][o][i] = readResp[w][o][j]
<1>1. TypeOK /\ TypeOK' /\ OneRequestPerReader /\ OneRequestPerReader' /\ HistoryTypeOK
  BY DEF CodeInv, CoherenceInv, HistoryInv
<1>2. [Next]_vars
  BY RecordedStep
<1>3. readResp'[w][o] \in Seq(Data) /\ readResp[w][o] \in Seq(Data)
  BY <1>1 DEF TypeOK, ChannelTypeOK
<1>4. pc'[w] = "awaiting"
  <2>1. readResp'[w][o] # <<>>
    BY <1>3
  <2>2. QED
    BY <1>1, <2>1 DEF OneRequestPerReader, OneRequestBetween, IsLocal, MemMap
<1>5. ~ Reading(w)
  <2>1. ASSUME ReadReturns(w) PROVE pc'[w] # "awaiting"
    BY <1>1, <2>1, AdvanceLeaves DEF ReadReturns, LocalRead, RemoteReadHit, RemoteReadFill
  <2>2. QED
    BY <1>4, <2>1 DEF Reading
<1>6. CASE MainStep(w)
  <2>1. ~ RemoteReadFill(w)
    BY <1>1, <1>4, AdvanceLeaves DEF RemoteReadFill
  <2>2. RemoteReadMiss(w)
    BY <1>1, <1>4, <1>6, <2>1, OtherMainSteps
  <2>3. readResp' = readResp /\ next' = next /\ pc[w] # "idle"
    BY <2>2 DEF RemoteReadMiss
  <2>4. next[w] \in Block
    BY <1>1, <2>3, NextIsBlock
  <2>5. QED
    BY <1>5, <2>3, <2>4
<1>7. ASSUME NEW r \in Worker, HandleRead(r, w)
      PROVE  /\ next' = next /\ pc' = pc
             /\ r = o => /\ readReq[o][w] # <<>>
                         /\ readResp'[w][o] = Append(readResp[w][o], local[Head(readReq[o][w])])
             /\ r # o => readResp'[w][o] = readResp[w][o]
  <2>1. /\ readResp' = [readResp EXCEPT ![w][r] = Append(@, local[Head(readReq[r][w])])]
        /\ readReq[r][w] # <<>> /\ next' = next /\ pc' = pc
    BY <1>7 DEF HandleRead, mainVars
  <2>2. readResp \in [Worker -> [Worker -> Seq(Data)]]
    BY <1>1 DEF TypeOK, ChannelTypeOK
  <2>3. QED
    BY <2>1, <2>2
<1>8. CASE \E r \in Worker : HandleRead(r, w)
  <2>1. PICK r \in Worker : HandleRead(r, w)
    BY <1>8
  <2>2. next' = next /\ pc' = pc /\ pc[w] = "awaiting"
    BY <1>4, <1>7, <2>1
  <2>3. next[w] \in Block
    BY <1>1, <2>2, NextIsBlock
  <2>4. CASE r = o
    <3>1. /\ readReq[o][w] # <<>>
          /\ readResp'[w][o] = Append(readResp[w][o], local[Head(readReq[o][w])])
      BY <1>7, <2>1, <2>4
    <3>2. OneRequestBetween(w, o)
      BY <1>1 DEF OneRequestPerReader
    <3>3. readReq[o][w] = <<next[w]>>
      BY <3>1, <3>2 DEF OneRequestBetween
    <3>4. Head(readReq[o][w]) = next[w]
      BY <3>3
    <3>5. local[next[w]] \in Data
      BY <1>1, <2>3 DEF TypeOK, MemoryTypeOK
    <3>6. \A k \in DOMAIN Append(readResp[w][o], local[next[w]]) :
            \/ Append(readResp[w][o], local[next[w]])[k] = local[next[w]]
            \/ \E j \in DOMAIN readResp[w][o] :
                 Append(readResp[w][o], local[next[w]])[k] = readResp[w][o][j]
      BY <1>3, <3>5, OldOrSent
    <3>7. QED
      BY <1>5, <2>2, <2>3, <3>1, <3>4, <3>6
  <2>5. CASE r # o
    BY <1>5, <1>7, <2>1, <2>2, <2>3, <2>5
  <2>6. QED
    BY <2>4, <2>5
<1>9. CASE ~ MainStep(w) /\ \A r \in Worker : ~ HandleRead(r, w)
  <2>1. pc'[w] = pc[w] /\ next'[w] = next[w] /\ readResp'[w] = readResp[w]
    BY <1>1, <1>2, <1>9, ReaderFrame
  <2>2. next[w] \in Block
    BY <1>1, <1>4, <2>1, NextIsBlock
  <2>3. QED
    BY <1>5, <2>1, <2>2
<1>10. QED
  BY <1>6, <1>8, <1>9

\* x is a version of the log l, and none before the first s writes.
SeenIn(s, l, x) == \E v \in s .. Len(l) : VersionIn(l, v, x)

\* It stays one when the log grows.
LEMMA SeenStays ==
  ASSUME TypeOK, HistoryTypeOK, NoHandlerThrows, [HistoryNext]_<<vars, history>>,
         NEW b \in Block, NEW s \in Nat, NEW x, SeenIn(s, log[b], x)
  PROVE  SeenIn(s, log'[b], x)
<1>1. /\ Len(log'[b]) \in Nat /\ Len(log[b]) \in Nat /\ Len(log[b]) <= Len(log'[b])
      /\ \A v, d : VersionIn(log[b], v, d) => VersionIn(log'[b], v, d)
  BY VersionsStay
<1>2. PICK v \in s .. Len(log[b]) : VersionIn(log[b], v, x)
  BY DEF SeenIn
<1>3. v \in s .. Len(log'[b])
  BY <1>1
<1>4. QED
  BY <1>1, <1>2, <1>3 DEF SeenIn

\* No copy is older than what its worker has seen: a step keeps it so.
LEMMA NextCopiesAreSeen ==
  ASSUME CodeInv, CodeInv', HistoryInv, [HistoryNext]_<<vars, history>>
  PROVE  CopiesAreSeen'
<1> SUFFICES ASSUME NEW w \in Worker
             PROVE  /\ \A b \in Block :
                         /\ seen'[w][b] <= Len(log'[b])
                         /\ cache'[w][b] # Null => SeenIn(seen'[w][b], log'[b], cache'[w][b])
                    /\ \A o \in Worker : \A i \in DOMAIN readResp'[w][o] :
                         SeenIn(seen'[w][next'[w]], log'[next'[w]], readResp'[w][o][i])
  BY DEF CopiesAreSeen, IsVersion, VersionIn, SeenIn
<1>1. /\ TypeOK /\ TypeOK' /\ NoHandlerThrows /\ CopiesAreRemote /\ HistoryTypeOK /\ LogIsStored
  BY DEF CodeInv, CoherenceInv, HistoryInv
<1>2. /\ \A b \in Block :
           /\ seen[w][b] <= Len(log[b]) /\ seen[w][b] \in Nat
           /\ cache[w][b] # Null => SeenIn(seen[w][b], log[b], cache[w][b])
      /\ \A o \in Worker : \A i \in DOMAIN readResp[w][o] :
           SeenIn(seen[w][next[w]], log[next[w]], readResp[w][o][i])
  BY <1>1 DEF HistoryInv, CopiesAreSeen, IsVersion, VersionIn, SeenIn, HistoryTypeOK
<1>3. \A b \in Block : /\ Len(log'[b]) \in Nat /\ Len(log[b]) \in Nat
                       /\ Len(log[b]) <= Len(log'[b])
  BY <1>1, VersionsStay
<1>4. ASSUME NEW b \in Block, NEW x, SeenIn(seen[w][b], log[b], x), seen'[w][b] = seen[w][b]
      PROVE  SeenIn(seen'[w][b], log'[b], x)
  BY <1>1, <1>2, <1>4, SeenStays
<1>5. CASE Reading(w)
  <2> DEFINE b0 == next[w]
             x0 == ReadValue(w)
             v0 == Version(b0, x0)
  <2>1. /\ b0 \in Block /\ v0 \in seen[w][b0] .. Len(log[b0])
        /\ VersionIn(log[b0], v0, x0)
    BY <1>5, ReadVersion DEF Reading
  <2>2. v0 \in Nat
    BY <1>2, <2>1
  <2>3. /\ \A b \in Block : seen'[w][b] = IF b = b0 THEN Version(b, x0) ELSE seen[w][b]
        /\ log' = log
        /\ \A b \in Block : b # b0 => cache'[w][b] = cache[w][b]
        /\ ~ IsLocal(w, b0) => cache'[w][b0] = x0
        /\ IsLocal(w, b0) /\ pc[w] = "reading" => cache' = cache
    BY <1>1, <1>5, <2>1, <2>2, ReadStep
  <2>4. IsLocal(w, b0) => pc[w] = "reading" /\ cache[w][b0] = Null
    BY <1>1, <1>5, <2>1
       DEF CopiesAreRemote, Reading, ReadReturns, LocalRead, RemoteReadHit, RemoteReadFill
  <2>5. seen'[w][b0] = v0 /\ \A b \in Block : b # b0 => seen'[w][b] = seen[w][b]
    BY <2>1, <2>3
  <2> HIDE DEF v0, x0, b0
  <2>6. ASSUME NEW b \in Block
        PROVE  /\ seen'[w][b] <= Len(log'[b])
               /\ cache'[w][b] # Null => SeenIn(seen'[w][b], log'[b], cache'[w][b])
    <3>1. CASE b # b0
      <4>1. seen'[w][b] = seen[w][b] /\ cache'[w][b] = cache[w][b] /\ log'[b] = log[b]
        BY <2>3, <2>5, <3>1
      <4>2. QED
        BY <1>2, <4>1
    <3>2. CASE b = b0
      <4>1. v0 <= Len(log'[b0]) /\ v0 \in v0 .. Len(log'[b0])
        BY <1>3, <2>1, <2>2, <2>3
      <4>2. SeenIn(v0, log'[b0], x0)
        BY <2>1, <2>3, <4>1 DEF SeenIn
      <4>3. cache'[w][b0] = Null \/ cache'[w][b0] = x0
        BY <2>3, <2>4
      <4>4. QED
        BY <2>5, <3>2, <4>1, <4>2, <4>3
    <3>3. QED
      BY <3>1, <3>2
  <2>7. ASSUME NEW o \in Worker, NEW i \in DOMAIN readResp'[w][o] PROVE FALSE
    BY <1>5, <2>7, ResponseKept
  <2>8. QED
    BY <2>6, <2>7
<1>6. CASE ~ Reading(w)
  <2>1. seen'[w] = seen[w]
    BY <1>1, <1>6, SeenKept
  <2>2. ASSUME NEW b \in Block
        PROVE  /\ seen'[w][b] <= Len(log'[b])
               /\ cache'[w][b] # Null => SeenIn(seen'[w][b], log'[b], cache'[w][b])
    <3>1. seen'[w][b] <= Len(log'[b])
      BY <1>2, <1>3, <2>1
    <3>2. ASSUME cache'[w][b] # Null PROVE SeenIn(seen'[w][b], log'[b], cache'[w][b])
      <4>1. cache'[w][b] = cache[w][b]
        BY <1>1, <1>6, <3>2, CacheKept
      <4>2. SeenIn(seen[w][b], log[b], cache[w][b])
        BY <1>2, <3>2, <4>1
      <4>3. QED
        BY <1>4, <2>1, <4>1, <4>2
    <3>3. QED
      BY <3>1, <3>2
  <2>3. ASSUME NEW o \in Worker, NEW i \in DOMAIN readResp'[w][o]
        PROVE  SeenIn(seen'[w][next'[w]], log'[next'[w]], readResp'[w][o][i])
    <3> DEFINE x == readResp'[w][o][i]
               b == next[w]
    <3>1. /\ next'[w] = b /\ b \in Block
          /\ x = local[b] \/ \E j \in DOMAIN readResp[w][o] : x = readResp[w][o][j]
      BY ResponseKept
    <3>2. SeenIn(seen[w][b], log[b], x)
      <4>1. ASSUME x = local[b] PROVE SeenIn(seen[w][b], log[b], x)
        <5>1. VersionIn(log[b], Len(log[b]), x)
          BY <1>1, <3>1, <4>1 DEF LogIsStored, IsVersion, VersionIn
        <5>2. Len(log[b]) \in seen[w][b] .. Len(log[b])
          BY <1>2, <1>3, <3>1
        <5> HIDE DEF x, b
        <5>3. QED
          BY <5>1, <5>2 DEF SeenIn
      <4>2. ASSUME NEW j \in DOMAIN readResp[w][o], x = readResp[w][o][j]
            PROVE  SeenIn(seen[w][b], log[b], x)
        BY <1>2, <4>2
      <4>3. QED
        BY <3>1, <4>1, <4>2
    <3> HIDE DEF x, b
    <3>3. SeenIn(seen'[w][b], log'[b], x)
      BY <1>4, <2>1, <3>1, <3>2
    <3>4. QED
      BY <3>1, <3>3 DEF x
  <2>4. QED
    BY <2>2, <2>3
<1>7. QED
  BY <1>5, <1>6

(***************************************************************************)
(* What is proved                                                          *)
(***************************************************************************)

\* Nothing is issued at first, and every copy is the content at the start.
LEMMA InitHistory == HistoryInit => HistoryInv
<1> SUFFICES ASSUME HistoryInit PROVE HistoryInv
  OBVIOUS
<1>1. HistoryTypeOK
  BY DEF HistoryInit, HistoryTypeOK
<1>2. Init /\ \A w \in Worker, b \in Block :
        issued[w][b] = <<>> /\ stored[w][b] = 0 /\ log[b] = <<>> /\ seen[w][b] = 0
  BY DEF HistoryInit
<1>3. IssuedInOrder
  BY <1>2 DEF IssuedInOrder
<1>4. RequestsInOrder
  BY <1>2 DEF Init, RequestsInOrder
<1>5. PendingIsInFlight
  BY <1>2 DEF Init, PendingIsInFlight
<1>6. LogIsStored
  <2>1. \A b \in Block : Len(log[b]) = 0 /\ (\A i \in DOMAIN log[b] : FALSE) /\ local[b] = Zero
    <3>1. Worker # {}
      BY ConfigAssumption DEF Worker
    <3>2. \A b \in Block : log[b] = <<>>
      BY <1>2, <3>1
    <3>3. \A b \in Block : local[b] = Zero
      BY <1>2 DEF Init
    <3>4. QED
      BY <3>2, <3>3
  <2>2. \A b \in Block : IsVersion(b, Len(log[b]), local[b])
    BY <2>1 DEF IsVersion
  <2>3. QED
    BY <2>1, <2>2 DEF LogIsStored
<1>7. CopiesAreSeen
  BY <1>2 DEF Init, CopiesAreSeen
<1>8. QED
  BY <1>1, <1>3, <1>4, <1>5, <1>6, <1>7 DEF HistoryInv

\* The inductive invariant is kept by every step.
LEMMA NextHistory ==
  CodeInv /\ CodeInv' /\ HistoryInv /\ [HistoryNext]_<<vars, history>> => HistoryInv'
<1> SUFFICES ASSUME CodeInv, CodeInv', HistoryInv, [HistoryNext]_<<vars, history>>
             PROVE  HistoryInv'
  OBVIOUS
<1>1. TypeOK /\ NoHandlerThrows
  BY DEF CodeInv, CoherenceInv
<1>2. /\ HistoryTypeOK /\ IssuedInOrder /\ RequestsInOrder /\ PendingIsInFlight /\ LogIsStored
  BY DEF HistoryInv
<1>3. HistoryTypeOK'
  BY NextHistoryType
<1>4. IssuedInOrder' /\ RequestsInOrder'
  BY <1>1, <1>2, NextIssuedInOrder, NextRequestsInOrder
<1>5. PendingIsInFlight' /\ LogIsStored'
  BY <1>1, <1>2, NextPendingIsInFlight, NextLogIsStored
<1>6. CopiesAreSeen'
  BY NextCopiesAreSeen
<1>7. QED
  BY <1>3, <1>4, <1>5, <1>6 DEF HistoryInv

\* No write is lost, stored twice or stored before an earlier one of its worker, and no
\* copy on its way to a reader is older than what the reader has seen (write_listener,
\* handle_read, RemoteRepository::read).
THEOREM HistoryInvariant == HistorySpec => []HistoryInv
<1>1. HistorySpec => HistoryInit /\ [][HistoryNext]_<<vars, history>>
  BY DEF HistorySpec
<1>2. QED
  BY <1>1, CodeInvariant, InitHistory, NextHistory, PTL

\* Reads of a block do not go back in time, whether they are served by the repository,
\* from the cache or by a response that newer writes have overtaken.
THEOREM ReadsDoNotGoBack == HistorySpec => MonotonicReads
<1>1. ASSUME CodeInv, HistoryInv, [HistoryNext]_<<vars, history>>,
             NEW w \in Worker, NEW b \in Block
      PROVE  seen[w][b] <= seen'[w][b]
  <2>1. TypeOK /\ HistoryTypeOK
    BY <1>1 DEF CodeInv, CoherenceInv, HistoryInv
  <2>2. seen[w][b] \in Nat
    BY <2>1 DEF HistoryTypeOK
  <2>3. CASE Reading(w)
    <3>1. /\ next[w] \in Block
          /\ Version(next[w], ReadValue(w)) \in seen[w][next[w]] .. Len(log[next[w]])
      BY <1>1, <2>3, ReadVersion DEF Reading
    <3>2. /\ Version(next[w], ReadValue(w)) \in Nat
          /\ Version(next[w], ReadValue(w)) >= seen[w][next[w]]
      BY <2>1, <3>1 DEF HistoryTypeOK
    <3>3. seen'[w][b] = IF b = next[w] THEN Version(b, ReadValue(w)) ELSE seen[w][b]
      BY <2>1, <2>3, <3>1, <3>2, ReadStep
    <3>4. QED
      BY <2>2, <3>2, <3>3
  <2>4. CASE ~ Reading(w)
    BY <1>1, <2>1, <2>2, <2>4, SeenKept
  <2>5. QED
    BY <2>3, <2>4
<1>2. CodeInv /\ HistoryInv /\ [HistoryNext]_<<vars, history>>
        => [\A w \in Worker, b \in Block : seen[w][b] <= seen'[w][b]]_<<vars, history>>
  BY <1>1
<1>3. HistorySpec => [][HistoryNext]_<<vars, history>>
  BY DEF HistorySpec
<1>4. QED
  BY <1>2, <1>3, CodeInvariant, HistoryInvariant, PTL DEF MonotonicReads

\* Block b is the worker's own exactly when CoherentMemory has it at home there.
LEMMA HomeOfBlock ==
  ASSUME NEW w \in Worker, NEW b \in Block
  PROVE  [c \in Block |-> RemoteTarget(c)][b] = w <=> IsLocal(w, b)
BY MaintainersAgree

\* Every step of the code, with its record, is one of CoherentMemory or leaves it be.
LEMMA StepIsCoherent ==
  CodeInv /\ HistoryInv /\ [HistoryNext]_<<vars, history>> => [Memory!Next]_(Memory!vars)
<1> SUFFICES ASSUME CodeInv, HistoryInv, [HistoryNext]_<<vars, history>>
             PROVE  Memory!Next \/ UNCHANGED Memory!vars
  OBVIOUS
<1>1. /\ TypeOK /\ NoHandlerThrows /\ HistoryTypeOK /\ IssuedInOrder /\ RequestsInOrder
      /\ PendingIsInFlight
  BY DEF CodeInv, CoherenceInv, HistoryInv
<1>2. ASSUME NEW v \in Worker, WritingLocal(v) PROVE Memory!Next
  <2>1. /\ next[v] \in Block /\ IsLocal(v, next[v])
        /\ local'[next[v]] = <<v, written[v] + 1>> /\ written'[v] = written[v] + 1
    BY <1>1, <1>2, LocalWriteStep
  <2>2. /\ issued' = [issued EXCEPT ![v][next[v]] = Append(@, <<v, written'[v]>>)]
        /\ stored' = [stored EXCEPT ![v][next[v]] = @ + 1]
        /\ log'    = [log EXCEPT ![next[v]] = Append(@, local'[next[v]])]
        /\ written' = [written EXCEPT ![v] = @ + 1]
        /\ seen' = seen
    BY <1>2 DEF WritingLocal, LocalWrite
  <2>3. log' = [log EXCEPT ![next[v]] = Append(@, <<v, written'[v]>>)]
    BY <2>1, <2>2
  <2>4. Memory!WriteOwn(v, next[v])
    BY <2>1, <2>2, <2>3, HomeOfBlock DEF Memory!WriteOwn, Memory!Issue
  <2>5. QED
    BY <2>1, <2>4 DEF Memory!Next
<1>3. ASSUME NEW v \in Worker, WritingRemote(v) PROVE Memory!Next
  <2>1. next[v] \in Block /\ ~ IsLocal(v, next[v])
    BY <1>1, <1>3, RemoteWriteIssues
  <2>2. /\ issued' = [issued EXCEPT ![v][next[v]] = Append(@, <<v, written'[v]>>)]
        /\ written' = [written EXCEPT ![v] = @ + 1]
        /\ stored' = stored /\ log' = log /\ seen' = seen
    BY <1>3 DEF WritingRemote, RemoteWrite
  <2>3. Memory!WriteRemote(v, next[v])
    BY <2>1, <2>2, HomeOfBlock DEF Memory!WriteRemote, Memory!Issue
  <2>4. QED
    BY <2>1, <2>3 DEF Memory!Next
<1>4. ASSUME NEW v \in Worker, Storing(v) PROVE Memory!Next
  <2> DEFINE b == whand[v].key
             d == whand[v].data
             u == d[1]
  <2>1. /\ b \in Block /\ u \in Worker
        /\ stored[u][b] + 1 \in DOMAIN issued[u][b] /\ issued[u][b][stored[u][b] + 1] = d
    BY <1>1, <1>4, StoredInTurn
  <2>2. /\ stored' = [stored EXCEPT ![u][b] = @ + 1]
        /\ log' = [log EXCEPT ![b] = Append(@, d)]
        /\ issued' = issued /\ seen' = seen /\ written' = written
    BY <1>4 DEF Storing, ApplyWrite, mainVars
  <2> HIDE DEF b, d, u
  <2>3. stored[u][b] < Len(issued[u][b])
    BY <1>1, <2>1, IssuedEntry
  <2>4. Memory!Store(u, b)
    BY <2>1, <2>2, <2>3 DEF Memory!Store
  <2>5. QED
    BY <2>1, <2>4 DEF Memory!Next
<1>5. ASSUME NEW v \in Worker, Reading(v) PROVE Memory!Next
  <2> DEFINE b == next[v]
             n == Version(b, ReadValue(v))
  <2>1. b \in Block /\ n \in seen[v][b] .. Len(log[b]) /\ (IsLocal(v, b) => n = Len(log[b]))
    BY <1>5, ReadVersion DEF Reading
  <2>2. /\ seen' = [seen EXCEPT ![v][b] = n]
        /\ issued' = issued /\ stored' = stored /\ log' = log
    BY <1>5 DEF Reading
  <2>3. written' = written
    BY <1>5 DEF Reading, ReadReturns, LocalRead, RemoteReadHit, RemoteReadFill
  <2> HIDE DEF n, b
  <2>4. Memory!Read(v, b)
    BY <2>1, <2>2, <2>3, HomeOfBlock DEF Memory!Read
  <2>5. QED
    BY <2>1, <2>4 DEF Memory!Next
<1>6. ASSUME \A v \in Worker : ~ Reading(v) PROVE seen' = seen
  BY <1>6 DEF HistoryNext, WritingLocal, WritingRemote, Storing, Silent, history
<1>7. ASSUME NoWriteMoves, seen' = seen PROVE UNCHANGED Memory!vars
  BY <1>7 DEF NoWriteMoves, Memory!vars
<1>8. ASSUME NEW v \in Worker, NEW src \in Worker, ReceiveWrite(v, src), UNCHANGED history
      PROVE  UNCHANGED Memory!vars
  BY <1>8 DEF ReceiveWrite, mainVars, history, Memory!vars
<1>9. QED
  BY <1>1, <1>2, <1>3, <1>4, <1>5, <1>6, <1>7, <1>8, StepKinds

\* The distributed memory implements CoherentMemory (its safety: every write is stored
\* once and in the order of its worker's calls, and every read returns a version that
\* was stored, no older than those read before and the latest one at the maintainer).
THEOREM MemoryIsCoherent == HistorySpec => Memory!Spec
<1>1. HistoryInit => Memory!Init
  BY DEF HistoryInit, Init, Memory!Init
<1>2. HistorySpec => HistoryInit /\ [][HistoryNext]_<<vars, history>>
  BY DEF HistorySpec
<1>3. QED
  BY <1>1, <1>2, StepIsCoherent, CodeInvariant, HistoryInvariant, PTL DEF Memory!Spec

=============================================================================
