------------------------ MODULE SharedMemoryHistory ------------------------
(***************************************************************************)
(* SharedMemory with history variables that record what the main threads   *)
(* asked for and what they were given, and the refinement they are for:    *)
(* SharedMemory implements CoherentMemory.                                 *)
(***************************************************************************)
EXTENDS SharedMemory

VARIABLES
  issued,   \* issued[w][b]: the writes of w to b, in the order of its calls
  stored,   \* stored[w][b]: how many of those the maintainer of b has stored
  log,      \* log[b]: the writes stored at the maintainer of b, in that order
  seen      \* seen[w][b]: the version of b that w's latest read of b returned

history == <<issued, stored, log, seen>>

\* Content d is version v of block b: at that place in log[b], or Zero at the start.
IsVersion(b, v, d) ==
  /\ v \in 0 .. Len(log[b])
  /\ d = IF v = 0 THEN Zero ELSE log[b][v]

Version(b, d) == CHOOSE v \in 0 .. Len(log[b]) : IsVersion(b, v, d)

\* The content that a read of block next[w] returns to the main thread of w.
ReadValue(w) ==
  LET b == next[w]
  IN  IF IsLocal(w, b) THEN local[b]
      ELSE IF pc[w] = "awaiting" THEN Head(readResp[w][RemoteTarget(b)])
      ELSE cache[w][b]

ReadReturns(w) == LocalRead(w) \/ RemoteReadHit(w) \/ RemoteReadFill(w)

HistoryInit ==
  /\ Init
  /\ issued = [w \in Worker |-> [b \in Block |-> <<>>]]
  /\ stored = [w \in Worker |-> [b \in Block |-> 0]]
  /\ log    = [b \in Block |-> <<>>]
  /\ seen   = [w \in Worker |-> [b \in Block |-> 0]]

Reading(w) ==
  /\ ReadReturns(w)
  /\ seen' = [seen EXCEPT ![w][next[w]] = Version(next[w], ReadValue(w))]
  /\ UNCHANGED <<issued, stored, log>>

WritingLocal(w) ==
  /\ LocalWrite(w)
  /\ issued' = [issued EXCEPT ![w][next[w]] = Append(@, <<w, written'[w]>>)]
  /\ stored' = [stored EXCEPT ![w][next[w]] = @ + 1]
  /\ log'    = [log EXCEPT ![next[w]] = Append(@, local'[next[w]])]
  /\ UNCHANGED seen

WritingRemote(w) ==
  /\ RemoteWrite(w)
  /\ issued' = [issued EXCEPT ![w][next[w]] = Append(@, <<w, written'[w]>>)]
  /\ UNCHANGED <<stored, log, seen>>

Storing(w) ==
  LET b == whand[w].key
      d == whand[w].data
  IN  /\ ApplyWrite(w)
      /\ stored' = [stored EXCEPT ![d[1]][b] = @ + 1]
      /\ log'    = [log EXCEPT ![b] = Append(@, d)]
      /\ UNCHANGED <<issued, seen>>

Silent(w) ==
  /\ \/ CallLe(w)
     \/ CallEscreve(w)
     \/ RemoteReadMiss(w)
     \/ NotifyBroadcaster(w)
     \/ NoticeSent(w)
     \/ RemoteWriteSent(w)
     \/ ReadListener(w)
     \/ \E src \in Worker : ReceiveWrite(w, src)
     \/ NotifyWrite(w)
     \/ NotifyWriteSent(w)
     \/ NotificationListener(w)
  /\ UNCHANGED history

HistoryNext ==
  \/ \E w \in Worker :
       Reading(w) \/ WritingLocal(w) \/ WritingRemote(w) \/ Storing(w) \/ Silent(w)
  \/ Broadcaster /\ UNCHANGED history

HistorySpec == HistoryInit /\ [][HistoryNext]_<<vars, history>>

FairHistorySpec == HistorySpec /\ Fairness

-----------------------------------------------------------------------------
\* The history variables are those of CoherentMemory.
Memory == INSTANCE CoherentMemory WITH Home <- [b \in Block |-> RemoteTarget(b)]

\* What a program that calls escreve and le may rely on.  Each worker's writes of a
\* block are stored once each and in the order of its calls, every one of them in the
\* end (write_listener takes them from a FIFO channel, and handle_write stores what it
\* took); a read returns a version of the block that has been stored, no older than an
\* earlier read's and the latest one at the maintainer, whether it comes from the
\* repository, from the cache or in a response that was overtaken on its way.
ImplementsCoherentMemory == Memory!FairSpec

\* Reads do not go back in time: once a worker has read a version of a block,
\* by a local read, from its cache or from the maintainer, none of its later
\* reads of that block returns an older one (RemoteRepository::read fills the
\* cache in the call that fetched; invalidate_cache drops, never restores).
MonotonicReads ==
  [][\A w \in Worker, b \in Block : seen[w][b] <= seen'[w][b]]_<<vars, history>>

\* Write n of worker w, to block b, is on its way to the maintainer or in the hands of
\* the maintainer's write_listener.
InFlight(w, b, n) ==
  LET o == ResolveMaintainer(b)
      m == [key |-> b, data |-> <<w, n>>]
  IN  \/ \E i \in DOMAIN writeReq[o][w] : writeReq[o][w][i] = m
      \/ wpc[o] = "apply" /\ whand[o] = m

\* Write n of worker w is one of block b that is not stored yet.
Pending(w, b, n) ==
  \E i \in stored[w][b] + 1 .. Len(issued[w][b]) : issued[w][b][i] = <<w, n>>

HistoryTypeOK ==
  /\ issued \in [Worker -> [Block -> Seq(Data)]]
  /\ stored \in [Worker -> [Block -> Nat]]
  /\ log    \in [Block -> Seq(Data)]
  /\ seen   \in [Worker -> [Block -> Nat]]

\* The writes of a worker are numbered in the order of its calls; those of its own
\* blocks are stored.
IssuedInOrder ==
  \A w \in Worker, b \in Block :
    /\ stored[w][b] <= Len(issued[w][b])
    /\ IsLocal(w, b) => stored[w][b] = Len(issued[w][b])
    /\ \A i \in DOMAIN issued[w][b] :
         /\ issued[w][b][i][1] = w
         /\ issued[w][b][i][2] \in 1 .. written[w]
         /\ \A j \in DOMAIN issued[w][b] : i < j => issued[w][b][i][2] < issued[w][b][j][2]

\* A channel holds requests of its sender in the order of the calls, and a
\* write_listener an earlier one than those that are still in the channel.
RequestsInOrder ==
  \A o, w \in Worker :
    /\ \A i \in DOMAIN writeReq[o][w] :
         /\ writeReq[o][w][i].data[1] = w
         /\ writeReq[o][w][i].data[2] \in 1 .. written[w]
         /\ \A j \in DOMAIN writeReq[o][w] :
              i < j => writeReq[o][w][i].data[2] < writeReq[o][w][j].data[2]
    /\ wpc[o] = "apply" /\ whand[o].data[1] = w =>
         /\ whand[o].data[2] \in 1 .. written[w]
         /\ \A i \in DOMAIN writeReq[o][w] : whand[o].data[2] < writeReq[o][w][i].data[2]

\* No write is lost and none is stored twice: in flight are those that are pending.
PendingIsInFlight ==
  \A w \in Worker, b \in Block : \A n \in 1 .. written[w] :
    Pending(w, b, n) <=> InFlight(w, b, n)

\* A block holds the last write of its log, and the log has every stored write once.
LogIsStored ==
  \A b \in Block :
    /\ IsVersion(b, Len(log[b]), local[b])
    /\ \A i \in DOMAIN log[b] :
         /\ \E w \in Worker : \E j \in 1 .. stored[w][b] : issued[w][b][j] = log[b][i]
         /\ \A j \in DOMAIN log[b] : log[b][i] = log[b][j] => i = j

\* What a worker has in its cache, or is about to be sent, is no older than what it has
\* seen of the block.
CopiesAreSeen ==
  \A w \in Worker :
    /\ \A b \in Block :
         /\ seen[w][b] <= Len(log[b])
         /\ cache[w][b] # Null =>
              \E v \in seen[w][b] .. Len(log[b]) : IsVersion(b, v, cache[w][b])
    /\ \A o \in Worker : \A i \in DOMAIN readResp[w][o] :
         \E v \in seen[w][next[w]] .. Len(log[next[w]]) :
           IsVersion(next[w], v, readResp[w][o][i])

\* The inductive invariant behind the refinement and MonotonicReads, together with
\* CoherenceInv and NoHandlerThrows: the writes of a block are issued, requested, stored
\* and read in one order (writeReq's channels, write_listener, the cache).
HistoryInv ==
  /\ HistoryTypeOK
  /\ IssuedInOrder
  /\ RequestsInOrder
  /\ PendingIsInFlight
  /\ LogIsStored
  /\ CopiesAreSeen

\* What the report promises the main thread (article.tex:186-191: it need not
\* care whether an access is local or remote, nor about cache invalidation): a
\* read returns the worker's own latest write of the block, or a later one.
ReadYourWrites ==
  [][\A w \in Worker :
       LET b   == next[w]
           own == issued[w][b]
       IN  ReadReturns(w) /\ own # <<>> =>
             /\ stored[w][b] = Len(own)
             /\ Version(b, own[Len(own)]) <= Version(b, ReadValue(w))]_<<vars, history>>

=============================================================================
