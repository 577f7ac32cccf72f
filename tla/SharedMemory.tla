---------------------------- MODULE SharedMemory ----------------------------
(***************************************************************************)
(* The distributed shared memory of trabalho_2: worker processes that      *)
(* maintain blocks and cache the blocks of the others, and a broadcaster   *)
(* process that spreads cache invalidations.                               *)
(*                                                                         *)
(* Every worker process w runs four threads that share its repositories:   *)
(*   - the main thread          pc, next, final, written                   *)
(*   - read_listener            one atomic handler                         *)
(*   - write_listener           wpc, whand                                 *)
(*   - notification_listener    nkey                                       *)
(* The broadcaster process runs notification_broadcaster.  MPI channels    *)
(* are FIFO per sender, receiver and tag.                                  *)
(*                                                                         *)
(* A block's content is abstracted to the identity of the write it comes   *)
(* from: <<w, n>> is the n-th block write that worker w issues.            *)
(***************************************************************************)
EXTENDS MemoryMap, Sequences

CONSTANTS
  MaxWrites,    \* bound: MaxWrites[w] is the number of block writes of worker w
  EagerSend,    \* MPI_Send buffers its message, or blocks until it is received
  Null          \* no copy in the cache (nullptr), nothing in a thread's hands

Zero == <<0, 0>>     \* the zero-filled block of the LocalRepository constructor

Data == Worker \X Nat

Request == [key : Block, data : Data]      \* WriteMessageBuffer

\* NotificationMessageBuffer, and the thread of the process that sent it.
Notice == [key : Block, by : {"main", "write_listener"}]

ASSUME BoundAssumption == MaxWrites \in [Worker -> Nat]

ASSUME SendAssumption == EagerSend \in BOOLEAN

ASSUME NullAssumption == Null \notin Data \cup Block \cup Request

VARIABLES
  local,      \* local[b]: LocalRepository.blocks[b] at b's maintainer
  cache,      \* cache[w][b]: RemoteRepository.blocks[b].second at worker w
  mtx,        \* mtx[w]: RemoteRepository.mtx, "free", "shared" or "unique"
  pc,         \* main thread: where it is in worker_proc's loop
  next,       \* main thread: the block its escreve or le has come to
  final,      \* main thread: final_pos of its escreve or le
  written,    \* main thread: block writes issued so far
  wpc,        \* write_listener: where it is in handle_write
  whand,      \* write_listener: the request it has received, or Null
  nkey,       \* notification_listener: the key it is to invalidate, or Null
  readReq,    \* readReq[o][w]: BLOCK_READ_REQUEST messages from w to o
  readResp,   \* readResp[w][o]: BLOCK_READ_RESPONSE messages from o to w
  writeReq,   \* writeReq[o][w]: BLOCK_WRITE_REQUEST messages from w to o
  notices,    \* notices[w]: BLOCK_UPDATE_NOTIFICATION messages from w
  invals      \* invals[w]: broadcasts that worker w has yet to receive

mainVars    == <<pc, next, final, written>>
writerVars  == <<wpc, whand>>
channelVars == <<readReq, readResp, writeReq, notices, invals>>

vars == <<local, cache, mtx, mainVars, writerVars, nkey, channelVars>>

MemoryTypeOK ==
  /\ local \in [Block -> Data]
  /\ cache \in [Worker -> [Block -> Data \cup {Null}]]
  /\ mtx   \in [Worker -> {"free", "shared", "unique"}]

Phase == {"reading", "awaiting", "writing", "sendingWrite", "notifying",
          "sendingNotice"}

MainTypeOK ==
  /\ pc      \in [Worker -> {"idle"} \cup Phase]
  /\ next    \in [Worker -> Nat]
  /\ final   \in [Worker -> Nat]
  /\ written \in [Worker -> Nat]
  /\ \A w \in Worker : pc[w] # "idle" => next[w] < final[w] /\ final[w] <= NumBlocks

ListenerTypeOK ==
  /\ wpc   \in [Worker -> {"probe", "apply", "notify", "sending"}]
  /\ whand \in [Worker -> Request \cup {Null}]
  /\ nkey  \in [Worker -> Block \cup {Null}]
  /\ \A w \in Worker : wpc[w] = "probe" <=> whand[w] = Null

ChannelTypeOK ==
  /\ readReq  \in [Worker -> [Worker -> Seq(Block)]]
  /\ readResp \in [Worker -> [Worker -> Seq(Data)]]
  /\ writeReq \in [Worker -> [Worker -> Seq(Request)]]
  /\ notices  \in [Worker -> Seq(Notice)]
  /\ invals   \in [Worker -> Seq(Block)]

TypeOK == MemoryTypeOK /\ MainTypeOK /\ ListenerTypeOK /\ ChannelTypeOK

Init ==
  /\ local    = [b \in Block |-> Zero]
  /\ cache    = [w \in Worker |-> [b \in Block |-> Null]]
  /\ mtx      = [w \in Worker |-> "free"]
  /\ pc       = [w \in Worker |-> "idle"]
  /\ next     = [w \in Worker |-> 0]
  /\ final    = [w \in Worker |-> 0]
  /\ written  = [w \in Worker |-> 0]
  /\ wpc      = [w \in Worker |-> "probe"]
  /\ whand    = [w \in Worker |-> Null]
  /\ nkey     = [w \in Worker |-> Null]
  /\ readReq  = [o \in Worker |-> [w \in Worker |-> <<>>]]
  /\ readResp = [w \in Worker |-> [o \in Worker |-> <<>>]]
  /\ writeReq = [o \in Worker |-> [w \in Worker |-> <<>>]]
  /\ notices  = [w \in Worker |-> <<>>]
  /\ invals   = [w \in Worker |-> <<>>]

-----------------------------------------------------------------------------
(***************************************************************************)
(* The main thread: worker_proc's loop, escreve and le.                    *)
(***************************************************************************)

\* worker_proc draws an access; escreve and le turn it into a range of blocks.
\* A size of 0 spans no block: the call returns at once and changes nothing.
Call(w, phase) ==
  /\ pc[w] = "idle"
  /\ \E posicao \in Block : \E tamanho \in DrawnSizes(posicao) :
       LET final_pos == posicao + ScopedBlocks(tamanho)
       IN  /\ posicao < final_pos
           /\ final_pos <= NumBlocks
           /\ phase = "writing" => written[w] + (final_pos - posicao) <= MaxWrites[w]
           /\ next'  = [next  EXCEPT ![w] = posicao]
           /\ final' = [final EXCEPT ![w] = final_pos]
  /\ pc' = [pc EXCEPT ![w] = phase]
  /\ UNCHANGED <<local, cache, mtx, written, writerVars, nkey, channelVars>>

CallLe(w) == Call(w, "reading")

CallEscreve(w) == Call(w, "writing")

\* Mutant: the loop bound is off by one.
MutantAdvance(w, phase) ==
  IF next[w] + 1 <= final[w]
  THEN /\ pc'    = [pc   EXCEPT ![w] = phase]
       /\ next'  = [next EXCEPT ![w] = @ + 1]
       /\ UNCHANGED final
  ELSE /\ pc'    = [pc    EXCEPT ![w] = "idle"]
       /\ next'  = [next  EXCEPT ![w] = 0]
       /\ final' = [final EXCEPT ![w] = 0]

\* The i++ of the loops of escreve and le: on to the next block, in the same
\* phase of the loop, or back to worker_proc.
Advance(w, phase) ==
  IF next[w] + 1 < final[w]
  THEN /\ pc'    = [pc   EXCEPT ![w] = phase]
       /\ next'  = [next EXCEPT ![w] = @ + 1]
       /\ UNCHANGED final
  ELSE /\ pc'    = [pc    EXCEPT ![w] = "idle"]
       /\ next'  = [next  EXCEPT ![w] = 0]
       /\ final' = [final EXCEPT ![w] = 0]

\* repository->read of a block this process maintains.
LocalRead(w) ==
  /\ pc[w] = "reading"
  /\ IsLocal(w, next[w])
  /\ Advance(w, "reading")
  /\ UNCHANGED <<local, cache, mtx, written, writerVars, nkey, channelVars>>

\* RemoteRepository::read with a copy in the cache: served from the cache.
RemoteReadHit(w) ==
  /\ pc[w] = "reading"
  /\ ~ IsLocal(w, next[w])
  /\ mtx[w] # "unique"
  /\ cache[w][next[w]] # Null
  /\ Advance(w, "reading")
  /\ UNCHANGED <<local, cache, mtx, written, writerVars, nkey, channelVars>>

\* Mutant: every block of the access_map is paired with the remote repository.
MutantRemoteReadMiss(w) ==
  LET b == next[w]
      o == RemoteTarget(b)
  IN  /\ pc[w] = "reading"
      /\ mtx[w] # "unique"
      /\ cache[w][b] = Null
      /\ mtx'     = [mtx EXCEPT ![w] = "shared"]
      /\ readReq' = [readReq EXCEPT ![o][w] = Append(@, b)]
      /\ pc'      = [pc EXCEPT ![w] = "awaiting"]
      /\ UNCHANGED <<local, cache, next, final, written, writerVars, nkey,
                     readResp, writeReq, notices, invals>>

\* RemoteRepository::read without a copy: the request is sent under the shared
\* lock, which stays held until the response has been stored.
RemoteReadMiss(w) ==
  LET b == next[w]
      o == RemoteTarget(b)
  IN  /\ pc[w] = "reading"
      /\ ~ IsLocal(w, b)
      /\ mtx[w] # "unique"
      /\ cache[w][b] = Null
      /\ mtx'     = [mtx EXCEPT ![w] = "shared"]
      /\ readReq' = [readReq EXCEPT ![o][w] = Append(@, b)]
      /\ pc'      = [pc EXCEPT ![w] = "awaiting"]
      /\ UNCHANGED <<local, cache, next, final, written, writerVars, nkey,
                     readResp, writeReq, notices, invals>>

\* Mutant: the shared lock is never released.
MutantRemoteReadFill(w) ==
  LET b == next[w]
      o == RemoteTarget(b)
  IN  /\ pc[w] = "awaiting"
      /\ readResp[w][o] # <<>>
      /\ cache'    = [cache EXCEPT ![w][b] = Head(readResp[w][o])]
      /\ readResp' = [readResp EXCEPT ![w][o] = Tail(@)]
      /\ Advance(w, "reading")
      /\ UNCHANGED <<local, mtx, written, writerVars, nkey,
                     readReq, writeReq, notices, invals>>

\* The rest of that call: MPI_Recv from the maintainer, the copy kept in the
\* cache, the shared lock released.
RemoteReadFill(w) ==
  LET b == next[w]
      o == RemoteTarget(b)
  IN  /\ pc[w] = "awaiting"
      /\ readResp[w][o] # <<>>
      /\ cache'    = [cache EXCEPT ![w][b] = Head(readResp[w][o])]
      /\ readResp' = [readResp EXCEPT ![w][o] = Tail(@)]
      /\ mtx'      = [mtx EXCEPT ![w] = "free"]
      /\ Advance(w, "reading")
      /\ UNCHANGED <<local, written, writerVars, nkey,
                     readReq, writeReq, notices, invals>>

\* LocalRepository::write by the main thread, first half: the assignment under
\* the lock of the local repository.
LocalWrite(w) ==
  /\ pc[w] = "writing"
  /\ IsLocal(w, next[w])
  /\ local'   = [local EXCEPT ![next[w]] = <<w, written[w] + 1>>]
  /\ written' = [written EXCEPT ![w] = @ + 1]
  /\ pc'      = [pc EXCEPT ![w] = "notifying"]
  /\ UNCHANGED <<cache, mtx, next, final, writerVars, nkey, channelVars>>

\* LocalRepository::write, second half, after the lock has been released: the
\* notification is sent to the broadcaster.
NotifyBroadcaster(w) ==
  /\ pc[w] = "notifying"
  /\ notices' = [notices EXCEPT ![w] = Append(@, [key |-> next[w], by |-> "main"])]
  /\ IF EagerSend
     THEN Advance(w, "writing")
     ELSE pc' = [pc EXCEPT ![w] = "sendingNotice"] /\ UNCHANGED <<next, final>>
  /\ UNCHANGED <<local, cache, mtx, written, writerVars, nkey,
                 readReq, readResp, writeReq, invals>>

\* A blocking MPI_Send of a notification returns once it has been received.
NoticeReceived(w, thread) ==
  \A i \in DOMAIN notices[w] : notices[w][i].by # thread

NoticeSent(w) ==
  /\ pc[w] = "sendingNotice"
  /\ NoticeReceived(w, "main")
  /\ Advance(w, "writing")
  /\ UNCHANGED <<local, cache, mtx, written, writerVars, nkey, channelVars>>

\* RemoteRepository::write: the request goes to the maintainer under the unique
\* lock.  The writer's own cached copy is left as it is.
RemoteWrite(w) ==
  LET b == next[w]
      o == ResolveMaintainer(b)
      m == [key |-> b, data |-> <<w, written[w] + 1>>]
  IN  /\ pc[w] = "writing"
      /\ ~ IsLocal(w, b)
      /\ mtx[w] = "free"
      /\ writeReq' = [writeReq EXCEPT ![o][w] = Append(@, m)]
      /\ written'  = [written EXCEPT ![w] = @ + 1]
      /\ IF EagerSend
         THEN Advance(w, "writing") /\ UNCHANGED mtx
         ELSE /\ pc'  = [pc EXCEPT ![w] = "sendingWrite"]
              /\ mtx' = [mtx EXCEPT ![w] = "unique"]
              /\ UNCHANGED <<next, final>>
      /\ UNCHANGED <<local, cache, writerVars, nkey,
                     readReq, readResp, notices, invals>>

\* A blocking MPI_Send of a write request returns once it has been received.
RemoteWriteSent(w) ==
  /\ pc[w] = "sendingWrite"
  /\ writeReq[ResolveMaintainer(next[w])][w] = <<>>
  /\ mtx' = [mtx EXCEPT ![w] = "free"]
  /\ Advance(w, "writing")
  /\ UNCHANGED <<local, cache, written, writerVars, nkey, channelVars>>

Main(w) ==
  \/ LocalRead(w)
  \/ RemoteReadHit(w)
  \/ RemoteReadMiss(w)
  \/ RemoteReadFill(w)
  \/ LocalWrite(w)
  \/ NotifyBroadcaster(w)
  \/ NoticeSent(w)
  \/ RemoteWrite(w)
  \/ RemoteWriteSent(w)

-----------------------------------------------------------------------------
(***************************************************************************)
(* The listeners of worker w, and the broadcaster.                         *)
(***************************************************************************)

\* Mutant: the request is looked at (MPI_Iprobe) but never received.
MutantHandleRead(w, src) ==
  /\ readReq[w][src] # <<>>
  /\ IsLocal(w, Head(readReq[w][src]))
  /\ readResp' = [readResp EXCEPT ![src][w] =
                    Append(@, local[Head(readReq[w][src])])]
  /\ UNCHANGED <<local, cache, mtx, mainVars, writerVars, nkey,
                 readReq, writeReq, notices, invals>>

\* read_listener finds a request from src and runs handle_read.  Between its
\* read and its send the handler holds the value as the channel would, so the
\* handler is one step.  It throws when the block is not its own: NoHandlerThrows
\* says that the guard on IsLocal here and in ApplyWrite never blocks.
HandleRead(w, src) ==
  /\ readReq[w][src] # <<>>
  /\ IsLocal(w, Head(readReq[w][src]))
  /\ readReq'  = [readReq EXCEPT ![w][src] = Tail(@)]
  /\ readResp' = [readResp EXCEPT ![src][w] =
                    Append(@, local[Head(readReq[w][src])])]
  /\ UNCHANGED <<local, cache, mtx, mainVars, writerVars, nkey,
                 writeReq, notices, invals>>

\* Mutant: the listener drains the channel and keeps the latest request only.
MutantReceiveWrite(w, src) ==
  /\ wpc[w] = "probe"
  /\ writeReq[w][src] # <<>>
  /\ whand'    = [whand EXCEPT ![w] = writeReq[w][src][Len(writeReq[w][src])]]
  /\ writeReq' = [writeReq EXCEPT ![w][src] = <<>>]
  /\ wpc'      = [wpc EXCEPT ![w] = "apply"]
  /\ UNCHANGED <<local, cache, mtx, mainVars, nkey,
                 readReq, readResp, notices, invals>>

\* write_listener finds a request from src; handle_write receives it.
ReceiveWrite(w, src) ==
  /\ wpc[w] = "probe"
  /\ writeReq[w][src] # <<>>
  /\ whand'    = [whand EXCEPT ![w] = Head(writeReq[w][src])]
  /\ writeReq' = [writeReq EXCEPT ![w][src] = Tail(@)]
  /\ wpc'      = [wpc EXCEPT ![w] = "apply"]
  /\ UNCHANGED <<local, cache, mtx, mainVars, nkey,
                 readReq, readResp, notices, invals>>

\* Mutant: the block is stored without the notification of LocalRepository::write.
MutantApplyWrite(w) ==
  /\ wpc[w] = "apply"
  /\ IsLocal(w, whand[w].key)
  /\ local' = [local EXCEPT ![whand[w].key] = whand[w].data]
  /\ wpc'   = [wpc EXCEPT ![w] = "probe"]
  /\ whand' = [whand EXCEPT ![w] = Null]
  /\ UNCHANGED <<cache, mtx, mainVars, nkey, channelVars>>

\* handle_write, LocalRepository::write: the assignment under the lock.
ApplyWrite(w) ==
  /\ wpc[w] = "apply"
  /\ IsLocal(w, whand[w].key)
  /\ local' = [local EXCEPT ![whand[w].key] = whand[w].data]
  /\ wpc'   = [wpc EXCEPT ![w] = "notify"]
  /\ UNCHANGED <<cache, mtx, mainVars, whand, nkey, channelVars>>

\* handle_write, LocalRepository::write: the notification, sent after the lock
\* has been released.
NotifyWrite(w) ==
  /\ wpc[w] = "notify"
  /\ notices' = [notices EXCEPT ![w] =
                   Append(@, [key |-> whand[w].key, by |-> "write_listener"])]
  /\ IF EagerSend
     THEN /\ wpc'   = [wpc EXCEPT ![w] = "probe"]
          /\ whand' = [whand EXCEPT ![w] = Null]
     ELSE wpc' = [wpc EXCEPT ![w] = "sending"] /\ UNCHANGED whand
  /\ UNCHANGED <<local, cache, mtx, mainVars, nkey,
                 readReq, readResp, writeReq, invals>>

NotifyWriteSent(w) ==
  /\ wpc[w] = "sending"
  /\ NoticeReceived(w, "write_listener")
  /\ wpc'   = [wpc EXCEPT ![w] = "probe"]
  /\ whand' = [whand EXCEPT ![w] = Null]
  /\ UNCHANGED <<local, cache, mtx, mainVars, nkey, channelVars>>

\* Mutant: the invalidation is given up when the lock is taken (a try_lock).
MutantReceiveInval(w) ==
  /\ nkey[w] = Null
  /\ invals[w] # <<>>
  /\ nkey'   = [nkey EXCEPT ![w] =
                  IF IsLocal(w, Head(invals[w])) \/ mtx[w] # "free"
                  THEN Null ELSE Head(invals[w])]
  /\ invals' = [invals EXCEPT ![w] = Tail(@)]
  /\ UNCHANGED <<local, cache, mtx, mainVars, writerVars,
                 readReq, readResp, writeReq, notices>>

\* notification_listener takes part in a broadcast; it skips blocks that this
\* process maintains.
ReceiveInval(w) ==
  /\ nkey[w] = Null
  /\ invals[w] # <<>>
  /\ nkey'   = [nkey EXCEPT ![w] =
                  IF IsLocal(w, Head(invals[w])) THEN Null ELSE Head(invals[w])]
  /\ invals' = [invals EXCEPT ![w] = Tail(@)]
  /\ UNCHANGED <<local, cache, mtx, mainVars, writerVars,
                 readReq, readResp, writeReq, notices>>

\* Mutant: the copy is dropped without the lock.
MutantInvalidateUnlocked(w) ==
  /\ nkey[w] # Null
  /\ cache' = [cache EXCEPT ![w][nkey[w]] = Null]
  /\ nkey'  = [nkey EXCEPT ![w] = Null]
  /\ UNCHANGED <<local, mtx, mainVars, writerVars, channelVars>>

\* Mutant: the copy is reset to the zero-filled block instead of nullptr.
MutantInvalidateToZero(w) ==
  /\ nkey[w] # Null
  /\ mtx[w] = "free"
  /\ cache' = [cache EXCEPT ![w][nkey[w]] = Zero]
  /\ nkey'  = [nkey EXCEPT ![w] = Null]
  /\ UNCHANGED <<local, mtx, mainVars, writerVars, channelVars>>

\* invalidate_cache: needs the unique lock of the RemoteRepository.
InvalidateCache(w) ==
  /\ nkey[w] # Null
  /\ mtx[w] = "free"
  /\ cache' = [cache EXCEPT ![w][nkey[w]] = Null]
  /\ nkey'  = [nkey EXCEPT ![w] = Null]
  /\ UNCHANGED <<local, mtx, mainVars, writerVars, channelVars>>

\* Mutant: the broadcast leaves out rank 0.
MutantHandleNotify(src) ==
  /\ notices[src] # <<>>
  /\ EagerSend \/ \A w \in Worker : invals[w] = <<>>
  /\ notices' = [notices EXCEPT ![src] = Tail(@)]
  /\ invals'  = [w \in Worker |->
                   IF w = 0 THEN invals[w] ELSE Append(invals[w], Head(notices[src]).key)]
  /\ UNCHANGED <<local, cache, mtx, mainVars, writerVars, nkey,
                 readReq, readResp, writeReq>>

\* notification_broadcaster finds a notification from src; handle_notify
\* broadcasts it to every worker.  A blocking MPI_Bcast returns only once the
\* workers have taken part in it.
HandleNotify(src) ==
  /\ notices[src] # <<>>
  /\ EagerSend \/ \A w \in Worker : invals[w] = <<>>
  /\ notices' = [notices EXCEPT ![src] = Tail(@)]
  /\ invals'  = [w \in Worker |-> Append(invals[w], Head(notices[src]).key)]
  /\ UNCHANGED <<local, cache, mtx, mainVars, writerVars, nkey,
                 readReq, readResp, writeReq>>

ReadListener(w) == \E src \in Worker : HandleRead(w, src)

WriteListener(w) ==
  \/ \E src \in Worker : ReceiveWrite(w, src)
  \/ ApplyWrite(w)
  \/ NotifyWrite(w)
  \/ NotifyWriteSent(w)

NotificationListener(w) == ReceiveInval(w) \/ InvalidateCache(w)

Broadcaster == \E src \in Worker : HandleNotify(src)

-----------------------------------------------------------------------------
Next ==
  \/ \E w \in Worker :
       \/ CallLe(w)
       \/ CallEscreve(w)
       \/ Main(w)
       \/ ReadListener(w)
       \/ WriteListener(w)
       \/ NotificationListener(w)
  \/ Broadcaster

Spec == Init /\ [][Next]_vars

(***************************************************************************)
(* Every thread is an endless loop that never waits on anything but what   *)
(* its guards name, so each is weakly fair as a whole: nothing more is     *)
(* promised by MPI_Iprobe with MPI_ANY_SOURCE.  Which access the main      *)
(* thread draws next is not subject to fairness.                           *)
(***************************************************************************)
Fairness ==
  /\ \A w \in Worker :
       /\ WF_vars(Main(w))
       /\ WF_vars(ReadListener(w))
       /\ WF_vars(WriteListener(w))
       /\ WF_vars(NotificationListener(w))
  /\ WF_vars(Broadcaster)

FairSpec == Spec /\ Fairness

-----------------------------------------------------------------------------
(***************************************************************************)
(* Properties                                                              *)
(***************************************************************************)

\* An invalidation of block b is on its way to worker w: the maintainer's main
\* thread or write_listener has stored the block and is about to notify, the
\* notification is queued at the broadcaster, broadcast to w, or in the hands
\* of w's notification_listener.
InvalidationUnderWay(w, b) ==
  \/ \E o \in Worker : pc[o] = "notifying" /\ next[o] = b
  \/ \E o \in Worker : wpc[o] = "notify" /\ whand[o].key = b
  \/ \E o \in Worker : \E i \in DOMAIN notices[o] : notices[o][i].key = b
  \/ \E i \in DOMAIN invals[w] : invals[w][i] = b
  \/ nkey[w] = b

Stale(w, b) == cache[w][b] # Null /\ cache[w][b] # local[b]

\* Invalidation on write: a cached copy that differs from the block at its
\* maintainer has an invalidation under way, whatever the threads of the three
\* processes involved are doing (RemoteRepository::read and invalidate_cache,
\* LocalRepository::write, handle_notify).
StaleCopyIsInvalidated ==
  \A w \in Worker, b \in Block : Stale(w, b) => InvalidationUnderWay(w, b)

\* A response that was overtaken by a newer write while in flight is about to
\* be stored in the cache, and is still covered by an invalidation that cannot
\* run before the store: the race between RemoteRepository::read and
\* invalidate_cache that the shared lock is held against.
StaleResponseIsInvalidated ==
  \A w, o \in Worker : \A i \in DOMAIN readResp[w][o] :
    readResp[w][o][i] # local[next[w]] => InvalidationUnderWay(w, next[w])

\* Between worker w and process o: the one request that w waits on, or its
\* response, while w holds the shared lock; and nothing when w waits on no block
\* of o.
OneRequestBetween(w, o) ==
  LET req  == readReq[o][w]
      resp == readResp[w][o]
  IN  IF pc[w] = "awaiting" /\ IsLocal(o, next[w])
      THEN /\ \/ req = <<next[w]>> /\ resp = <<>>
              \/ req = <<>> /\ resp # <<>> /\ Tail(resp) = <<>>
           /\ mtx[w] = "shared"
      ELSE req = <<>> /\ resp = <<>>

\* Read responses carry no key.  What pairs a response with its request is that
\* a reader never has more than one message in the channels between it and a
\* maintainer (RemoteRepository::read, handle_read).
OneRequestPerReader == \A w, o \in Worker : OneRequestBetween(w, o)

\* handle_read, handle_write and invalidate_cache throw when the block is on
\* the wrong side: what reaches them is always a block that the receiver does
\* maintain, or does not.
NoHandlerThrows ==
  \A w \in Worker :
    /\ \A src \in Worker :
         /\ \A i \in DOMAIN readReq[w][src] : IsLocal(w, readReq[w][src][i])
         /\ \A i \in DOMAIN writeReq[w][src] : IsLocal(w, writeReq[w][src][i].key)
    /\ whand[w] # Null => IsLocal(w, whand[w].key)
    /\ nkey[w] # Null => ~ IsLocal(w, nkey[w])

\* A process keeps, and waits for, copies of the blocks of others only: the
\* invalidations that it skips for its own blocks are none that it needed
\* (access_map of the facade, the skip in notification_listener).
CopiesAreRemote ==
  \A w \in Worker :
    /\ \A b \in Block : cache[w][b] # Null => ~ IsLocal(w, b)
    /\ pc[w] = "awaiting" => ~ IsLocal(w, next[w])

\* The inductive invariant behind the two coherence properties.
CoherenceInv ==
  /\ TypeOK
  /\ OneRequestPerReader
  /\ CopiesAreRemote
  /\ StaleCopyIsInvalidated
  /\ StaleResponseIsInvalidated

\* A stale copy does not stay: it is invalidated or becomes current again.
StaleCopyGoesAway ==
  \A w \in Worker : \A b \in Block \ MemMap[w] : []<>(~ Stale(w, b))

\* Every escreve and every le that a main thread calls returns to it.
AccessesReturn == \A w \in Worker : []<>(pc[w] = "idle")

=============================================================================
