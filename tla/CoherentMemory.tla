--------------------------- MODULE CoherentMemory ---------------------------
(***************************************************************************)
(* What the distributed shared memory of trabalho_2 promises the programs  *)
(* that call escreve and le, without messages, caches or locks.            *)
(*                                                                         *)
(* Every block has one log of the writes stored in it.  A write of a block *)
(* that the caller maintains is stored by the call; any other is stored    *)
(* some time later, after the caller's earlier writes of that block.  A    *)
(* read returns some version of the block that is no older than what the   *)
(* reader has read before, and the latest one if the reader maintains it.  *)
(* Nothing relates the versions of different blocks, and a worker's own    *)
(* remote write need not be visible to its next read.                      *)
(***************************************************************************)
EXTENDS Naturals, Sequences

CONSTANTS
  Worker, Block,
  Home          \* Home[b]: the worker that maintains block b

VARIABLES
  written,  \* written[w]: the number of block writes w has issued
  issued,   \* issued[w][b]: the writes of w to b, in the order of its calls
  stored,   \* stored[w][b]: how many of those have been stored
  log,      \* log[b]: the writes stored in b, in that order
  seen      \* seen[w][b]: the version of b that w's latest read of b returned

vars == <<written, issued, stored, log, seen>>

Init ==
  /\ written = [w \in Worker |-> 0]
  /\ issued = [w \in Worker |-> [b \in Block |-> <<>>]]
  /\ stored = [w \in Worker |-> [b \in Block |-> 0]]
  /\ log    = [b \in Block |-> <<>>]
  /\ seen   = [w \in Worker |-> [b \in Block |-> 0]]

Issue(w, b) ==
  /\ written' = [written EXCEPT ![w] = @ + 1]
  /\ issued'  = [issued EXCEPT ![w][b] = Append(@, <<w, written'[w]>>)]

\* A write of a block of the worker's own is stored at once.
WriteOwn(w, b) ==
  /\ Home[b] = w
  /\ Issue(w, b)
  /\ log'    = [log EXCEPT ![b] = Append(@, <<w, written'[w]>>)]
  /\ stored' = [stored EXCEPT ![w][b] = @ + 1]
  /\ UNCHANGED seen

\* Any other write is only issued by the call.
WriteRemote(w, b) ==
  /\ Home[b] # w
  /\ Issue(w, b)
  /\ UNCHANGED <<stored, log, seen>>

\* The oldest write of w to b that is not stored yet is stored.
Store(w, b) ==
  /\ stored[w][b] < Len(issued[w][b])
  /\ log'    = [log EXCEPT ![b] = Append(@, issued[w][b][stored[w][b] + 1])]
  /\ stored' = [stored EXCEPT ![w][b] = @ + 1]
  /\ UNCHANGED <<written, issued, seen>>

Read(w, b) ==
  /\ \E v \in seen[w][b] .. Len(log[b]) :
       /\ Home[b] = w => v = Len(log[b])
       /\ seen' = [seen EXCEPT ![w][b] = v]
  /\ UNCHANGED <<written, issued, stored, log>>

Next ==
  \E w \in Worker, b \in Block :
    WriteOwn(w, b) \/ WriteRemote(w, b) \/ Store(w, b) \/ Read(w, b)

Spec == Init /\ [][Next]_vars

\* Every write is stored in the end.  Those of a block of one's own are never pending.
FairSpec ==
  Spec /\ \A w \in Worker : \A b \in {c \in Block : Home[c] # w} : WF_vars(Store(w, b))

=============================================================================
