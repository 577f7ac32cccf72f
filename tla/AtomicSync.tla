----------------------------- MODULE AtomicSync -----------------------------
(***************************************************************************)
(* What the synchronisation library of trabalho_1 promises its callers: a  *)
(* semaphore, a queue and a barrier whose operations take effect at once,  *)
(* and a blocked operation that goes through when it can.  There are no    *)
(* mutexes, condition variables or wakeups.                                *)
(***************************************************************************)
EXTENDS Naturals, Sequences

CONSTANTS
  Thread,
  Permits,      \* initial_count of the semaphore
  Threshold     \* threads that the barrier waits for

VARIABLES
  count, holders,       \* the semaphore: free permits, threads that have one
  elements,             \* the queue
  arrivals, generation, \* the barrier: threads still to arrive, times it opened
  at,                   \* at[t]: the operation that thread t is in, or "idle"
  arrived               \* arrived[t]: the generation that t waits in the barrier for

vars == <<count, holders, elements, arrivals, generation, at, arrived>>

Init ==
  /\ count = Permits
  /\ holders = {}
  /\ elements = <<>>
  /\ arrivals = Threshold
  /\ generation = 0
  /\ at = [t \in Thread |-> "idle"]
  /\ arrived = [t \in Thread |-> 0]

Go(t, from, to) == at[t] = from /\ at' = [at EXCEPT ![t] = to]

Call(t) ==
  /\ \E op \in {"acquire", "pop", "barrier"} : Go(t, "idle", op)
  /\ UNCHANGED <<count, holders, elements, arrivals, generation, arrived>>

Acquire(t) ==
  /\ Go(t, "acquire", "idle")
  /\ count > 0
  /\ count' = count - 1
  /\ holders' = holders \cup {t}
  /\ UNCHANGED <<elements, arrivals, generation, arrived>>

Release(t) ==
  /\ at[t] = "idle" /\ t \in holders
  /\ count' = count + 1
  /\ holders' = holders \ {t}
  /\ UNCHANGED <<elements, arrivals, generation, at, arrived>>

Push(t) ==
  /\ at[t] = "idle"
  /\ elements' = Append(elements, t)
  /\ UNCHANGED <<count, holders, arrivals, generation, at, arrived>>

Pop(t) ==
  /\ Go(t, "pop", "idle")
  /\ elements # <<>>
  /\ elements' = Tail(elements)
  /\ UNCHANGED <<count, holders, arrivals, generation, arrived>>

\* The last thread to arrive passes at once and opens the barrier for the others.
Arrive(t) ==
  /\ IF arrivals = 1
     THEN /\ Go(t, "barrier", "idle")
          /\ generation' = generation + 1
          /\ arrivals' = Threshold
     ELSE /\ Go(t, "barrier", "waiting")
          /\ arrivals' = arrivals - 1
          /\ UNCHANGED generation
  /\ arrived' = [arrived EXCEPT ![t] = generation]
  /\ UNCHANGED <<count, holders, elements>>

Pass(t) ==
  /\ Go(t, "waiting", "idle")
  /\ arrived[t] # generation
  /\ UNCHANGED <<count, holders, elements, arrivals, generation, arrived>>

Grant(t) == Acquire(t) \/ Pop(t) \/ Arrive(t) \/ Pass(t)

Next == \E t \in Thread : Call(t) \/ Release(t) \/ Push(t) \/ Grant(t)

Spec == Init /\ [][Next]_vars

\* An operation that stays possible goes through.
FairSpec == Spec /\ \A t \in Thread : WF_vars(Grant(t))

=============================================================================
