------------------------------ MODULE SyncLib ------------------------------
(***************************************************************************)
(* The synchronisation library of trabalho_1 (sync_lib.hpp): barrier,      *)
(* counting_semaphore and synchronizing_queue, each a mutex and a          *)
(* condition variable.                                                     *)
(*                                                                         *)
(* What a thread does between locking a mutex and unlocking it, or going   *)
(* to sleep on the condition variable, is one step.  The notify_one of     *)
(* release and push comes after the unlock and is a step of its own.  A    *)
(* thread that sleeps may also wake up for no reason.                      *)
(***************************************************************************)
EXTENDS Naturals, Sequences, FiniteSets

CONSTANTS
  Thread,
  Permits,        \* initial_count of the semaphore
  Threshold,      \* count of the barrier
  MaxElements,    \* bound: elements in the queue
  MaxGenerations  \* bound: no call of wait() once the barrier opened so often

ASSUME SyncAssumption ==
  /\ IsFiniteSet(Thread)
  /\ Permits \in Nat
  /\ Threshold \in Nat \ {0}
  /\ MaxElements \in Nat
  /\ MaxGenerations \in Nat

VARIABLES
  count,        \* of the semaphore
  holders,      \* the threads that have acquired a permit and not released it
  elements,     \* of the queue: each the thread that pushed it
  arrivals,     \* count of the barrier
  generation,
  at,           \* at[t]: the operation thread t is in, or "idle"
  asleep,       \* threads asleep in cv.wait, of the operation they are in
  arrived       \* arrived[t]: current_gen of t's latest wait()

semVars     == <<count, holders>>
barrierVars == <<arrivals, generation, arrived>>

vars == <<semVars, elements, barrierVars, at, asleep>>

TypeOK ==
  /\ count \in Nat
  /\ holders \subseteq Thread
  /\ elements \in Seq(Thread)
  /\ arrivals \in 1 .. Threshold
  /\ generation \in Nat
  /\ at \in [Thread -> {"idle", "acquire", "released", "pop", "pushed", "barrier",
                        "waiting"}]
  /\ asleep \subseteq {t \in Thread : at[t] \in {"acquire", "pop", "waiting"}}
  /\ arrived \in [Thread -> Nat]

Init ==
  /\ count = Permits
  /\ holders = {}
  /\ elements = <<>>
  /\ arrivals = Threshold
  /\ generation = 0
  /\ at = [t \in Thread |-> "idle"]
  /\ asleep = {}
  /\ arrived = [t \in Thread |-> 0]

-----------------------------------------------------------------------------
\* Thread t, awake, goes on from one place to another.
Go(t, from, to) ==
  /\ at[t] = from /\ t \notin asleep
  /\ at' = [at EXCEPT ![t] = to]

Sleepers(op) == {t \in asleep : at[t] = op}

\* cv.notify_one: wakes one of the threads asleep in operation op, if there is one.
NotifyOne(op) ==
  IF Sleepers(op) = {} THEN UNCHANGED asleep
  ELSE \E t \in Sleepers(op) : asleep' = asleep \ {t}

\* cv.wait(lock, predicate) of thread t, awake in op, when the predicate is false.
Sleep(t, op) ==
  /\ at[t] = op /\ t \notin asleep
  /\ asleep' = asleep \cup {t}
  /\ UNCHANGED at

\* A thread calls an operation that may block it.  No caller takes a second permit.
Call(t) ==
  /\ \/ t \notin holders /\ Go(t, "idle", "acquire")
     \/ Go(t, "idle", "pop")
     \/ generation < MaxGenerations /\ Go(t, "idle", "barrier")
  /\ UNCHANGED <<semVars, elements, barrierVars, asleep>>

SpuriousWakeup(t) ==
  /\ t \in asleep
  /\ asleep' = asleep \ {t}
  /\ UNCHANGED <<semVars, elements, barrierVars, at>>

\* counting_semaphore::acquire, from the lock or from a wakeup on.
Acquire(t) ==
  /\ \/ /\ count = 0 /\ Sleep(t, "acquire")
        /\ UNCHANGED semVars
     \/ /\ count > 0 /\ Go(t, "acquire", "idle")
        /\ count' = count - 1
        /\ holders' = holders \cup {t}
        /\ UNCHANGED asleep
  /\ UNCHANGED <<elements, barrierVars>>

\* counting_semaphore::release, its locked block.
Release(t) ==
  /\ t \in holders /\ Go(t, "idle", "released")
  /\ count' = count + 1
  /\ holders' = holders \ {t}
  /\ UNCHANGED <<elements, barrierVars, asleep>>

\* Mutant: the notification is saved when the queue was not empty.
MutantPush(t) ==
  /\ Len(elements) < MaxElements
  /\ Go(t, "idle", IF elements = <<>> THEN "pushed" ELSE "idle")
  /\ elements' = Append(elements, t)
  /\ UNCHANGED <<semVars, barrierVars, asleep>>

\* synchronizing_queue::push, its locked block.
Push(t) ==
  /\ Len(elements) < MaxElements
  /\ Go(t, "idle", "pushed")
  /\ elements' = Append(elements, t)
  /\ UNCHANGED <<semVars, barrierVars, asleep>>

\* The notify_one after the block of release or push.
Notify(t) ==
  /\ \/ Go(t, "released", "idle") /\ NotifyOne("acquire")
     \/ Go(t, "pushed", "idle") /\ NotifyOne("pop")
  /\ UNCHANGED <<semVars, elements, barrierVars>>

\* synchronizing_queue::pop, from the lock or from a wakeup on.
Pop(t) ==
  /\ \/ /\ elements = <<>> /\ Sleep(t, "pop")
        /\ UNCHANGED elements
     \/ /\ elements # <<>> /\ Go(t, "pop", "idle")
        /\ elements' = Tail(elements)
        /\ UNCHANGED asleep
  /\ UNCHANGED <<semVars, barrierVars>>

\* Mutant: the count is not reset to the threshold.
MutantArriveNoReset(t) ==
  /\ \/ /\ arrivals = 1 /\ Go(t, "barrier", "idle")
        /\ generation' = generation + 1
        /\ asleep' = asleep \ Sleepers("waiting")
     \/ /\ arrivals # 1 /\ Go(t, "barrier", "waiting")
        /\ asleep' = asleep \cup {t}
        /\ UNCHANGED generation
  /\ arrivals' = arrivals - 1
  /\ arrived' = [arrived EXCEPT ![t] = generation]
  /\ UNCHANGED <<semVars, elements>>

\* Mutant: notify_one in place of notify_all.
MutantArriveNotifyOne(t) ==
  /\ \/ /\ arrivals = 1 /\ Go(t, "barrier", "idle")
        /\ generation' = generation + 1
        /\ arrivals' = Threshold
        /\ NotifyOne("waiting")
     \/ /\ arrivals # 1 /\ Go(t, "barrier", "waiting")
        /\ arrivals' = arrivals - 1
        /\ asleep' = asleep \cup {t}
        /\ UNCHANGED generation
  /\ arrived' = [arrived EXCEPT ![t] = generation]
  /\ UNCHANGED <<semVars, elements>>

\* barrier::wait.  The last thread to arrive opens the barrier and wakes the others
\* while it holds the lock; any other goes to sleep in the same critical section.
Arrive(t) ==
  /\ \/ /\ arrivals = 1 /\ Go(t, "barrier", "idle")
        /\ generation' = generation + 1
        /\ arrivals' = Threshold
        /\ asleep' = asleep \ Sleepers("waiting")
     \/ /\ arrivals # 1 /\ Go(t, "barrier", "waiting")
        /\ arrivals' = arrivals - 1
        /\ asleep' = asleep \cup {t}
        /\ UNCHANGED generation
  /\ arrived' = [arrived EXCEPT ![t] = generation]
  /\ UNCHANGED <<semVars, elements>>

\* Mutant: the predicate is that the count has been reset, without a generation.
MutantPass(t) ==
  /\ \/ arrivals # Threshold /\ Sleep(t, "waiting")
     \/ arrivals = Threshold /\ Go(t, "waiting", "idle") /\ UNCHANGED asleep
  /\ UNCHANGED <<semVars, elements, barrierVars>>

\* The same call after a wakeup.
Pass(t) ==
  /\ \/ arrived[t] = generation /\ Sleep(t, "waiting")
     \/ arrived[t] # generation /\ Go(t, "waiting", "idle") /\ UNCHANGED asleep
  /\ UNCHANGED <<semVars, elements, barrierVars>>

\* What a thread that is inside an operation does when it runs.
Run(t) == Acquire(t) \/ Notify(t) \/ Pop(t) \/ Arrive(t) \/ Pass(t)

Next ==
  \E t \in Thread : Call(t) \/ Release(t) \/ Push(t) \/ Run(t) \/ SpuriousWakeup(t)

Spec == Init /\ [][Next]_vars

\* A thread that is awake inside an operation runs.  Nothing makes a thread call an
\* operation, and no spurious wakeup can be counted on.
FairSpec == Spec /\ \A t \in Thread : WF_vars(Run(t))

-----------------------------------------------------------------------------
Awake(op) == {t \in Thread : at[t] = op} \ asleep

At(op) == {t \in Thread : at[t] = op}

\* No wakeup is lost: while a thread sleeps in acquire, or in pop, each permit, or
\* element, that it could take has a thread on its way to it, awake in that operation
\* or about to call notify_one.  That is what the notification of every single
\* release and push is needed for, though it comes after the unlock, when the permit
\* or the element may already be gone.
WakeupsSuffice ==
  /\ Sleepers("acquire") # {} =>
       count <= Cardinality(Awake("acquire")) + Cardinality(At("released"))
  /\ Sleepers("pop") # {} =>
       Len(elements) <= Cardinality(Awake("pop")) + Cardinality(At("pushed"))

\* The rounds of the barrier are kept apart: its count is what the threads waiting in
\* the present generation leave of the threshold, though threads of earlier ones may
\* still be in wait(); and none of those is asleep, for nobody would wake it.
GenerationsApart ==
  LET current == {t \in At("waiting") : arrived[t] = generation}
  IN  /\ arrivals + Cardinality(current) = Threshold
      /\ Sleepers("waiting") \subseteq current

\* The inductive invariant behind these: besides, no thread remembers a generation of
\* the barrier that is still to come, or the reset would not start an empty round.
SyncInv ==
  /\ TypeOK
  /\ WakeupsSuffice
  /\ GenerationsApart
  /\ \A t \in Thread : arrived[t] <= generation

\* A thread that is about to call notify_one has done its operation.
Atomic ==
  INSTANCE AtomicSync WITH
    at <- [t \in Thread |-> IF at[t] \in {"released", "pushed"} THEN "idle" ELSE at[t]]

\* The operations behave as if they took effect at once, and a blocked one goes
\* through once it can for good, whatever thread each notify_one happens to wake:
\* the two-step operations, the rechecks and the spurious wakeups do not show.
ImplementsAtomicSync == Atomic!FairSpec

=============================================================================
