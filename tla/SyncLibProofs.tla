--------------------------- MODULE SyncLibProofs ---------------------------
(***************************************************************************)
(* Theorems about SyncLib, for every finite set of threads, every number   *)
(* of permits and every threshold of the barrier, and that its steps are   *)
(* those of AtomicSync.                                                    *)
(***************************************************************************)
EXTENDS SyncLib, Counting, SequenceTheorems

(***************************************************************************)
(* Wakeups                                                                 *)
(***************************************************************************)

\* With threads asleep, what there is to take, n, is at most the number of those awake
\* in the operation that takes it, A, and of those about to call notify_one for it, F.
EnoughFor(n, A, F, S) == S # {} => n <= Cardinality(A) + Cardinality(F)

\* A sleeper's wakeup, taking, providing and notifying keep enough threads on their way.
LEMMA EnoughStays ==
  ASSUME NEW n \in Nat, NEW m \in Nat, IsFiniteSet(Thread),
         NEW A \in SUBSET Thread, NEW A2 \in SUBSET Thread,
         NEW F \in SUBSET Thread, NEW F2 \in SUBSET Thread,
         NEW S, NEW S2,
         EnoughFor(n, A, F, S),
         \/ m = n /\ A \subseteq A2 /\ F2 = F /\ S2 \subseteq S
         \/ m = 0
         \/ m = n - 1 /\ (\E v \in A : A2 = A \ {v}) /\ F2 = F /\ S2 = S
         \/ m = n + 1 /\ (\E v : v \notin F /\ F2 = F \cup {v}) /\ A2 = A /\ S2 = S
         \/ /\ m = n /\ \E v \in F : F2 = F \ {v}
            /\ S2 = {} \/ (S # {} /\ \E u : u \notin A /\ A2 = A \cup {u})
  PROVE  EnoughFor(m, A2, F2, S2)
<1>1. Cardinality(A) \in Nat /\ Cardinality(F) \in Nat /\ Cardinality(A2) \in Nat
      /\ Cardinality(F2) \in Nat /\ IsFiniteSet(A2)
  BY CountOf
<1>2. CASE m = n /\ A \subseteq A2 /\ F2 = F /\ S2 \subseteq S
  <2>1. Cardinality(A) <= Cardinality(A2)
    BY <1>1, <1>2, FS_Subset
  <2>2. S2 # {} => S # {}
    BY <1>2
  <2>3. QED
    BY <1>1, <1>2, <2>1, <2>2 DEF EnoughFor
<1>3. CASE m = 0
  BY <1>1, <1>3 DEF EnoughFor
<1>4. CASE m = n - 1 /\ (\E v \in A : A2 = A \ {v}) /\ F2 = F /\ S2 = S
  <2>1. Cardinality(A2) = Cardinality(A) - 1
    BY <1>4, CountDown
  <2>2. QED
    BY <1>1, <1>4, <2>1 DEF EnoughFor
<1>5. CASE m = n + 1 /\ (\E v : v \notin F /\ F2 = F \cup {v}) /\ A2 = A /\ S2 = S
  <2>1. Cardinality(F2) = Cardinality(F) + 1
    BY <1>5, CountUp
  <2>2. QED
    BY <1>1, <1>5, <2>1 DEF EnoughFor
<1>6. CASE /\ m = n /\ \E t \in F : F2 = F \ {t}
           /\ S2 = {} \/ (S # {} /\ \E u : u \notin A /\ A2 = A \cup {u})
  <2>1. Cardinality(F2) = Cardinality(F) - 1
    BY <1>6, CountDown
  <2>2. CASE S2 = {}
    BY <2>2 DEF EnoughFor
  <2>3. CASE S # {} /\ \E u : u \notin A /\ A2 = A \cup {u}
    <3>1. Cardinality(A2) = Cardinality(A) + 1
      BY <2>3, CountUp
    <3>2. QED
      BY <1>1, <1>6, <2>1, <2>3, <3>1 DEF EnoughFor
  <2>4. QED
    BY <1>6, <2>2, <2>3
<1>7. QED
  BY <1>2, <1>3, <1>4, <1>5, <1>6

\* Who is asleep is in an operation that waits, and only an awake thread moves.
LEMMA SleepersStay ==
  ASSUME TypeOK, [Next]_vars
  PROVE  /\ asleep' \subseteq {t \in Thread : at'[t] \in {"acquire", "pop", "waiting"}}
         /\ at' \in [Thread -> {"idle", "acquire", "released", "pop", "pushed", "barrier",
                                "waiting"}]
<1> DEFINE W == {"acquire", "pop", "waiting"}
           P == {"idle", "acquire", "released", "pop", "pushed", "barrier", "waiting"}
<1>1. at \in [Thread -> P] /\ \A u \in asleep : u \in Thread /\ at[u] \in W
  BY DEF TypeOK
<1>2. ASSUME NEW t \in Thread, NEW p \in P, NEW q \in P, Go(t, p, q), asleep' \subseteq asleep
      PROVE  at' \in [Thread -> P] /\ \A u \in asleep' : u \in Thread /\ at'[u] \in W
  BY <1>1, <1>2 DEF Go
<1>3. ASSUME NEW t \in Thread, NEW p \in P, Go(t, p, "waiting"), asleep' = asleep \cup {t}
      PROVE  at' \in [Thread -> P] /\ \A u \in asleep' : u \in Thread /\ at'[u] \in W
  BY <1>1, <1>3 DEF Go
<1>4. ASSUME NEW t \in Thread, NEW op \in W, Sleep(t, op)
      PROVE  at' \in [Thread -> P] /\ \A u \in asleep' : u \in Thread /\ at'[u] \in W
  BY <1>1, <1>4 DEF Sleep
<1>5. CASE UNCHANGED at /\ asleep' \subseteq asleep
  BY <1>1, <1>5
<1>6. ASSUME NEW t \in Thread, Call(t) \/ Release(t) \/ Push(t) \/ SpuriousWakeup(t)
      PROVE  at' \in [Thread -> P] /\ \A u \in asleep' : u \in Thread /\ at'[u] \in W
  BY <1>2, <1>5, <1>6 DEF Call, Release, Push, SpuriousWakeup
<1>7. ASSUME NEW t \in Thread, Acquire(t) \/ Pop(t) \/ Pass(t)
      PROVE  at' \in [Thread -> P] /\ \A u \in asleep' : u \in Thread /\ at'[u] \in W
  BY <1>2, <1>4, <1>7 DEF Acquire, Pop, Pass
<1>8. ASSUME NEW t \in Thread, Notify(t)
      PROVE  at' \in [Thread -> P] /\ \A u \in asleep' : u \in Thread /\ at'[u] \in W
  <2>1. asleep' \subseteq asleep
    BY <1>8 DEF Notify, NotifyOne
  <2>2. QED
    BY <1>2, <1>8, <2>1 DEF Notify
<1>9. ASSUME NEW t \in Thread, Arrive(t)
      PROVE  at' \in [Thread -> P] /\ \A u \in asleep' : u \in Thread /\ at'[u] \in W
  BY <1>2, <1>3, <1>9 DEF Arrive, Sleepers
<1>10. at' \in [Thread -> P] /\ \A u \in asleep' : u \in Thread /\ at'[u] \in W
  BY <1>5, <1>6, <1>7, <1>8, <1>9 DEF Next, Run, vars
<1>11. QED
  BY <1>10

\* Every step keeps the variables in their ranges.
LEMMA TypeStep ==
  ASSUME SyncInv, [Next]_vars
  PROVE  TypeOK'
<1> USE SyncAssumption, SleepersStay DEF SyncInv, TypeOK, semVars, barrierVars
<1>1. ASSUME NEW t \in Thread, Call(t) \/ SpuriousWakeup(t) PROVE TypeOK'
  BY <1>1 DEF Call, SpuriousWakeup
<1>2. ASSUME NEW t \in Thread, Acquire(t) PROVE TypeOK'
  BY <1>2 DEF Acquire
<1>3. ASSUME NEW t \in Thread, Release(t) PROVE TypeOK'
  BY <1>3 DEF Release
<1>4. ASSUME NEW t \in Thread, Push(t) PROVE TypeOK'
  <2>1. elements' \in Seq(Thread)
    BY <1>4, AppendProperties DEF Push
  <2>2. QED
    BY <1>4, <2>1 DEF Push
<1>5. ASSUME NEW t \in Thread, Notify(t) PROVE TypeOK'
  BY <1>5 DEF Notify, NotifyOne
<1>6. ASSUME NEW t \in Thread, Pop(t) PROVE TypeOK'
  <2>1. elements \in Seq(Thread) /\ elements # <<>> => Tail(elements) \in Seq(Thread)
    BY HeadTailProperties
  <2>2. QED
    BY <1>6, <2>1 DEF Pop
<1>7. ASSUME NEW t \in Thread, Arrive(t) PROVE TypeOK'
  BY <1>7 DEF Arrive
<1>8. ASSUME NEW t \in Thread, Pass(t) PROVE TypeOK'
  BY <1>8 DEF Pass
<1>9. CASE UNCHANGED vars
  BY <1>9 DEF vars
<1>10. QED
  BY <1>1, <1>2, <1>3, <1>4, <1>5, <1>6, <1>7, <1>8, <1>9 DEF Next, Run

\* A notification takes its caller from the threads that provide, and brings a sleeper,
\* if there is one, to those that can take.
LEMMA NotifyWakes ==
  ASSUME TypeOK, NEW t \in Thread, NEW op \in {"acquire", "pop"}, NEW from \in {"released", "pushed"},
         Go(t, from, "idle"), NotifyOne(op)
  PROVE  /\ t \in At(from) /\ At(from)' = At(from) \ {t}
         /\ \/ Sleepers(op)' = {}
            \/ Sleepers(op) # {} /\ \E u : u \notin Awake(op) /\ Awake(op)' = Awake(op) \cup {u}
<1>1. /\ at \in [Thread -> {"idle", "acquire", "released", "pop", "pushed", "barrier", "waiting"}]
      /\ \A u \in asleep : u \in Thread
  BY DEF TypeOK
<1>2. at[t] = from /\ t \notin asleep /\ at' = [at EXCEPT ![t] = "idle"]
  BY DEF Go
<1>3. t \in At(from) /\ At(from)' = At(from) \ {t}
  BY <1>1, <1>2 DEF At
<1>4. \A u \in Thread : at'[u] = op <=> at[u] = op
  BY <1>1, <1>2
<1>5. CASE Sleepers(op) = {}
  <2>1. asleep' = asleep
    BY <1>5 DEF NotifyOne
  <2>2. Sleepers(op)' = {}
    BY <1>1, <1>4, <1>5, <2>1 DEF Sleepers
  <2>3. QED
    BY <1>3, <2>2
<1>6. CASE Sleepers(op) # {}
  <2>1. PICK u \in Sleepers(op) : asleep' = asleep \ {u}
    BY <1>6 DEF NotifyOne
  <2>2. u \in Thread /\ at[u] = op /\ u \in asleep
    BY <1>1, <2>1 DEF Sleepers
  <2>3. u \notin Awake(op) /\ Awake(op)' = Awake(op) \cup {u}
    BY <1>4, <2>1, <2>2 DEF Awake
  <2>4. QED
    BY <1>3, <1>6, <2>3
<1>7. QED
  BY <1>5, <1>6

\* Every step keeps enough threads on their way to what sleepers could take.
LEMMA WakeupsStep ==
  ASSUME SyncInv, [Next]_vars
  PROVE  WakeupsSuffice'
<1> DEFINE Enough(n, op, from) == EnoughFor(n, Awake(op), At(from), Sleepers(op))
           Threads == {"idle", "acquire", "released", "pop", "pushed", "barrier", "waiting"}
<1>1. /\ TypeOK /\ IsFiniteSet(Thread)
      /\ Enough(count, "acquire", "released") /\ Enough(Len(elements), "pop", "pushed")
  BY SyncAssumption DEF SyncInv, WakeupsSuffice, EnoughFor
<1>2. /\ at \in [Thread -> Threads] /\ \A u \in asleep : u \in Thread
      /\ count \in Nat /\ elements \in Seq(Thread) /\ Len(elements) \in Nat
  BY <1>1, LenProperties DEF TypeOK
<1>3. count' \in Nat /\ elements' \in Seq(Thread) /\ Len(elements') \in Nat
  BY TypeStep, LenProperties DEF TypeOK
<1>4. \A op : /\ Awake(op) \in SUBSET Thread /\ Awake(op)' \in SUBSET Thread
              /\ At(op) \in SUBSET Thread /\ At(op)' \in SUBSET Thread
  BY DEF Awake, At
<1>5. ASSUME Enough(count, "acquire", "released")', Enough(Len(elements), "pop", "pushed")'
      PROVE  WakeupsSuffice'
  BY <1>5 DEF WakeupsSuffice, EnoughFor
<1> DEFINE Calm(op, from) ==
             /\ Awake(op) \subseteq Awake(op)' /\ At(from)' = At(from)
             /\ Sleepers(op)' \subseteq Sleepers(op)
           Taken(t, op, from) ==
             /\ t \in Awake(op) /\ Awake(op)' = Awake(op) \ {t} /\ At(from)' = At(from)
             /\ Sleepers(op)' = Sleepers(op)
           Given(t, op, from) ==
             /\ t \notin At(from) /\ At(from)' = At(from) \cup {t} /\ Awake(op)' = Awake(op)
             /\ Sleepers(op)' = Sleepers(op)
           Told(t, op, from) ==
             /\ t \in At(from) /\ At(from)' = At(from) \ {t}
             /\ \/ Sleepers(op)' = {}
                \/ Sleepers(op) # {} /\ \E u : u \notin Awake(op) /\ Awake(op)' = Awake(op) \cup {u}
<1>20. ASSUME NEW n \in Nat, NEW m \in Nat, NEW t, NEW op, NEW from, Enough(n, op, from),
             \/ m = n /\ Calm(op, from)
             \/ m = 0
             \/ m = n - 1 /\ Taken(t, op, from)
             \/ m = n + 1 /\ Given(t, op, from)
             \/ m = n /\ Told(t, op, from)
      PROVE  EnoughFor(m, Awake(op)', At(from)', Sleepers(op)')
  <2> DEFINE A == Awake(op)
             F == At(from)
             S == Sleepers(op)
             A2 == Awake(op)'
             F2 == At(from)'
             S2 == Sleepers(op)'
  <2>1. /\ A \in SUBSET Thread /\ A2 \in SUBSET Thread
        /\ F \in SUBSET Thread /\ F2 \in SUBSET Thread /\ EnoughFor(n, A, F, S)
    BY <1>4, <1>20
  <2>2. \/ m = n /\ A \subseteq A2 /\ F2 = F /\ S2 \subseteq S
        \/ m = 0
        \/ m = n - 1 /\ (\E v \in A : A2 = A \ {v}) /\ F2 = F /\ S2 = S
        \/ m = n + 1 /\ (\E v : v \notin F /\ F2 = F \cup {v}) /\ A2 = A /\ S2 = S
        \/ /\ m = n /\ \E v \in F : F2 = F \ {v}
           /\ S2 = {} \/ (S # {} /\ \E u : u \notin A /\ A2 = A \cup {u})
    BY <1>20
  <2> HIDE DEF A, F, S, A2, F2, S2
  <2>3. EnoughFor(m, A2, F2, S2)
    BY <1>1, <2>1, <2>2, EnoughStays
  <2>4. QED
    BY <2>3 DEF A2, F2, S2
<1> HIDE DEF Calm, Taken, Given, Told
<1>6. ASSUME Calm("acquire", "released"), UNCHANGED count
      PROVE  Enough(count, "acquire", "released")'
  BY <1>1, <1>2, <1>3, <1>20, <1>6, SyncAssumption
<1>7. ASSUME Calm("pop", "pushed"), UNCHANGED elements
      PROVE  Enough(Len(elements), "pop", "pushed")'
  BY <1>1, <1>2, <1>3, <1>20, <1>7
<1>8. ASSUME NEW t \in Thread, NEW p \in Threads, NEW q \in Threads, Go(t, p, q), UNCHANGED asleep
      PROVE  /\ p # "acquire" /\ p # "released" /\ q # "released" => Calm("acquire", "released")
             /\ p # "pop" /\ p # "pushed" /\ q # "pushed" => Calm("pop", "pushed")
  BY <1>2, <1>8 DEF Calm, Go, Awake, At, Sleepers
<1>9. ASSUME NEW t \in Thread, Call(t) PROVE WakeupsSuffice'
  <2>1. \E q \in {"acquire", "pop", "barrier"} : Go(t, "idle", q)
    BY <1>9 DEF Call
  <2>2. UNCHANGED <<asleep, count, elements>>
    BY <1>9 DEF Call, semVars
  <2>3. QED
    BY <1>5, <1>6, <1>7, <1>8, <2>1, <2>2
<1>10. ASSUME NEW t \in Thread, SpuriousWakeup(t) PROVE WakeupsSuffice'
  <2>1. UNCHANGED <<at, count, elements>> /\ asleep' = asleep \ {t}
    BY <1>10 DEF SpuriousWakeup, semVars
  <2>2. Calm("acquire", "released") /\ Calm("pop", "pushed")
    BY <2>1 DEF Calm, Awake, At, Sleepers
  <2>3. QED
    BY <1>5, <1>6, <1>7, <2>1, <2>2
<1>11. ASSUME NEW t \in Thread, Acquire(t) PROVE WakeupsSuffice'
  <2>1. UNCHANGED elements
    BY <1>11 DEF Acquire
  <2>2. CASE count = 0
    <3>1. Sleep(t, "acquire") /\ UNCHANGED count
      BY <1>11, <2>2 DEF Acquire, semVars
    <3>2. Calm("pop", "pushed")
      BY <1>2, <3>1 DEF Calm, Sleep, Awake, At, Sleepers
    <3>3. Enough(count, "acquire", "released")'
      BY <1>1, <1>2, <1>3, <1>20, <2>2, <3>1
    <3>4. QED
      BY <1>5, <1>7, <2>1, <3>2, <3>3
  <2>3. CASE count # 0
    <3>1. Go(t, "acquire", "idle") /\ count' = count - 1 /\ UNCHANGED asleep
      BY <1>11, <2>3 DEF Acquire
    <3>2. Taken(t, "acquire", "released")
      BY <1>2, <3>1 DEF Taken, Go, Awake, At, Sleepers
    <3>3. Enough(count, "acquire", "released")'
      BY <1>1, <1>2, <1>3, <1>20, <3>1, <3>2
    <3>4. QED
      BY <1>5, <1>7, <1>8, <2>1, <3>1, <3>3
  <2>4. QED
    BY <2>2, <2>3
<1>12. ASSUME NEW t \in Thread, Release(t) PROVE WakeupsSuffice'
  <2>1. Go(t, "idle", "released") /\ count' = count + 1 /\ UNCHANGED <<elements, asleep>>
    BY <1>12 DEF Release
  <2>2. Given(t, "acquire", "released")
    BY <1>2, <2>1 DEF Given, Go, Awake, At, Sleepers
  <2>3. Enough(count, "acquire", "released")'
    BY <1>1, <1>2, <1>3, <1>20, <2>1, <2>2
  <2>4. QED
    BY <1>5, <1>7, <1>8, <2>1, <2>3
<1>13. ASSUME NEW t \in Thread, Push(t) PROVE WakeupsSuffice'
  <2>1. Go(t, "idle", "pushed") /\ UNCHANGED <<count, asleep>>
    BY <1>13 DEF Push, semVars
  <2>2. Len(elements') = Len(elements) + 1
    BY <1>2, <1>13, AppendProperties DEF Push
  <2>3. Given(t, "pop", "pushed")
    BY <1>2, <2>1 DEF Given, Go, Awake, At, Sleepers
  <2>4. Enough(Len(elements), "pop", "pushed")'
    BY <1>1, <1>2, <1>3, <1>20, <2>2, <2>3
  <2>5. QED
    BY <1>5, <1>6, <1>8, <2>1, <2>4
<1>14. ASSUME NEW t \in Thread, Notify(t) PROVE WakeupsSuffice'
  <2>1. UNCHANGED <<count, elements>>
    BY <1>14 DEF Notify, semVars
  <2>2. CASE Go(t, "released", "idle") /\ NotifyOne("acquire")
    <3>0. Told(t, "acquire", "released")
      BY <1>1, <2>2, NotifyWakes DEF Told
    <3>1. Enough(count, "acquire", "released")'
      BY <1>1, <1>2, <1>3, <1>20, <2>1, <3>0
    <3>2. asleep' = asleep \/ \E u \in Sleepers("acquire") : asleep' = asleep \ {u}
      BY <2>2 DEF NotifyOne
    <3>3. Calm("pop", "pushed")
      BY <1>2, <2>2, <3>2 DEF Calm, Go, Awake, At, Sleepers
    <3>4. QED
      BY <1>5, <1>7, <2>1, <3>1, <3>3
  <2>3. CASE Go(t, "pushed", "idle") /\ NotifyOne("pop")
    <3>0. Told(t, "pop", "pushed")
      BY <1>1, <2>3, NotifyWakes DEF Told
    <3>1. Enough(Len(elements), "pop", "pushed")'
      BY <1>1, <1>2, <1>3, <1>20, <2>1, <3>0
    <3>2. asleep' = asleep \/ \E u \in Sleepers("pop") : asleep' = asleep \ {u}
      BY <2>3 DEF NotifyOne
    <3>3. Calm("acquire", "released")
      BY <1>2, <2>3, <3>2 DEF Calm, Go, Awake, At, Sleepers
    <3>4. QED
      BY <1>5, <1>6, <2>1, <3>1, <3>3
  <2>4. QED
    BY <1>14, <2>2, <2>3 DEF Notify
<1>15. ASSUME NEW t \in Thread, Pop(t) PROVE WakeupsSuffice'
  <2>1. UNCHANGED count
    BY <1>15 DEF Pop, semVars
  <2>2. CASE elements = <<>>
    <3>1. Sleep(t, "pop") /\ UNCHANGED elements
      BY <1>15, <2>2 DEF Pop
    <3>2. Calm("acquire", "released")
      BY <1>2, <3>1 DEF Calm, Sleep, Awake, At, Sleepers
    <3>3. Len(elements') = 0
      BY <2>2, <3>1, EmptySeq
    <3>4. Enough(Len(elements), "pop", "pushed")'
      BY <1>1, <1>2, <1>3, <1>20, <3>3
    <3>5. QED
      BY <1>5, <1>6, <2>1, <3>2, <3>4
  <2>3. CASE elements # <<>>
    <3>1. Go(t, "pop", "idle") /\ elements' = Tail(elements) /\ UNCHANGED asleep
      BY <1>15, <2>3 DEF Pop
    <3>2. Len(elements') = Len(elements) - 1
      BY <1>2, <2>3, <3>1, HeadTailProperties
    <3>3. Taken(t, "pop", "pushed")
      BY <1>2, <3>1 DEF Taken, Go, Awake, At, Sleepers
    <3>4. Enough(Len(elements), "pop", "pushed")'
      BY <1>1, <1>2, <1>3, <1>20, <3>2, <3>3
    <3>5. QED
      BY <1>5, <1>6, <1>8, <2>1, <3>1, <3>4
  <2>4. QED
    BY <2>2, <2>3
<1>16. ASSUME NEW t \in Thread, Arrive(t) \/ Pass(t) PROVE WakeupsSuffice'
  <2>1. UNCHANGED <<count, elements>>
    BY <1>16 DEF Arrive, Pass, semVars
  <2>2. Calm("acquire", "released") /\ Calm("pop", "pushed")
    BY <1>2, <1>16 DEF Calm, Arrive, Pass, Go, Sleep, Awake, At, Sleepers
  <2>3. QED
    BY <1>5, <1>6, <1>7, <2>1, <2>2
<1>17. CASE UNCHANGED vars
  <2>1. UNCHANGED <<count, elements, at, asleep>>
    BY <1>17 DEF vars, semVars
  <2>2. Calm("acquire", "released") /\ Calm("pop", "pushed")
    BY <2>1 DEF Calm, Awake, At, Sleepers
  <2>3. QED
    BY <1>5, <1>6, <1>7, <2>1, <2>2
<1>18. WakeupsSuffice'
  BY <1>9, <1>10, <1>11, <1>12, <1>13, <1>14, <1>15, <1>16, <1>17 DEF Next, Run
<1>19. QED
  BY <1>18 DEF WakeupsSuffice, EnoughFor

(***************************************************************************)
(* The barrier                                                             *)
(***************************************************************************)

\* The threads that wait in the present round.
Round == {t \in At("waiting") : arrived[t] = generation}

\* Every step keeps the rounds apart, and the generations remembered in the past.
LEMMA BarrierStep ==
  ASSUME SyncInv, [Next]_vars
  PROVE  GenerationsApart' /\ \A t \in Thread : arrived'[t] <= generation'
<1> DEFINE Threads == {"idle", "acquire", "released", "pop", "pushed", "barrier", "waiting"}
<1>1. /\ at \in [Thread -> Threads] /\ \A u \in asleep : u \in Thread
      /\ arrived \in [Thread -> Nat] /\ generation \in Nat /\ arrivals \in 1 .. Threshold
      /\ Threshold \in Nat
  BY SyncAssumption DEF SyncInv, TypeOK
<1>2. /\ arrivals + Cardinality(Round) = Threshold
      /\ \A u \in asleep : at[u] = "waiting" => u \in Round
      /\ \A u \in Thread : arrived[u] <= generation
  BY DEF SyncInv, GenerationsApart, Round, Sleepers
<1>3. ASSUME arrivals' + Cardinality(Round') = Threshold,
             \A u \in asleep' : at'[u] = "waiting" => u \in Round'
      PROVE  GenerationsApart'
  BY <1>3 DEF GenerationsApart, Round, Sleepers
<1>4. Round \in SUBSET Thread /\ IsFiniteSet(Thread) /\ Cardinality(Round) \in Nat
  BY CountOf, SyncAssumption DEF Round, At
<1>5. ASSUME UNCHANGED barrierVars, Round' = Round,
             \A u \in asleep' : at'[u] = "waiting" => u \in Round
      PROVE  GenerationsApart' /\ \A t \in Thread : arrived'[t] <= generation'
  BY <1>2, <1>3, <1>5 DEF barrierVars
<1>6. ASSUME NEW t \in Thread, NEW p \in Threads, NEW q \in Threads, Go(t, p, q),
             p # "waiting", q # "waiting", UNCHANGED barrierVars, asleep' \subseteq asleep
      PROVE  GenerationsApart' /\ \A u \in Thread : arrived'[u] <= generation'
  <2>1. Round' = Round
    BY <1>1, <1>6 DEF Round, At, Go, barrierVars
  <2>2. \A u \in asleep' : at'[u] = "waiting" => u \in Round
    BY <1>1, <1>2, <1>6 DEF Go
  <2>3. QED
    BY <1>5, <1>6, <2>1, <2>2
<1>7. ASSUME NEW t \in Thread, NEW op \in Threads, Sleep(t, op), UNCHANGED barrierVars,
             op = "waiting" => arrived[t] = generation
      PROVE  GenerationsApart' /\ \A u \in Thread : arrived'[u] <= generation'
  <2>1. Round' = Round
    BY <1>7 DEF Round, At, Sleep, barrierVars
  <2>2. \A u \in asleep' : at'[u] = "waiting" => u \in Round
    BY <1>2, <1>7 DEF Sleep, Round, At
  <2>3. QED
    BY <1>5, <1>7, <2>1, <2>2
<1>8. CASE UNCHANGED <<barrierVars, at>> /\ asleep' \subseteq asleep
  <2>1. Round' = Round
    BY <1>8 DEF Round, At, barrierVars
  <2>2. QED
    BY <1>2, <1>5, <1>8, <2>1
<1>9. ASSUME NEW t \in Thread,
             Call(t) \/ Release(t) \/ Push(t) \/ SpuriousWakeup(t) \/ Acquire(t) \/ Pop(t)
      PROVE  GenerationsApart' /\ \A u \in Thread : arrived'[u] <= generation'
  <2>1. CASE Call(t) \/ Release(t) \/ Push(t) \/ SpuriousWakeup(t)
    BY <1>6, <1>8, <2>1 DEF Call, Release, Push, SpuriousWakeup
  <2>2. CASE Acquire(t) \/ Pop(t)
    BY <1>6, <1>7, <2>2 DEF Acquire, Pop
  <2>3. QED
    BY <1>9, <2>1, <2>2
<1>10. ASSUME NEW t \in Thread, Notify(t)
       PROVE  GenerationsApart' /\ \A u \in Thread : arrived'[u] <= generation'
  <2>1. asleep' \subseteq asleep
    BY <1>10 DEF Notify, NotifyOne
  <2>2. QED
    BY <1>6, <1>10, <2>1 DEF Notify
<1>11. ASSUME NEW t \in Thread, Pass(t)
       PROVE  GenerationsApart' /\ \A u \in Thread : arrived'[u] <= generation'
  <2>0. UNCHANGED barrierVars
    BY <1>11 DEF Pass
  <2>1. CASE arrived[t] = generation
    BY <1>7, <1>11, <2>0, <2>1 DEF Pass
  <2>2. CASE arrived[t] # generation
    <3>1. Go(t, "waiting", "idle") /\ UNCHANGED asleep
      BY <1>11, <2>2 DEF Pass
    <3>2. Round' = Round
      BY <1>1, <2>0, <2>2, <3>1 DEF Go, Round, At, barrierVars
    <3>3. \A u \in asleep' : at'[u] = "waiting" => u \in Round
      BY <1>1, <1>2, <3>1 DEF Go
    <3>4. QED
      BY <1>5, <2>0, <3>2, <3>3
  <2>3. QED
    BY <2>1, <2>2
<1>12. ASSUME NEW t \in Thread, Arrive(t)
       PROVE  GenerationsApart' /\ \A u \in Thread : arrived'[u] <= generation'
  <2>0. arrived' = [arrived EXCEPT ![t] = generation]
    BY <1>12 DEF Arrive
  <2>1. CASE arrivals = 1
    <3>1. /\ Go(t, "barrier", "idle") /\ generation' = generation + 1 /\ arrivals' = Threshold
          /\ asleep' = asleep \ Sleepers("waiting")
      BY <1>12, <2>1 DEF Arrive
    <3>2. \A u \in Thread : arrived'[u] <= generation /\ arrived'[u] \in Nat
      BY <1>1, <1>2, <2>0
    <3>3. \A u \in Thread : arrived'[u] # generation' /\ arrived'[u] <= generation'
      BY <1>1, <3>1, <3>2
    <3>4. Round' = {}
      BY <3>3 DEF Round, At
    <3>5. \A u \in asleep' : at'[u] # "waiting"
      BY <1>1, <3>1 DEF Go, Sleepers
    <3>6. arrivals' + Cardinality(Round') = Threshold
      BY <1>1, <3>1, <3>4, FS_EmptySet
    <3>7. QED
      BY <1>3, <3>3, <3>5, <3>6
  <2>2. CASE arrivals # 1
    <3>1. /\ Go(t, "barrier", "waiting") /\ generation' = generation
          /\ arrivals' = arrivals - 1 /\ asleep' = asleep \cup {t}
      BY <1>12, <2>2 DEF Arrive
    <3>2. t \notin Round /\ Round' = Round \cup {t}
      BY <1>1, <2>0, <3>1 DEF Go, Round, At
    <3>3. Cardinality(Round') = Cardinality(Round) + 1
      BY <1>4, <3>2, CountUp
    <3>4. arrivals' + Cardinality(Round') = Threshold
      BY <1>1, <1>2, <1>4, <3>1, <3>3
    <3>5. \A u \in asleep' : at'[u] = "waiting" => u \in Round'
      BY <1>1, <1>2, <3>1, <3>2 DEF Go
    <3>6. \A u \in Thread : arrived'[u] <= generation'
      BY <1>1, <1>2, <2>0, <3>1
    <3>7. QED
      BY <1>3, <3>4, <3>5, <3>6
  <2>3. QED
    BY <2>1, <2>2
<1>13. CASE UNCHANGED vars
  BY <1>8, <1>13 DEF vars, barrierVars
<1>14. QED
  BY <1>9, <1>10, <1>11, <1>12, <1>13 DEF Next, Run

(***************************************************************************)
(* The theorems                                                            *)
(***************************************************************************)

\* Counts, queue, rounds, sleepers and notifications of counting_semaphore,
\* synchronizing_queue and barrier are in step at every moment.
THEOREM SyncInvariant == Spec => []SyncInv
<1>1. Init => SyncInv
  <2>1. SUFFICES ASSUME Init PROVE SyncInv
    OBVIOUS
  <2>2. TypeOK
    BY <2>1, SyncAssumption DEF Init, TypeOK
  <2>3. WakeupsSuffice
    BY <2>1 DEF Init, WakeupsSuffice, Sleepers
  <2>4. Round = {} /\ Sleepers("waiting") = {}
    BY <2>1 DEF Init, Round, At, Sleepers
  <2>5. arrivals = Threshold /\ Threshold \in Nat /\ \A t \in Thread : arrived[t] <= generation
    BY <2>1, SyncAssumption DEF Init
  <2>6. GenerationsApart
    BY <2>4, <2>5, FS_EmptySet DEF GenerationsApart, Round
  <2>7. QED
    BY <2>2, <2>3, <2>5, <2>6 DEF SyncInv
<1>2. SyncInv /\ [Next]_vars => SyncInv'
  BY TypeStep, WakeupsStep, BarrierStep DEF SyncInv
<1>3. QED
  BY <1>1, <1>2, PTL DEF Spec

\* Every variable stays in its range: the semaphore never goes below zero, and the
\* barrier never waits for fewer than one thread or more than its threshold.
THEOREM TypeCorrect == Spec => []TypeOK
  BY SyncInvariant, PTL DEF SyncInv

\* No wakeup of the semaphore or the queue is lost, though release and push call
\* notify_one after the unlock and notify_one may wake any sleeper.
THEOREM NoLostWakeup == Spec => []WakeupsSuffice
  BY SyncInvariant, PTL DEF SyncInv

\* The rounds of the barrier do not mix, and nobody sleeps in one that is over: wait
\* compares the generation and not the count, and the last thread notifies them all.
THEOREM RoundsDoNotMix == Spec => []GenerationsApart
  BY SyncInvariant, PTL DEF SyncInv

(***************************************************************************)
(* The refinement of AtomicSync                                            *)
(***************************************************************************)

\* Where AtomicSync sees a thread at p.
Seen(p) == IF p \in {"released", "pushed"} THEN "idle" ELSE p

atBar == [t \in Thread |-> Seen(at[t])]

\* A move of a thread is the move between the places that AtomicSync sees it at.
LEMMA MovesMap ==
  ASSUME TypeOK, NEW t \in Thread, NEW from, NEW to, Go(t, from, to)
  PROVE  atBar[t] = Seen(from) /\ atBar' = [atBar EXCEPT ![t] = Seen(to)]
<1>1. at' \in [Thread -> {at'[u] : u \in Thread}] /\ \A u \in Thread \ {t} : at'[u] = at[u]
  BY DEF TypeOK, Go
<1>2. at[t] = from /\ at'[t] = to
  BY DEF TypeOK, Go
<1>3. \A u \in Thread : atBar'[u] = [atBar EXCEPT ![t] = Seen(to)][u]
  BY <1>1, <1>2 DEF atBar
<1>4. QED
  BY <1>2, <1>3 DEF atBar

\* A step of SyncLib is a step of AtomicSync or changes nothing there: a release or a
\* push takes effect in its locked block; notifying, sleeping and waking do not show.
LEMMA StepsMap ==
  ASSUME TypeOK, [Next]_vars
  PROVE  [Atomic!Next]_Atomic!vars
<1>1. ASSUME UNCHANGED <<semVars, elements, barrierVars, atBar>>
      PROVE  UNCHANGED Atomic!vars
  BY <1>1 DEF Atomic!vars, semVars, barrierVars, atBar, Seen
<1>2. ASSUME UNCHANGED at PROVE UNCHANGED atBar
  BY <1>2 DEF atBar
<1>3. ASSUME NEW t \in Thread, NEW from, NEW to, Go(t, from, to), Seen(from) = Seen(to)
      PROVE  UNCHANGED atBar
  BY <1>3, MovesMap DEF atBar
<1>4. ASSUME NEW t \in Thread, NEW from, NEW to, Go(t, from, to),
             Seen(from) = from, Seen(to) = to
      PROVE  Atomic!Go(t, from, to)
  BY <1>4, MovesMap DEF Atomic!Go, atBar, Seen
<1>5. \A p \in {"idle", "acquire", "pop", "barrier", "waiting"} : Seen(p) = p
  BY DEF Seen
<1>6. Seen("released") = "idle" /\ Seen("pushed") = "idle"
  BY DEF Seen
<1>7. ASSUME NEW t \in Thread, Call(t) PROVE Atomic!Next
  <2>1. \E op \in {"acquire", "pop", "barrier"} : Go(t, "idle", op)
    BY <1>7 DEF Call
  <2>2. \E op \in {"acquire", "pop", "barrier"} : Atomic!Go(t, "idle", op)
    BY <1>4, <1>5, <2>1
  <2>3. Atomic!Call(t)
    BY <1>7, <2>2 DEF Call, Atomic!Call, semVars, barrierVars
  <2>4. QED
    BY <2>3 DEF Atomic!Next
<1>8. ASSUME NEW t \in Thread, SpuriousWakeup(t) \/ Notify(t) PROVE UNCHANGED Atomic!vars
  <2>1. CASE SpuriousWakeup(t)
    BY <1>1, <1>2, <2>1 DEF SpuriousWakeup
  <2>2. CASE Notify(t)
    BY <1>1, <1>3, <1>5, <1>6, <2>2 DEF Notify
  <2>3. QED
    BY <1>8, <2>1, <2>2
<1>9. ASSUME NEW t \in Thread, Release(t) PROVE Atomic!Next
  <2>1. Go(t, "idle", "released")
    BY <1>9 DEF Release
  <2>2. UNCHANGED atBar /\ atBar[t] = "idle"
    BY <1>3, <1>5, <1>6, <2>1, MovesMap
  <2>3. Atomic!Release(t)
    BY <1>9, <2>2 DEF Release, Atomic!Release, barrierVars, atBar, Seen
  <2>4. QED
    BY <2>3 DEF Atomic!Next
<1>10. ASSUME NEW t \in Thread, Push(t) PROVE Atomic!Next
  <2>1. Go(t, "idle", "pushed")
    BY <1>10 DEF Push
  <2>2. UNCHANGED atBar /\ atBar[t] = "idle"
    BY <1>3, <1>5, <1>6, <2>1, MovesMap
  <2>3. Atomic!Push(t)
    BY <1>10, <2>2 DEF Push, Atomic!Push, semVars, barrierVars, atBar, Seen
  <2>4. QED
    BY <2>3 DEF Atomic!Next
<1>11. ASSUME NEW t \in Thread, Acquire(t) PROVE [Atomic!Next]_Atomic!vars
  <2>1. CASE count = 0
    BY <1>1, <1>2, <1>11, <2>1 DEF Acquire, Sleep
  <2>2. CASE count # 0
    <3>1. Atomic!Go(t, "acquire", "idle")
      BY <1>4, <1>5, <1>11, <2>2 DEF Acquire
    <3>2. Atomic!Acquire(t)
      BY <1>11, <2>2, <3>1 DEF Acquire, Atomic!Acquire, barrierVars
    <3>3. QED
      BY <3>2 DEF Atomic!Next, Atomic!Grant
  <2>3. QED
    BY <2>1, <2>2
<1>12. ASSUME NEW t \in Thread, Pop(t) PROVE [Atomic!Next]_Atomic!vars
  <2>1. CASE elements = <<>>
    BY <1>1, <1>2, <1>12, <2>1 DEF Pop, Sleep
  <2>2. CASE elements # <<>>
    <3>1. Atomic!Go(t, "pop", "idle")
      BY <1>4, <1>5, <1>12, <2>2 DEF Pop
    <3>2. Atomic!Pop(t)
      BY <1>12, <2>2, <3>1 DEF Pop, Atomic!Pop, semVars, barrierVars
    <3>3. QED
      BY <3>2 DEF Atomic!Next, Atomic!Grant
  <2>3. QED
    BY <2>1, <2>2
<1>13. ASSUME NEW t \in Thread, Arrive(t) PROVE Atomic!Next
  <2>1. IF arrivals = 1 THEN Atomic!Go(t, "barrier", "idle") ELSE Atomic!Go(t, "barrier", "waiting")
    BY <1>4, <1>5, <1>13 DEF Arrive
  <2>2. Atomic!Arrive(t)
    BY <1>13, <2>1 DEF Arrive, Atomic!Arrive, semVars
  <2>3. QED
    BY <2>2 DEF Atomic!Next, Atomic!Grant
<1>14. ASSUME NEW t \in Thread, Pass(t) PROVE [Atomic!Next]_Atomic!vars
  <2>1. CASE arrived[t] = generation
    BY <1>1, <1>2, <1>14, <2>1 DEF Pass, Sleep
  <2>2. CASE arrived[t] # generation
    <3>1. Atomic!Go(t, "waiting", "idle")
      BY <1>4, <1>5, <1>14, <2>2 DEF Pass
    <3>2. Atomic!Pass(t)
      BY <1>14, <2>2, <3>1 DEF Pass, Atomic!Pass, semVars, barrierVars
    <3>3. QED
      BY <3>2 DEF Atomic!Next, Atomic!Grant
  <2>3. QED
    BY <2>1, <2>2
<1>15. CASE UNCHANGED vars
  BY <1>1, <1>2, <1>15 DEF vars
<1>16. QED
  BY <1>7, <1>8, <1>9, <1>10, <1>11, <1>12, <1>13, <1>14, <1>15 DEF Next, Run

\* The safety part of ImplementsAtomicSync: whatever the locks, wakeups and rechecks do,
\* callers see operations that take effect at once.
THEOREM OperationsAreAtomic == Spec => Atomic!Spec
<1>1. Init => Atomic!Init
  <2>1. SUFFICES ASSUME Init PROVE Atomic!Init
    OBVIOUS
  <2>2. QED
    BY <2>1 DEF Init, Atomic!Init
<1>2. QED
  BY <1>1, StepsMap, TypeCorrect, PTL DEF Spec, Atomic!Spec

=============================================================================
