-------------------------- MODULE RestaurantProofs --------------------------
(***************************************************************************)
(* Theorems about Restaurant, for every number of cooks and clients and    *)
(* all the stoves and ovens there may be.                                  *)
(***************************************************************************)
EXTENDS Restaurant, Counting, SequenceTheorems

(***************************************************************************)
(* Counting                                                                *)
(***************************************************************************)

\* A set of at most one element has cardinality zero or one.
LEMMA CountAtMostOne ==
  ASSUME NEW S, AtMostOne(S)
  PROVE  Cardinality(S) = IF S = {} THEN 0 ELSE 1
<1>1. CASE S = {}
  BY <1>1, FS_EmptySet
<1>2. CASE S # {}
  <2>1. PICK x \in S : TRUE
    BY <1>2
  <2>2. S = {x}
    BY <2>1 DEF AtMostOne
  <2>3. QED
    BY <1>2, <2>2, FS_Singleton
<1>3. QED
  BY <1>1, <1>2

\* The threads and the equipment can be counted.
LEMMA Counts ==
  /\ NCooks \in Nat \ {0} /\ NClients \in Nat
  /\ NOvens \in Nat \ {0} /\ NStoves \in Nat \ {0}
  BY ArgsAssumption, FS_CardinalityType, FS_EmptySet
     DEF NCooks, NClients, NOvens, NStoves

(***************************************************************************)
(* What a step leaves alone                                                *)
(***************************************************************************)

\* A step of a cook changes neither what belongs to the clients and the main thread,
\* but for received, nor what belongs to other cooks.
LEMMA CookFrame ==
  ASSUME TypeOK, NEW k \in Cook, CookNext(k)
  PROVE  /\ UNCHANGED <<is_open, mpc, cpc, order_id, countVars, subscriptions>>
         /\ \A j \in Cook \ {k} :
              /\ kpc'[j] = kpc[j] /\ current'[j] = current[j] /\ uses'[j] = uses[j]
              /\ completed'[j] = completed[j] /\ current_gen'[j] = current_gen[j]
         /\ kpc' = [kpc EXCEPT ![k] = kpc'[k]]
<1> USE DEF TypeOK, CookStep, board, equipment, barrierVars, jobs, countVars
<1>1. CASE CookArrives(k)
  BY <1>1 DEF CookArrives
<1>2. CASE CookStarts(k)
  BY <1>2 DEF CookStarts
<1>3. CASE CheckOpen(k)
  BY <1>3 DEF CheckOpen
<1>4. CASE CheckQueue(k)
  BY <1>4 DEF CheckQueue
<1>5. CASE TakeOrder(k)
  BY <1>5 DEF TakeOrder
<1>6. CASE AcquireStove(k)
  BY <1>6 DEF AcquireStove
<1>7. CASE AcquireOven(k)
  BY <1>7 DEF AcquireOven
<1>8. CASE ReleaseStove(k)
  BY <1>8 DEF ReleaseStove
<1>9. CASE ReleaseOven(k)
  BY <1>9 DEF ReleaseOven
<1>10. CASE NotifyClient(k)
  BY <1>10 DEF NotifyClient
<1>11. CASE SignalClient(k)
  BY <1>11 DEF SignalClient
<1>12. CASE LogOrder(k)
  BY <1>12 DEF LogOrder
<1>13. QED
  BY <1>1, <1>2, <1>3, <1>4, <1>5, <1>6, <1>7, <1>8, <1>9, <1>10, <1>11, <1>12
     DEF CookNext

\* A step of a client changes nothing that belongs to the cooks, the barrier, the main
\* thread or other clients.
LEMMA ClientFrame ==
  ASSUME TypeOK, NEW c \in Client, ClientNext(c)
  PROVE  /\ UNCHANGED <<is_open, mpc, equipment, barrierVars, cookVars, received>>
         /\ \A d \in Client \ {c} : cpc'[d] = cpc[d] /\ order_id'[d] = order_id[d]
         /\ cpc[c] # "unborn" /\ cpc'[c] # "unborn" /\ cpc[c] # "gone"
         /\ cpc' = [cpc EXCEPT ![c] = cpc'[c]]
         /\ cpc[c] # "away" => order_id' = order_id
<1> USE DEF TypeOK, ClientStep, tickets
<1>1. CASE Enter(c)
  BY <1>1 DEF Enter
<1>2. CASE GiveUp(c)
  BY <1>2 DEF GiveUp
<1>3. CASE Subscribe(c)
  BY <1>3 DEF Subscribe
<1>4. CASE PushOrder(c)
  BY <1>4 DEF PushOrder
<1>5. CASE CountAccepted(c)
  BY <1>5 DEF CountAccepted
<1>6. CASE Receive(c)
  BY <1>6 DEF Receive
<1>7. QED
  BY <1>1, <1>2, <1>3, <1>4, <1>5, <1>6 DEF ClientNext

\* A step of the main thread changes its place, the barrier or the births of clients.
LEMMA MainFrame ==
  ASSUME MainNext
  PROVE  /\ UNCHANGED <<is_open, board, equipment, current_gen, cookVars, tickets, countVars>>
         /\ mpc # "starting" => UNCHANGED <<arrivals, generation>>
         /\ mpc # "opening" => UNCHANGED cpc
         /\ mpc = "opening" => cpc' = [c \in Client |-> "away"]
         /\ mpc' # "starting" /\ mpc' # mpc
  BY DEF MainNext, MainStep, MainArrives, MainStarts, SpawnClients, JoinClients, JoinTimer,
         JoinCooks

\* What only cooks change, and what only cooks and the main thread do.
LEMMA CookMoves ==
  ASSUME TypeOK, NEW k \in Cook, CookNext(k)
  PROVE  /\ kpc'[k] # "arriving" /\ kpc[k] # "done"
         /\ kpc[k] # "arriving" => UNCHANGED barrierVars
         /\ kpc[k] = "arriving" => CookArrives(k)
         /\ kpc[k] = "barrier" => CookStarts(k)
<1> USE DEF TypeOK, CookStep, AfterTake
<1>1. kpc'[k] # "arriving"
  BY DEF CookNext, CookArrives, CookStarts, CheckOpen, CheckQueue, TakeOrder, AcquireStove,
         AcquireOven, ReleaseStove, ReleaseOven, NotifyClient, SignalClient, LogOrder
<1>2. QED
  BY <1>1 DEF CookNext, CookArrives, CookStarts, CheckOpen, CheckQueue, TakeOrder,
     AcquireStove, AcquireOven, ReleaseStove, ReleaseOven, NotifyClient, SignalClient, LogOrder

(***************************************************************************)
(* The barrier                                                             *)
(***************************************************************************)

\* Every step keeps the count of the barrier and the threads it waits for in step.
LEMMA BarrierStep ==
  ASSUME RestaurantInv, [Next]_vars
  PROVE  BarrierInv'
<1> USE DEF RestaurantInv
<1> DEFINE Waited == {k \in Cook : kpc[k] = "arriving"}
<1>0. Waited \in SUBSET Cook /\ IsFiniteSet(Cook) /\ Cardinality(Waited) \in Nat
  BY CountOf, ArgsAssumption
<1>1. ASSUME NEW k \in Cook, CookNext(k) PROVE BarrierInv'
  <2>1. CASE kpc[k] = "arriving"
    <3>1. CookArrives(k) /\ generation = 0
      BY <1>1, <2>1, CookMoves DEF BarrierInv
    <3>2. kpc' = [kpc EXCEPT ![k] = "barrier"] /\ mpc' = mpc
      BY <3>1 DEF CookArrives, CookStep
    <3>3. Waited' = Waited \ {k} /\ k \in Waited
      BY <2>1, <3>2 DEF TypeOK
    <3>4. Cardinality(Waited') = Cardinality(Waited) - 1
      BY <1>0, <3>3, CountDown
    <3>5. Waited' \in SUBSET Cook /\ Cardinality(Waited') \in Nat
      BY <3>3, <1>0, CountOf
    <3>6. current_gen' = [current_gen EXCEPT ![k] = 0]
      BY <3>1 DEF CookArrives
    <3>7. CASE arrivals = 1
      <4>1. Cardinality(Waited') = 0 /\ mpc # "starting"
        BY <3>1, <3>4, <3>5, <3>7, <1>0 DEF BarrierInv
      <4>2. Waited' = {}
        BY <4>1, <3>5, <1>0, CountOf, FS_EmptySet
      <4>3. generation' = 1
        BY <3>1, <3>7 DEF CookArrives, Arrive
      <4>4. QED
        BY <4>1, <4>2, <4>3, <3>2, <3>6 DEF BarrierInv, TypeOK
    <3>8. CASE arrivals # 1
      <4>1. arrivals' = arrivals - 1 /\ generation' = 0
        BY <3>1, <3>8 DEF CookArrives, Arrive
      <4>2. QED
        BY <4>1, <3>1, <3>2, <3>4, <3>6, <1>0 DEF BarrierInv, TypeOK
    <3>9. QED
      BY <3>7, <3>8
  <2>2. CASE kpc[k] # "arriving"
    <3>1. UNCHANGED <<arrivals, generation, current_gen>> /\ kpc'[k] # "arriving"
      BY <1>1, <2>2, CookMoves DEF barrierVars
    <3>2. generation # 0
      BY <1>1, <2>2, CookMoves DEF BarrierInv, CookStarts, Released
    <3>3. QED
      BY <1>1, <3>1, <3>2, CookFrame DEF BarrierInv
  <2>3. QED
    BY <2>1, <2>2
<1>2. ASSUME NEW c \in Client, ClientNext(c) PROVE BarrierInv'
  BY <1>2, ClientFrame DEF BarrierInv, barrierVars, cookVars
<1>3. CASE Close \/ UNCHANGED vars
  BY <1>3 DEF Close, vars, BarrierInv, barrierVars, cookVars
<1>4. CASE MainNext
  <2>1. CASE MainArrives
    <3>1. mpc = "starting" /\ mpc' = "barrier" /\ kpc' = kpc /\ current_gen' = current_gen
      BY <2>1 DEF MainArrives, MainStep, cookVars
    <3>2. generation = 0 /\ arrivals = Cardinality(Waited) + 1
      BY <3>1 DEF BarrierInv, TypeOK
    <3>3. CASE arrivals = 1
      <4>1. Cardinality(Waited) = 0
        BY <3>2, <3>3, <1>0
      <4>2. Waited = {}
        BY <4>1, <1>0, CountOf, FS_EmptySet
      <4>3. generation' = 1
        BY <2>1, <3>2, <3>3 DEF MainArrives, Arrive
      <4>4. QED
        BY <4>2, <4>3, <3>1 DEF BarrierInv
    <3>4. CASE arrivals # 1
      <4>1. arrivals' = arrivals - 1 /\ generation' = 0
        BY <2>1, <3>2, <3>4 DEF MainArrives, Arrive
      <4>2. QED
        BY <4>1, <3>1, <3>2, <1>0 DEF BarrierInv
    <3>5. QED
      BY <3>3, <3>4
  <2>2. CASE ~ MainArrives
    <3>1. UNCHANGED <<arrivals, generation, current_gen, kpc>>
      BY <1>4, <2>2 DEF MainNext, MainStep, MainStarts, SpawnClients, JoinClients, JoinTimer,
                        JoinCooks, cookVars
    <3>2. generation # 0 /\ mpc' # "starting"
      BY <1>4, <2>2 DEF MainNext, MainStep, MainStarts, SpawnClients, JoinClients, JoinTimer,
                        JoinCooks, BarrierInv, Released
    <3>3. QED
      BY <3>1, <3>2 DEF BarrierInv
  <2>3. QED
    BY <2>1, <2>2
<1>5. QED
  BY <1>1, <1>2, <1>3, <1>4 DEF Next

(***************************************************************************)
(* The cooks' jobs and the equipment                                       *)
(***************************************************************************)

\* Every step keeps what a cook has in hand, and what it waits for, in step with its place.
LEMMA JobsStep ==
  ASSUME RestaurantInv, [Next]_vars
  PROVE  JobsInv'
<1> USE DEF RestaurantInv
<1>1. ASSUME NEW k \in Cook, CookNext(k) PROVE JobsInv'
  <2> DEFINE Job(j) ==
        /\ current[j] # Null <=>
             kpc[j] \in {"stove", "oven", "cooking", "releasing", "notifying", "signalling",
                         "logging"}
        /\ kpc[j] \in {"stove", "oven"} => kpc[j] \in uses[j]
  <2>1. \A j \in Cook \ {k} : Job(j)'
    BY <1>1, CookFrame DEF JobsInv
  <2>2. Job(k)'
    <3> USE DEF JobsInv, TypeOK, CookStep, jobs, AfterTake
    <3>1. CASE CookArrives(k) \/ CookStarts(k)
      BY <3>1 DEF CookArrives, CookStarts
    <3>2. CASE CheckOpen(k) \/ CheckQueue(k)
      BY <3>2 DEF CheckOpen, CheckQueue
    <3>3. CASE TakeOrder(k)
      <4>1. Head(orders_in) \in Order
        BY <3>3, HeadTailProperties DEF TakeOrder
      <4>2. Head(orders_in) # Null
        BY <4>1, NoOrderAssumption
      <4>3. QED
        BY <3>3, <4>2 DEF TakeOrder
    <3>4. CASE AcquireStove(k)
      BY <3>4 DEF AcquireStove
    <3>5. CASE AcquireOven(k)
      BY <3>5 DEF AcquireOven
    <3>6. CASE ReleaseStove(k) \/ ReleaseOven(k)
      BY <3>6 DEF ReleaseStove, ReleaseOven
    <3>7. CASE NotifyClient(k) \/ SignalClient(k)
      BY <3>7 DEF NotifyClient, SignalClient
    <3>8. CASE LogOrder(k)
      BY <3>8 DEF LogOrder
    <3>9. QED
      BY <1>1, <3>1, <3>2, <3>3, <3>4, <3>5, <3>6, <3>7, <3>8 DEF CookNext
  <2>3. QED
    BY <2>1, <2>2 DEF JobsInv
<1>2. ASSUME NEW c \in Client, ClientNext(c) PROVE JobsInv'
  BY <1>2, ClientFrame DEF JobsInv, cookVars, jobs
<1>3. CASE Close \/ UNCHANGED vars
  BY <1>3 DEF Close, vars, JobsInv, cookVars, jobs
<1>4. CASE MainNext
  BY <1>4, MainFrame DEF JobsInv, cookVars, jobs
<1>5. QED
  BY <1>1, <1>2, <1>3, <1>4 DEF Next

\* Every step keeps the permits: a stove or an oven is free or held by one cook.
LEMMA EquipmentStep ==
  ASSUME RestaurantInv, [Next]_vars
  PROVE  EquipmentConserved'
<1> USE DEF RestaurantInv
<1> DEFINE S == {k \in Cook : HoldsStove(k)}
           O == {k \in Cook : HoldsOven(k)}
<1>0. S \in SUBSET Cook /\ O \in SUBSET Cook /\ IsFiniteSet(Cook)
  BY ArgsAssumption
<1>1. Cardinality(S) \in Nat /\ Cardinality(O) \in Nat
  BY <1>0, CountOf
<1>2. ASSUME NEW k \in Cook, CookNext(k) PROVE EquipmentConserved'
  <2>0. \A j \in Cook \ {k} : (HoldsStove(j)' <=> HoldsStove(j)) /\ (HoldsOven(j)' <=> HoldsOven(j))
    BY <1>2, CookFrame DEF HoldsStove, HoldsOven
  <2> USE DEF TypeOK, JobsInv, CookStep, equipment, jobs, AfterTake, HoldsStove, HoldsOven
  <2>1. \/ UNCHANGED stoves /\ (HoldsStove(k)' <=> HoldsStove(k))
        \/ stoves' = stoves - 1 /\ ~ HoldsStove(k) /\ HoldsStove(k)'
        \/ stoves' = stoves + 1 /\ HoldsStove(k) /\ ~ HoldsStove(k)'
    <3>1. CASE CookArrives(k) \/ CookStarts(k) \/ CheckOpen(k) \/ CheckQueue(k) \/ LogOrder(k)
      BY <3>1 DEF CookArrives, CookStarts, CheckOpen, CheckQueue, LogOrder
    <3>2. CASE TakeOrder(k)
      BY <3>2 DEF TakeOrder
    <3>3. CASE AcquireStove(k)
      BY <3>3 DEF AcquireStove
    <3>4. CASE AcquireOven(k)
      BY <3>4 DEF AcquireOven
    <3>5. CASE ReleaseStove(k)
      BY <3>5 DEF ReleaseStove
    <3>6. CASE ReleaseOven(k) \/ NotifyClient(k) \/ SignalClient(k)
      BY <3>6 DEF ReleaseOven, NotifyClient, SignalClient
    <3>7. QED
      BY <1>2, <3>1, <3>2, <3>3, <3>4, <3>5, <3>6 DEF CookNext
  <2>2. \/ UNCHANGED ovens /\ (HoldsOven(k)' <=> HoldsOven(k))
        \/ ovens' = ovens - 1 /\ ~ HoldsOven(k) /\ HoldsOven(k)'
        \/ ovens' = ovens + 1 /\ HoldsOven(k) /\ ~ HoldsOven(k)'
    <3>1. CASE CookArrives(k) \/ CookStarts(k) \/ CheckOpen(k) \/ CheckQueue(k) \/ LogOrder(k)
      BY <3>1 DEF CookArrives, CookStarts, CheckOpen, CheckQueue, LogOrder
    <3>2. CASE TakeOrder(k)
      BY <3>2 DEF TakeOrder
    <3>3. CASE AcquireStove(k)
      BY <3>3 DEF AcquireStove
    <3>4. CASE AcquireOven(k)
      BY <3>4 DEF AcquireOven
    <3>5. CASE ReleaseStove(k) \/ ReleaseOven(k)
      BY <3>5 DEF ReleaseStove, ReleaseOven
    <3>6. CASE NotifyClient(k) \/ SignalClient(k)
      BY <3>6 DEF NotifyClient, SignalClient
    <3>7. QED
      BY <1>2, <3>1, <3>2, <3>3, <3>4, <3>5, <3>6 DEF CookNext
  <2> HIDE DEF TypeOK, JobsInv, CookStep, HoldsStove, HoldsOven
  <2>3. stoves' + Cardinality(S') = NStoves
    <3>1. \/ stoves' = stoves /\ S' = S
          \/ stoves' = stoves - 1 /\ k \notin S /\ S' = S \cup {k}
          \/ stoves' = stoves + 1 /\ k \in S /\ S' = S \ {k}
      BY <2>0, <2>1
    <3>2. stoves \in Nat /\ NStoves \in Nat /\ stoves + Cardinality(S) = NStoves
      BY Counts DEF TypeOK, EquipmentConserved
    <3> HIDE DEF S
    <3>3. QED
      BY <1>0, <3>1, <3>2, PermitsKept
  <2>4. ovens' + Cardinality(O') = NOvens
    <3>1. \/ ovens' = ovens /\ O' = O
          \/ ovens' = ovens - 1 /\ k \notin O /\ O' = O \cup {k}
          \/ ovens' = ovens + 1 /\ k \in O /\ O' = O \ {k}
      BY <2>0, <2>2
    <3>2. ovens \in Nat /\ NOvens \in Nat /\ ovens + Cardinality(O) = NOvens
      BY Counts DEF TypeOK, EquipmentConserved
    <3> HIDE DEF O
    <3>3. QED
      BY <1>0, <3>1, <3>2, PermitsKept
  <2>5. QED
    BY <2>3, <2>4 DEF EquipmentConserved
<1>3. CASE UNCHANGED <<equipment, cookVars>>
  BY <1>3 DEF EquipmentConserved, equipment, cookVars, jobs, HoldsStove, HoldsOven
<1>4. QED
  BY <1>2, <1>3, ClientFrame, MainFrame DEF Next, Close, vars

(***************************************************************************)
(* The main thread, the order numbers and the counters                     *)
(***************************************************************************)

\* Every step keeps what the main thread has waited for true.
LEMMA MainInvStep ==
  ASSUME RestaurantInv, [Next]_vars
  PROVE  MainInv'
<1> USE DEF RestaurantInv
<1>1. ASSUME NEW k \in Cook, CookNext(k) PROVE MainInv'
  BY <1>1, CookFrame, CookMoves DEF MainInv
<1>2. ASSUME NEW c \in Client, ClientNext(c) PROVE MainInv'
  BY <1>2, ClientFrame DEF MainInv, cookVars
<1>3. CASE Close \/ UNCHANGED vars
  BY <1>3 DEF Close, vars, MainInv, cookVars
<1>4. CASE MainNext
  <2> USE DEF MainInv, MainStep, cookVars
  <2>1. CASE MainArrives \/ MainStarts
    BY <2>1 DEF MainArrives, MainStarts
  <2>2. CASE SpawnClients
    BY <2>2 DEF SpawnClients
  <2>3. CASE JoinClients \/ JoinTimer \/ JoinCooks
    BY <2>3 DEF JoinClients, JoinTimer, JoinCooks
  <2>4. QED
    BY <1>4, <2>1, <2>2, <2>3 DEF MainNext
<1>5. QED
  BY <1>1, <1>2, <1>3, <1>4 DEF Next

\* order_received, once set, is never reset; only cooks set it.
LEMMA ReceivedStays ==
  ASSUME TypeOK, [Next]_vars, NEW c \in Client, received[c]
  PROVE  received'[c]
<1>1. ASSUME NEW k \in Cook, CookNext(k) PROVE received'[c]
  BY <1>1 DEF CookNext, CookArrives, CookStarts, CheckOpen, CheckQueue, TakeOrder, AcquireStove,
              AcquireOven, ReleaseStove, ReleaseOven, NotifyClient, SignalClient, LogOrder
<1>2. QED
  BY <1>1, ClientFrame, MainFrame DEF Next, Close, vars, tickets

\* Every step keeps the order numbers apart, and the subscriptions made with them.
LEMMA TicketsStep ==
  ASSUME RestaurantInv, [Next]_vars
  PROVE  TicketsInv'
<1> USE DEF RestaurantInv
<1>1. CASE UNCHANGED <<cpc, order_id, next_order_id, subscriptions>>
  <2>1. NClients' = NClients
    BY DEF NClients
  <2>2. QED
    BY <1>1, <2>1, ReceivedStays DEF TicketsInv
<1>2. ASSUME NEW c \in Client, ClientNext(c) PROVE TicketsInv'
  <2> USE DEF TypeOK, TicketsInv, ClientStep, tickets, countVars, board
  <2>1. CASE Enter(c)
    <3>1. order_id' = [order_id EXCEPT ![c] = next_order_id] /\ next_order_id' = next_order_id + 1
          /\ cpc' = [cpc EXCEPT ![c] = "subscribing"] /\ cpc[c] = "away"
          /\ UNCHANGED <<subscriptions, received>>
      BY <2>1 DEF Enter
    <3>2. \A d \in Client : order_id[d] < next_order_id /\ order_id[d] \in Nat
      OBVIOUS
    <3>3. next_order_id \in Nat \ {0}
      OBVIOUS
    <3>4. \A i \in 1 .. NClients : <<i, c>> \notin subscriptions
      BY <3>1
    <3>5. QED
      BY <3>1, <3>2, <3>3, <3>4 DEF NClients
  <2>2. CASE GiveUp(c)
    BY <2>2 DEF GiveUp, NClients
  <2>3. CASE Subscribe(c)
    BY <2>3 DEF Subscribe, NClients
  <2>4. CASE PushOrder(c) \/ CountAccepted(c) \/ Receive(c)
    BY <2>4 DEF PushOrder, CountAccepted, Receive, NClients
  <2>5. QED
    BY <1>2, <2>1, <2>2, <2>3, <2>4 DEF ClientNext
<1>3. CASE SpawnClients
  <2>1. cpc' = [c \in Client |-> "away"] /\ mpc = "opening" /\
        UNCHANGED <<order_id, received, next_order_id, subscriptions>>
    BY <1>3 DEF SpawnClients, MainStep, tickets, countVars, board
  <2>2. \A c \in Client : cpc[c] = "unborn"
    BY <2>1 DEF MainInv
  <2>3. QED
    BY <2>1, <2>2 DEF TicketsInv, NClients
<1>4. ASSUME NEW k \in Cook, CookNext(k) PROVE TicketsInv'
  BY <1>1, <1>4, CookFrame DEF countVars
<1>5. CASE (MainNext /\ ~ SpawnClients) \/ Close \/ UNCHANGED vars
  BY <1>1, <1>5 DEF MainNext, MainStep, MainArrives, MainStarts, JoinClients, JoinTimer,
     JoinCooks, tickets, countVars, board, Close, vars
<1>6. QED
  BY <1>2, <1>3, <1>4, <1>5 DEF Next

\* Every step keeps the counters at what they count.
LEMMA CountersStep ==
  ASSUME RestaurantInv, [Next]_vars
  PROVE  CountersInv'
<1> USE DEF RestaurantInv
<1> DEFINE D == {c \in Client : order_id[c] # 0}
           A == {c \in Client : Placed(c) /\ cpc[c] # "counting"}
           G == {c \in Client : cpc[c] = "gone" /\ order_id[c] = 0}
<1>0. /\ IsFiniteSet(Client)
      /\ D \in SUBSET Client /\ A \in SUBSET Client /\ G \in SUBSET Client
  BY ArgsAssumption
<1>1. Cardinality(D) \in Nat /\ Cardinality(A) \in Nat /\ Cardinality(G) \in Nat
  BY <1>0, CountOf
<1>2. CASE UNCHANGED <<cpc, order_id, next_order_id, accepted, denied>>
  BY <1>2 DEF CountersInv, Placed
<1>3. ASSUME NEW c \in Client, ClientNext(c) PROVE CountersInv'
  <2> DEFINE Same(d) ==
        /\ order_id'[d] # 0 <=> order_id[d] # 0
        /\ (Placed(d) /\ cpc[d] # "counting")' <=> Placed(d) /\ cpc[d] # "counting"
        /\ (cpc[d] = "gone" /\ order_id[d] = 0)' <=> cpc[d] = "gone" /\ order_id[d] = 0
  <2>0. \A d \in Client \ {c} : Same(d)
    BY <1>3, ClientFrame DEF Placed
  <2> USE DEF TypeOK, TicketsInv, ClientStep, tickets, countVars, Placed
  <2>1. CASE Enter(c)
    <3>1. D' = D \cup {c} /\ c \notin D /\ A' = A /\ G' = G
      BY <2>0, <2>1 DEF Enter
    <3>2. Cardinality(D') = Cardinality(D) + 1
      BY <1>0, <3>1, CountUp
    <3>3. next_order_id' = next_order_id + 1 /\ UNCHANGED <<accepted, denied>>
      BY <2>1 DEF Enter
    <3>4. next_order_id' = 1 + Cardinality(D')
      BY <1>1, <3>2, <3>3 DEF CountersInv
    <3>5. QED
      BY <3>1, <3>3, <3>4 DEF CountersInv
  <2>2. CASE GiveUp(c)
    <3>1. D' = D /\ A' = A /\ G' = G \cup {c} /\ c \notin G
      BY <2>0, <2>2 DEF GiveUp
    <3>2. Cardinality(G') = Cardinality(G) + 1
      BY <1>0, <3>1, CountUp
    <3>3. denied' = denied + 1 /\ UNCHANGED <<next_order_id, accepted>>
      BY <2>2 DEF GiveUp
    <3>4. QED
      BY <1>1, <3>1, <3>2, <3>3 DEF CountersInv
  <2>3. CASE Subscribe(c) \/ PushOrder(c)
    <3>1. D' = D /\ A' = A /\ G' = G
      BY <2>0, <2>3 DEF Subscribe, PushOrder
    <3>2. QED
      BY <2>3, <3>1 DEF Subscribe, PushOrder, CountersInv
  <2>4. CASE CountAccepted(c)
    <3>1. D' = D /\ A' = A \cup {c} /\ c \notin A /\ G' = G
      BY <2>0, <2>4 DEF CountAccepted
    <3>2. Cardinality(A') = Cardinality(A) + 1
      BY <1>0, <3>1, CountUp
    <3>3. accepted' = accepted + 1 /\ UNCHANGED <<next_order_id, denied>>
      BY <2>4 DEF CountAccepted
    <3>4. QED
      BY <1>1, <3>1, <3>2, <3>3 DEF CountersInv
  <2>5. CASE Receive(c)
    <3>1. D' = D /\ A' = A /\ G' = G
      BY <2>0, <2>5 DEF Receive
    <3>2. QED
      BY <2>5, <3>1 DEF Receive, CountersInv
  <2>6. QED
    BY <1>3, <2>1, <2>2, <2>3, <2>4, <2>5 DEF ClientNext
<1>4. CASE SpawnClients
  <2>1. cpc' = [c \in Client |-> "away"] /\ mpc = "opening" /\
        UNCHANGED <<order_id, next_order_id, accepted, denied>>
    BY <1>4 DEF SpawnClients, MainStep, tickets, countVars
  <2>2. D' = D /\ A' = A /\ G' = G
    BY <2>1 DEF MainInv, Placed
  <2>3. QED
    BY <2>1, <2>2 DEF CountersInv
<1>5. ASSUME NEW k \in Cook, CookNext(k) PROVE CountersInv'
  BY <1>2, <1>5, CookFrame DEF countVars
<1>6. CASE (MainNext /\ ~ SpawnClients) \/ Close \/ UNCHANGED vars
  BY <1>2, <1>6 DEF MainNext, MainStep, MainArrives, MainStarts, JoinClients, JoinTimer,
     JoinCooks, tickets, countVars, Close, vars
<1>7. QED
  BY <1>3, <1>4, <1>5, <1>6 DEF Next

(***************************************************************************)
(* The orders                                                              *)
(***************************************************************************)

\* The members of InLog(c), before and after a step.
LEMMA LogMembers ==
  ASSUME NEW c \in Client
  PROVE  /\ \A k, i : <<k, i>> \in InLog(c) <=>
              k \in Cook /\ i \in DOMAIN completed[k] /\ completed[k][i].client = c
         /\ \A e \in InLog(c) : \E k, i : e = <<k, i>>
         /\ \A k, i : <<k, i>> \in InLog(c)' <=>
              k \in Cook /\ i \in DOMAIN completed'[k] /\ completed'[k][i].client = c
         /\ \A e \in InLog(c)' : \E k, i : e = <<k, i>>
  BY DEF InLog

\* What a cook appends to its log is in the log of that order's client and no other.
LEMMA LogGrows ==
  ASSUME TypeOK, NEW k \in Cook, NEW c \in Client, current[k] \in Order,
         completed' = [completed EXCEPT ![k] = Append(@, current[k])]
  PROVE  InLog(c)' = IF current[k].client = c
                     THEN InLog(c) \cup {<<k, Len(completed[k]) + 1>>}
                     ELSE InLog(c)
<1> DEFINE s == completed[k]
           new == <<k, Len(s) + 1>>
<1>1. s \in Seq(Order) /\ completed'[k] = Append(s, current[k])
  BY DEF TypeOK
<1>2. \A j \in Cook \ {k} : completed'[j] = completed[j]
  BY DEF TypeOK
<1>3. /\ Len(s) \in Nat /\ DOMAIN s = 1 .. Len(s) /\ DOMAIN completed'[k] = 1 .. Len(s) + 1
      /\ \A i \in 1 .. Len(s) : completed'[k][i] = s[i]
      /\ completed'[k][Len(s) + 1] = current[k]
  BY <1>1, AppendProperties, LenProperties
<1>4. \A i : i \in DOMAIN completed'[k] /\ completed'[k][i].client = c <=>
             \/ i \in DOMAIN s /\ s[i].client = c
             \/ i = Len(s) + 1 /\ current[k].client = c
  BY <1>3
<1>5. ASSUME NEW j, NEW i
      PROVE  <<j, i>> \in InLog(c)' <=>
               <<j, i>> \in InLog(c) \/ (j = k /\ i = Len(s) + 1 /\ current[k].client = c)
  <2>1. CASE j = k
    BY <1>4, <2>1, LogMembers
  <2>2. CASE j # k
    BY <1>2, <2>2, LogMembers
  <2>3. QED
    BY <2>1, <2>2
<1>6. ASSUME NEW e
      PROVE  e \in InLog(c)' <=> e \in InLog(c) \/ (e = new /\ current[k].client = c)
  <2>1. CASE \E j, i : e = <<j, i>>
    BY <1>5, <2>1
  <2>2. CASE ~ \E j, i : e = <<j, i>>
    BY <2>2, LogMembers
  <2>3. QED
    BY <2>1, <2>2
<1>7. CASE current[k].client = c
  BY <1>6, <1>7
<1>8. CASE current[k].client # c
  BY <1>6, <1>8
<1>9. QED
  BY <1>7, <1>8

\* A client's order is in one place: the part of OrdersInv that concerns client c.
OnePlace(c) ==
  /\ AtMostOne(InQueue(c)) /\ AtMostOne(InHand(c)) /\ AtMostOne(InLog(c))
  /\ InQueue(c) = {} \/ InHand(c) = {}
  /\ InQueue(c) = {} \/ InLog(c) = {}
  /\ InHand(c) = {} \/ InLog(c) = {}
  /\ Placed(c) <=> InQueue(c) \cup InHand(c) \cup InLog(c) # {}

\* The orders carry their clients' numbers.
Numbered ==
  /\ \A i \in DOMAIN orders_in : orders_in[i].id = order_id[orders_in[i].client]
  /\ \A k \in Cook : current[k] # Null => current[k].id = order_id[current[k].client]

\* A step that moves no order and places none keeps each order in its place.
LEMMA OrdersFrame ==
  ASSUME RestaurantInv,
         UNCHANGED <<orders_in, current, completed>>,
         \A c \in Client : Placed(c)' <=> Placed(c),
         \A c \in Client : Placed(c) => order_id'[c] = order_id[c]
  PROVE  OrdersInv'
<1> USE DEF RestaurantInv
<1>1. \A c \in Client : InQueue(c)' = InQueue(c) /\ InHand(c)' = InHand(c) /\ InLog(c)' = InLog(c)
  BY DEF InQueue, InHand, InLog
<1>2. \A i \in DOMAIN orders_in : orders_in[i].client \in Client /\ Placed(orders_in[i].client)
  <2>1. TAKE i \in DOMAIN orders_in
  <2>2. orders_in[i] \in Order
    BY ElementOfSeq, LenProperties DEF TypeOK
  <2>3. orders_in[i].client \in Client /\ i \in InQueue(orders_in[i].client)
    BY <2>2 DEF Order, InQueue
  <2>4. QED
    BY <2>3 DEF OrdersInv
<1>3. \A k \in Cook : current[k] # Null => current[k].client \in Client /\ Placed(current[k].client)
  <2>1. SUFFICES ASSUME NEW k \in Cook, current[k] # Null
                 PROVE  current[k].client \in Client /\ Placed(current[k].client)
    OBVIOUS
  <2>2. current[k].client \in Client /\ k \in InHand(current[k].client)
    BY <2>1 DEF TypeOK, Order, InHand
  <2>3. QED
    BY <2>2 DEF OrdersInv
<1>4. (\A i \in DOMAIN orders_in : orders_in[i].id = order_id[orders_in[i].client])'
  BY <1>2 DEF OrdersInv
<1>5. (\A k \in Cook : current[k] # Null => current[k].id = order_id[current[k].client])'
  BY <1>3 DEF OrdersInv
<1>6. QED
  BY <1>1, <1>4, <1>5 DEF OrdersInv, AtMostOne

\* A client's push puts its order into the queue, where it was nowhere before.
LEMMA PushKeepsOrders ==
  ASSUME RestaurantInv, NEW c \in Client, PushOrder(c)
  PROVE  OrdersInv'
<1> USE DEF RestaurantInv
<1> DEFINE o == [id |-> order_id[c], client |-> c]
           n == Len(orders_in) + 1
<1>1. /\ orders_in' = Append(orders_in, o) /\ cpc[c] = "pushing"
      /\ cpc' = [cpc EXCEPT ![c] = "counting"]
      /\ UNCHANGED <<order_id, current, completed>>
  BY DEF PushOrder, ClientStep, tickets, cookVars, jobs
<1>2. order_id[c] \in 1 .. NClients
  BY <1>1, Counts DEF TicketsInv, TypeOK
<1>3. o \in Order /\ orders_in \in Seq(Order)
  BY <1>2 DEF Order, TypeOK
<1>4. /\ n \in Nat /\ DOMAIN orders_in = 1 .. n - 1 /\ DOMAIN orders_in' = 1 .. n
      /\ \A i \in 1 .. n - 1 : orders_in'[i] = orders_in[i]
      /\ orders_in'[n] = o
  BY <1>1, <1>3, AppendProperties, LenProperties
<1>5. ASSUME NEW d \in Client PROVE OnePlace(d)'
  <2>1. InHand(d)' = InHand(d) /\ InLog(d)' = InLog(d)
    BY <1>1 DEF InHand, InLog
  <2>2. OnePlace(d)
    BY DEF OrdersInv, OnePlace
  <2>3. CASE d = c
    <3>1. ~ Placed(d)
      BY <1>1, <2>3 DEF Placed
    <3>2. InQueue(d) = {} /\ InHand(d) = {} /\ InLog(d) = {}
      BY <2>2, <3>1 DEF OnePlace
    <3>3. InQueue(d)' = {n}
      BY <1>4, <2>3, <3>2 DEF InQueue
    <3>4. Placed(d)'
      BY <1>1, <2>3 DEF Placed, TypeOK
    <3>5. QED
      BY <2>1, <3>2, <3>3, <3>4 DEF OnePlace, AtMostOne
  <2>4. CASE d # c
    <3>1. InQueue(d)' = InQueue(d)
      BY <1>4, <2>4 DEF InQueue
    <3>2. Placed(d)' <=> Placed(d)
      BY <1>1, <2>4 DEF Placed, TypeOK
    <3>3. QED
      BY <2>1, <2>2, <3>1, <3>2 DEF OnePlace, AtMostOne
  <2>5. QED
    BY <2>3, <2>4
<1>6. Numbered'
  BY <1>1, <1>4 DEF OrdersInv, Numbered
<1>7. QED
  BY <1>5, <1>6 DEF OrdersInv, OnePlace, Numbered

\* A cook that takes the head of the queue moves that order into its hands.
LEMMA TakeKeepsOrders ==
  ASSUME RestaurantInv, NEW k \in Cook, TakeOrder(k)
  PROVE  OrdersInv'
<1> USE DEF RestaurantInv
<1> DEFINE o == Head(orders_in)
           n == Len(orders_in)
<1>1. /\ orders_in # <<>> /\ orders_in' = Tail(orders_in)
      /\ current' = [current EXCEPT ![k] = o] /\ kpc[k] = "popping"
      /\ UNCHANGED <<cpc, order_id, completed>>
  BY DEF TakeOrder, CookStep
<1>2. orders_in \in Seq(Order) /\ current[k] = Null
  BY <1>1 DEF TypeOK, JobsInv
<1>3. /\ n \in Nat \ {0} /\ DOMAIN orders_in = 1 .. n /\ DOMAIN orders_in' = 1 .. n - 1
      /\ \A i \in 1 .. n - 1 : orders_in'[i] = orders_in[i + 1]
      /\ o = orders_in[1] /\ o \in Order
  BY <1>1, <1>2, HeadTailProperties, LenProperties, EmptySeq
<1>4. current'[k] = o /\ o # Null /\ \A j \in Cook \ {k} : current'[j] = current[j]
  BY <1>1, <1>3, NoOrderAssumption DEF TypeOK
<1>5. ASSUME NEW c \in Client PROVE OnePlace(c)'
  <2>1. InLog(c)' = InLog(c) /\ (Placed(c)' <=> Placed(c))
    BY <1>1 DEF InLog, Placed
  <2>2. OnePlace(c)
    BY DEF OrdersInv, OnePlace
  <2>3. \A i : i \in InQueue(c)' <=> i \in 1 .. n - 1 /\ i + 1 \in InQueue(c)
    BY <1>3 DEF InQueue
  <2>4. InQueue(c) \subseteq 1 .. n
    BY <1>3 DEF InQueue
  <2>5. CASE o.client = c
    <3>1. 1 \in InQueue(c)
      BY <1>3, <2>5 DEF InQueue
    <3>2. InQueue(c) = {1} /\ InHand(c) = {} /\ InLog(c) = {} /\ Placed(c)
      BY <2>2, <3>1 DEF OnePlace, AtMostOne
    <3>3. InQueue(c)' = {}
      BY <1>3, <2>3, <3>2
    <3>4. InHand(c)' = {k}
      BY <1>2, <1>4, <2>5, <3>2 DEF InHand
    <3>5. QED
      BY <2>1, <3>2, <3>3, <3>4 DEF OnePlace, AtMostOne
  <2>6. CASE o.client # c
    <3>1. InHand(c)' = InHand(c)
      BY <1>2, <1>4, <2>6 DEF InHand
    <3>2. 1 \notin InQueue(c)
      BY <1>3, <2>6 DEF InQueue
    <3>3. InQueue(c)' = {} <=> InQueue(c) = {}
      <4>1. ASSUME NEW i \in InQueue(c) PROVE i - 1 \in InQueue(c)'
        BY <1>3, <2>3, <2>4, <3>2
      <4>2. QED
        BY <4>1, <2>3
    <3>4. AtMostOne(InQueue(c)')
      <4>1. ASSUME NEW i \in InQueue(c)', NEW j \in InQueue(c)' PROVE i = j
        <5>1. i + 1 \in InQueue(c) /\ j + 1 \in InQueue(c) /\ i \in Nat /\ j \in Nat
          BY <1>3, <2>3
        <5>2. i + 1 = j + 1
          BY <2>2, <5>1 DEF OnePlace, AtMostOne
        <5>3. QED
          BY <5>1, <5>2
      <4>2. QED
        BY <4>1 DEF AtMostOne
    <3>5. QED
      BY <2>1, <2>2, <3>1, <3>3, <3>4 DEF OnePlace, AtMostOne
  <2>7. QED
    BY <2>5, <2>6
<1>6. Numbered'
  <2>1. \A i \in 1 .. n : orders_in[i].id = order_id[orders_in[i].client]
    BY <1>3 DEF OrdersInv
  <2>2. \A i \in 1 .. n - 1 : orders_in'[i].id = order_id[orders_in'[i].client]
    BY <1>3, <2>1
  <2>3. o.id = order_id[o.client]
    BY <1>3, <2>1
  <2>4. QED
    BY <1>1, <1>3, <1>4, <2>2, <2>3 DEF OrdersInv, Numbered
<1>7. QED
  BY <1>5, <1>6 DEF OrdersInv, OnePlace, Numbered

\* A cook that logs an order moves it out of its hands.
LEMMA LogKeepsOrders ==
  ASSUME RestaurantInv, NEW k \in Cook, LogOrder(k)
  PROVE  OrdersInv'
<1> USE DEF RestaurantInv
<1>1. /\ completed' = [completed EXCEPT ![k] = Append(@, current[k])]
      /\ current' = [current EXCEPT ![k] = Null] /\ kpc[k] = "logging"
      /\ UNCHANGED <<cpc, order_id, orders_in>>
  BY DEF LogOrder, CookStep, board
<1>2. current[k] \in Order
  BY <1>1 DEF TypeOK, JobsInv
<1>3. current'[k] = Null /\ \A j \in Cook \ {k} : current'[j] = current[j]
  BY <1>1 DEF TypeOK
<1>4. ASSUME NEW c \in Client PROVE OnePlace(c)'
  <2>1. InQueue(c)' = InQueue(c) /\ (Placed(c)' <=> Placed(c))
    BY <1>1 DEF InQueue, Placed
  <2>2. OnePlace(c)
    BY DEF OrdersInv, OnePlace
  <2>3. InHand(c)' = InHand(c) \ {k}
    BY <1>3 DEF InHand
  <2>4. CASE current[k].client = c
    <3>1. k \in InHand(c)
      BY <1>2, <2>4, NoOrderAssumption DEF InHand
    <3>2. InHand(c) = {k} /\ InLog(c) = {} /\ InQueue(c) = {} /\ Placed(c)
      BY <2>2, <3>1 DEF OnePlace, AtMostOne
    <3>3. InLog(c)' = {<<k, Len(completed[k]) + 1>>}
      BY <1>1, <1>2, <2>4, <3>2, LogGrows
    <3>4. QED
      BY <2>1, <2>3, <3>2, <3>3 DEF OnePlace, AtMostOne
  <2>5. CASE current[k].client # c
    <3>1. InHand(c)' = InHand(c)
      BY <2>3, <2>5 DEF InHand
    <3>2. InLog(c)' = InLog(c)
      BY <1>1, <1>2, <2>5, LogGrows
    <3>3. QED
      BY <2>1, <2>2, <3>1, <3>2 DEF OnePlace, AtMostOne
  <2>6. QED
    BY <2>4, <2>5
<1>5. Numbered'
  BY <1>1, <1>3 DEF OrdersInv, Numbered
<1>6. QED
  BY <1>4, <1>5 DEF OrdersInv, OnePlace, Numbered

\* Every step keeps each order in its place.
LEMMA OrdersStep ==
  ASSUME RestaurantInv, [Next]_vars
  PROVE  OrdersInv'
<1> USE DEF RestaurantInv
<1>1. ASSUME NEW k \in Cook, CookNext(k) PROVE OrdersInv'
  <2>1. CASE TakeOrder(k) \/ LogOrder(k)
    BY <2>1, TakeKeepsOrders, LogKeepsOrders
  <2>2. CASE ~ TakeOrder(k) /\ ~ LogOrder(k)
    <3>1. UNCHANGED <<orders_in, current, completed>>
      BY <1>1, <2>2 DEF CookNext, CookArrives, CookStarts, CheckOpen, CheckQueue, AcquireStove,
         AcquireOven, ReleaseStove, ReleaseOven, NotifyClient, SignalClient, board, jobs
    <3>2. UNCHANGED <<cpc, order_id>>
      BY <1>1, CookFrame
    <3>3. QED
      BY <3>1, <3>2, OrdersFrame DEF Placed
  <2>3. QED
    BY <2>1, <2>2
<1>2. ASSUME NEW c \in Client, ClientNext(c) PROVE OrdersInv'
  <2>1. CASE PushOrder(c)
    BY <2>1, PushKeepsOrders
  <2>2. CASE ~ PushOrder(c)
    <3>1. UNCHANGED <<orders_in, current, completed>>
      BY <1>2, <2>2, ClientFrame DEF ClientNext, Enter, GiveUp, Subscribe, CountAccepted, Receive,
                                     board, cookVars, jobs
    <3>2. \A d \in Client \ {c} : (Placed(d)' <=> Placed(d)) /\ order_id'[d] = order_id[d]
      BY <1>2, ClientFrame DEF Placed
    <3>3. Placed(c)' <=> Placed(c)
      BY <1>2, <2>2 DEF ClientNext, ClientStep, Enter, GiveUp, Subscribe, CountAccepted, Receive,
                        tickets, Placed, TypeOK, TicketsInv
    <3>4. Placed(c) => order_id'[c] = order_id[c]
      BY <1>2, ClientFrame DEF Placed
    <3>5. QED
      BY <3>1, <3>2, <3>3, <3>4, OrdersFrame
  <2>3. QED
    BY <2>1, <2>2
<1>3. CASE SpawnClients
  <2>1. UNCHANGED <<orders_in, current, completed, order_id>> /\ mpc = "opening"
        /\ cpc' = [c \in Client |-> "away"]
    BY <1>3 DEF SpawnClients, MainStep, board, cookVars, jobs, tickets
  <2>2. \A c \in Client : ~ Placed(c) /\ ~ Placed(c)'
    BY <2>1 DEF MainInv, Placed
  <2>3. QED
    BY <2>1, <2>2, OrdersFrame
<1>4. CASE (MainNext /\ ~ SpawnClients) \/ Close \/ UNCHANGED vars
  <2>1. UNCHANGED <<orders_in, current, completed, cpc, order_id>>
    BY <1>4 DEF MainNext, MainStep, MainArrives, MainStarts, JoinClients, JoinTimer, JoinCooks,
                board, cookVars, jobs, tickets, Close, vars
  <2>2. QED
    BY <2>1, OrdersFrame DEF Placed
<1>5. QED
  BY <1>1, <1>2, <1>3, <1>4 DEF Next

\* The one client that a notification reaches is the client of the order in hand.
LEMMA NotifiesItsClient ==
  ASSUME RestaurantInv, NEW k \in Cook, current[k] # Null, NEW c \in Client
  PROVE  <<current[k].id, c>> \in subscriptions <=> c = current[k].client
<1> USE DEF RestaurantInv
<1> DEFINE d == current[k].client
<1>1. current[k] \in Order
  BY DEF TypeOK
<1>2. d \in Client /\ current[k].id \in 1 .. NClients
  BY <1>1 DEF Order
<1>3. k \in InHand(d)
  BY DEF InHand
<1>4. Placed(d)
  BY <1>2, <1>3 DEF OrdersInv
<1>5. current[k].id = order_id[d]
  BY DEF OrdersInv
<1>6. <<current[k].id, c>> \in subscriptions <=>
        current[k].id = order_id[c] /\ cpc[c] # "subscribing"
  BY <1>2 DEF TicketsInv
<1>7. order_id[d] # 0
  BY <1>2, <1>5, Counts
<1>8. order_id[c] = order_id[d] => c = d
  BY <1>2, <1>7 DEF TicketsInv
<1>9. QED
  BY <1>4, <1>5, <1>6, <1>8 DEF Placed

\* Every step keeps order_received in step with the orders that are ready.
LEMMA NotifiedStep ==
  ASSUME RestaurantInv, [Next]_vars
  PROVE  NotifiedWhenReady'
<1> USE DEF RestaurantInv
<1> DEFINE Told(c) == \E k \in InHand(c) : kpc[k] \in {"signalling", "logging"}
           Ready(c) == InLog(c) # {} \/ Told(c)
<1>0. \A c \in Client : received[c] <=> Ready(c)
  BY DEF NotifiedWhenReady
<1>1. CASE UNCHANGED <<current, completed, kpc, received>>
  BY <1>1 DEF NotifiedWhenReady, InLog, InHand
<1>2. ASSUME NEW k \in Cook, CookNext(k) PROVE NotifiedWhenReady'
  <2>0. /\ kpc' = [kpc EXCEPT ![k] = kpc'[k]]
        /\ \A j \in Cook \ {k} : kpc'[j] = kpc[j] /\ current'[j] = current[j]
    BY <1>2, CookFrame
  <2>1. CASE TakeOrder(k)
    <3>1. /\ kpc[k] = "popping" /\ kpc'[k] \notin {"signalling", "logging"}
          /\ UNCHANGED <<completed, received>>
      BY <2>1 DEF TakeOrder, CookStep, AfterTake, TypeOK
    <3>2. \A c \in Client : Told(c)' <=> Told(c)
      BY <2>0, <3>1 DEF InHand
    <3>3. \A c \in Client : InLog(c)' = InLog(c)
      BY <3>1 DEF InLog
    <3>4. QED
      BY <1>0, <3>1, <3>2, <3>3 DEF NotifiedWhenReady
  <2>2. CASE NotifyClient(k)
    <3>1. /\ kpc[k] = "notifying" /\ kpc'[k] = "signalling" /\ UNCHANGED <<completed, current>>
          /\ received' = [c \in Client |-> received[c] \/ <<current[k].id, c>> \in subscriptions]
      BY <2>2 DEF NotifyClient, CookStep, TypeOK, jobs
    <3>2. current[k] # Null
      BY <3>1 DEF JobsInv
    <3>3. ASSUME NEW c \in Client PROVE received'[c] <=> received[c] \/ c = current[k].client
      BY <3>1, <3>2, NotifiesItsClient
    <3>4. ASSUME NEW c \in Client PROVE Told(c)' <=> Told(c) \/ c = current[k].client
      BY <2>0, <3>1, <3>2 DEF InHand
    <3>5. \A c \in Client : InLog(c)' = InLog(c)
      BY <3>1 DEF InLog
    <3>6. QED
      BY <1>0, <3>3, <3>4, <3>5 DEF NotifiedWhenReady
  <2>3. CASE SignalClient(k)
    <3>1. /\ kpc[k] = "signalling" /\ kpc'[k] = "logging"
          /\ UNCHANGED <<completed, current, received>>
      BY <2>3 DEF SignalClient, CookStep, TypeOK, jobs
    <3>2. \A c \in Client : Told(c)' <=> Told(c)
      BY <2>0, <3>1 DEF InHand
    <3>3. \A c \in Client : InLog(c)' = InLog(c)
      BY <3>1 DEF InLog
    <3>4. QED
      BY <1>0, <3>1, <3>2, <3>3 DEF NotifiedWhenReady
  <2>4. CASE LogOrder(k)
    <3>1. /\ kpc[k] = "logging" /\ kpc'[k] = "loop" /\ UNCHANGED received
          /\ completed' = [completed EXCEPT ![k] = Append(@, current[k])] /\ current'[k] = Null
      BY <2>4 DEF LogOrder, CookStep, TypeOK
    <3>2. current[k] \in Order /\ current[k] # Null
      BY <3>1 DEF JobsInv, TypeOK
    <3>3. ASSUME NEW c \in Client PROVE received'[c] <=> Ready(c)'
      <4>1. CASE c = current[k].client
        <5>1. k \in InHand(c) /\ kpc[k] \in {"signalling", "logging"}
          BY <3>1, <3>2, <4>1 DEF InHand
        <5>2. received[c]
          BY <1>0, <5>1
        <5>3. InLog(c)' # {}
          BY <3>1, <3>2, <4>1, LogGrows
        <5>4. QED
          BY <3>1, <5>2, <5>3
      <4>2. CASE c # current[k].client
        <5>1. InLog(c)' = InLog(c)
          BY <3>1, <3>2, <4>2, LogGrows
        <5>2. Told(c)' <=> Told(c)
          BY <2>0, <3>1, <3>2, <4>2 DEF InHand
        <5>3. QED
          BY <1>0, <3>1, <5>1, <5>2
      <4>3. QED
        BY <4>1, <4>2
    <3>4. QED
      BY <3>3 DEF NotifiedWhenReady
  <2>5. CASE ~ TakeOrder(k) /\ ~ NotifyClient(k) /\ ~ SignalClient(k) /\ ~ LogOrder(k)
    <3>1. /\ UNCHANGED <<completed, current, received>>
          /\ kpc[k] \notin {"signalling", "logging"} /\ kpc'[k] \notin {"signalling", "logging"}
      BY <1>2, <2>5 DEF CookNext, CookArrives, CookStarts, CheckOpen, CheckQueue, AcquireStove,
         AcquireOven, ReleaseStove, ReleaseOven, CookStep, AfterTake, TypeOK, jobs
    <3>2. \A c \in Client : Told(c)' <=> Told(c)
      BY <2>0, <3>1 DEF InHand
    <3>3. \A c \in Client : InLog(c)' = InLog(c)
      BY <3>1 DEF InLog
    <3>4. QED
      BY <1>0, <3>1, <3>2, <3>3 DEF NotifiedWhenReady
  <2>6. QED
    BY <2>1, <2>2, <2>3, <2>4, <2>5
<1>3. ASSUME NEW c \in Client, ClientNext(c) PROVE NotifiedWhenReady'
  BY <1>1, <1>3, ClientFrame DEF cookVars, jobs
<1>4. CASE MainNext \/ Close \/ UNCHANGED vars
  BY <1>1, <1>4, MainFrame DEF Close, vars, cookVars, jobs, tickets
<1>5. QED
  BY <1>2, <1>3, <1>4 DEF Next

(***************************************************************************)
(* The inductive invariant                                                 *)
(***************************************************************************)

\* Every step keeps every variable in its range.
LEMMA TypeStep ==
  ASSUME RestaurantInv, [Next]_vars, EquipmentConserved', CountersInv'
  PROVE  TypeOK'
<1> USE DEF RestaurantInv
<1>0. /\ NCooks' = NCooks /\ NClients' = NClients /\ NOvens' = NOvens /\ NStoves' = NStoves
      /\ Order' = Order
  BY DEF NCooks, NClients, NOvens, NStoves, Order
<1>1. \A T \in SUBSET Client : Cardinality(T) \in 0 .. NClients
  <2>1. TAKE T \in SUBSET Client
  <2>2. Cardinality(T) \in Nat /\ Cardinality(T) <= Cardinality(Client)
    BY CountOf, ArgsAssumption
  <2>3. QED
    BY <2>2, Counts DEF NClients
<1>2. next_order_id' \in 1 .. NClients + 1 /\ accepted' \in 0 .. NClients /\ denied' \in 0 .. NClients
  <2> DEFINE D == {c \in Client : order_id[c] # 0}
             A == {c \in Client : Placed(c) /\ cpc[c] # "counting"}
             G == {c \in Client : cpc[c] = "gone" /\ order_id[c] = 0}
  <2>1. Cardinality(D') \in 0 .. NClients /\ Cardinality(A') \in 0 .. NClients
        /\ Cardinality(G') \in 0 .. NClients
    BY <1>1
  <2>2. next_order_id' = 1 + Cardinality(D')
    BY DEF CountersInv
  <2>3. accepted' = Cardinality(A') /\ denied' = Cardinality(G')
    BY DEF CountersInv
  <2> HIDE DEF D, A, G
  <2>4. QED
    BY <2>1, <2>2, <2>3, Counts
<1>3. stoves' \in 0 .. NStoves /\ ovens' \in 0 .. NOvens
  <2>1. stoves' \in Nat /\ ovens' \in Nat
    <3>1. stoves \in Nat /\ ovens \in Nat
      BY Counts DEF TypeOK
    <3>2. ASSUME NEW k \in Cook, CookNext(k) PROVE stoves' \in Nat /\ ovens' \in Nat
      BY <3>1, <3>2 DEF CookNext, CookArrives, CookStarts, CheckOpen, CheckQueue, TakeOrder,
         AcquireStove, AcquireOven, ReleaseStove, ReleaseOven, NotifyClient, SignalClient,
         LogOrder, equipment
    <3>3. QED
      BY <3>1, <3>2, ClientFrame, MainFrame DEF Next, Close, vars, equipment
  <2> DEFINE S == {k \in Cook : HoldsStove(k)}
             O == {k \in Cook : HoldsOven(k)}
  <2>2. Cardinality(S') \in Nat /\ Cardinality(O') \in Nat
    BY CountOf, ArgsAssumption
  <2>3. stoves' + Cardinality(S') = NStoves /\ ovens' + Cardinality(O') = NOvens
    BY <1>0 DEF EquipmentConserved
  <2> HIDE DEF S, O
  <2>4. QED
    BY <2>1, <2>2, <2>3, Counts
<1>4. CASE UNCHANGED vars
  <2> USE DEF vars, board, equipment, barrierVars, jobs, cookVars, tickets, countVars
  <2>1. QED
    BY <1>0, <1>4 DEF TypeOK
<1>5. ASSUME NEW k \in Cook, CookNext(k) PROVE TypeOK'
  <2> USE DEF TypeOK, CookStep, board, equipment, barrierVars, jobs, countVars, AfterTake
  <2>0. is_open' \in BOOLEAN /\ mpc' = mpc /\ cpc' = cpc /\ order_id' = order_id /\ subscriptions' = subscriptions
    BY <1>5, CookFrame
  <2>1. CASE CookArrives(k)
    <3>1. generation = 0
      BY <2>1 DEF BarrierInv, CookArrives
    <3>2. arrivals' \in 1 .. NCooks + 1 /\ generation' \in 0 .. 1
      BY <2>1, <3>1, Counts DEF CookArrives, Arrive
    <3>3. QED
      BY <1>0, <1>2, <1>3, <2>0, <2>1, <3>2 DEF CookArrives
  <2>2. CASE CookStarts(k) \/ CheckOpen(k) \/ CheckQueue(k)
    BY <1>0, <1>2, <1>3, <2>0, <2>2 DEF CookStarts, CheckOpen, CheckQueue
  <2>3. CASE TakeOrder(k)
    <3>1. Head(orders_in) \in Order /\ Tail(orders_in) \in Seq(Order)
      BY <2>3, HeadTailProperties DEF TakeOrder
    <3>2. QED
      BY <1>0, <1>2, <1>3, <2>0, <2>3, <3>1 DEF TakeOrder
  <2>4. CASE AcquireStove(k) \/ AcquireOven(k)
    BY <1>0, <1>2, <1>3, <2>0, <2>4 DEF AcquireStove, AcquireOven
  <2>5. CASE ReleaseStove(k) \/ ReleaseOven(k)
    BY <1>0, <1>2, <1>3, <2>0, <2>5 DEF ReleaseStove, ReleaseOven
  <2>6. CASE NotifyClient(k) \/ SignalClient(k)
    BY <1>0, <1>2, <1>3, <2>0, <2>6 DEF NotifyClient, SignalClient
  <2>7. CASE LogOrder(k)
    <3>1. current[k] \in Order
      BY <2>7 DEF LogOrder, JobsInv
    <3>2. Append(completed[k], current[k]) \in Seq(Order)
      BY <3>1, AppendProperties
    <3>3. QED
      BY <1>0, <1>2, <1>3, <2>0, <2>7, <3>2 DEF LogOrder
  <2>8. QED
    BY <1>5, <2>1, <2>2, <2>3, <2>4, <2>5, <2>6, <2>7 DEF CookNext
<1>6. ASSUME NEW c \in Client, ClientNext(c) PROVE TypeOK'
  <2> USE DEF TypeOK, ClientStep, board, equipment, barrierVars, jobs, cookVars, countVars, tickets
  <2>1. CASE Enter(c)
    <3>1. order_id'[c] \in 0 .. NClients
      BY <1>2, <2>1, Counts DEF Enter
    <3>2. order_id' \in [Client -> 0 .. NClients]
      BY <2>1, <3>1 DEF Enter
    <3>3. QED
      BY <1>0, <1>2, <1>3, <2>1, <3>2 DEF Enter
  <2>2. CASE Subscribe(c)
    <3>1. order_id[c] \in 1 .. NClients
      BY <2>2, Counts DEF Subscribe, TicketsInv
    <3>2. QED
      BY <1>0, <1>2, <1>3, <2>2, <3>1 DEF Subscribe
  <2>3. CASE PushOrder(c)
    <3>1. order_id[c] \in 1 .. NClients
      BY <2>3, Counts DEF PushOrder, TicketsInv
    <3>2. [id |-> order_id[c], client |-> c] \in Order
      BY <3>1 DEF Order
    <3>3. orders_in' \in Seq(Order)
      BY <2>3, <3>2, AppendProperties DEF PushOrder
    <3>4. QED
      BY <1>0, <1>2, <1>3, <2>3, <3>3 DEF PushOrder
  <2>4. CASE GiveUp(c) \/ CountAccepted(c) \/ Receive(c)
    BY <1>0, <1>2, <1>3, <2>4 DEF GiveUp, CountAccepted, Receive
  <2>5. QED
    BY <1>6, <2>1, <2>2, <2>3, <2>4 DEF ClientNext
<1>7. CASE Close
  <2> USE DEF board, equipment, barrierVars, jobs, cookVars, tickets, countVars
  <2>1. QED
    BY <1>0, <1>7 DEF Close, TypeOK
<1>8. CASE MainNext
  <2> USE DEF MainStep, board, equipment, jobs, cookVars, tickets, countVars
  <2>1. CASE MainArrives
    <3>1. generation = 0
      BY <2>1 DEF BarrierInv, MainArrives
    <3>2. arrivals' \in 1 .. NCooks + 1 /\ generation' \in 0 .. 1
      BY <2>1, <3>1, Counts DEF MainArrives, Arrive, TypeOK
    <3>3. QED
      BY <1>0, <2>1, <3>2 DEF MainArrives, TypeOK
  <2>2. CASE MainStarts \/ SpawnClients \/ JoinClients \/ JoinTimer \/ JoinCooks
    BY <1>0, <2>2 DEF MainStarts, SpawnClients, JoinClients, JoinTimer, JoinCooks, TypeOK
  <2>3. QED
    BY <1>8, <2>1, <2>2 DEF MainNext
<1>9. QED
  BY <1>4, <1>5, <1>6, <1>7, <1>8 DEF Next

\* The simulation starts in the invariant.
LEMMA InvInit == Init => RestaurantInv
<1> SUFFICES ASSUME Init PROVE RestaurantInv
  OBVIOUS
<1> USE DEF Init
<1>1. TypeOK
  BY Counts DEF TypeOK
<1>2. \A c \in Client : InQueue(c) = {} /\ InHand(c) = {} /\ InLog(c) = {} /\ ~ Placed(c)
  BY DEF InQueue, InHand, InLog, Placed
<1>3. BarrierInv
  <2>1. {k \in Cook : kpc[k] = "arriving"} = Cook
    OBVIOUS
  <2>2. QED
    BY <2>1 DEF BarrierInv, NCooks
<1>4. EquipmentConserved
  <2>1. {k \in Cook : HoldsStove(k)} = {} /\ {k \in Cook : HoldsOven(k)} = {}
    BY DEF HoldsStove, HoldsOven
  <2>2. ovens = NOvens /\ stoves = NStoves /\ ovens \in Nat /\ stoves \in Nat
    BY Counts
  <2> HIDE DEF Init
  <2>3. QED
    BY <2>1, <2>2, FS_EmptySet DEF EquipmentConserved
<1>5. CountersInv
  <2>1. /\ {c \in Client : order_id[c] # 0} = {}
        /\ {c \in Client : Placed(c) /\ cpc[c] # "counting"} = {}
        /\ {c \in Client : cpc[c] = "gone" /\ order_id[c] = 0} = {}
    BY DEF Placed
  <2>2. next_order_id = 1 /\ accepted = 0 /\ denied = 0
    OBVIOUS
  <2> HIDE DEF Init
  <2>3. QED
    BY <2>1, <2>2, FS_EmptySet DEF CountersInv
<1>6. JobsInv /\ MainInv /\ TicketsInv
  BY DEF JobsInv, MainInv, TicketsInv
<1>7. OrdersInv /\ NotifiedWhenReady
  BY <1>2 DEF OrdersInv, NotifiedWhenReady, AtMostOne
<1>8. QED
  BY <1>1, <1>3, <1>4, <1>5, <1>6, <1>7 DEF RestaurantInv

\* Cooks, clients, the barrier, the equipment and the counters of run_simulation are in
\* step at every moment.
THEOREM RestaurantInvariant == Spec => []RestaurantInv
<1>1. ASSUME RestaurantInv, [Next]_vars PROVE RestaurantInv'
  <2>1. BarrierInv' /\ JobsInv' /\ EquipmentConserved' /\ MainInv' /\ TicketsInv'
    BY <1>1, BarrierStep, JobsStep, EquipmentStep, MainInvStep, TicketsStep
  <2>2. CountersInv' /\ OrdersInv' /\ NotifiedWhenReady'
    BY <1>1, CountersStep, OrdersStep, NotifiedStep
  <2>3. TypeOK'
    BY <1>1, <2>1, <2>2, TypeStep
  <2>4. QED
    BY <2>1, <2>2, <2>3 DEF RestaurantInv
<1>2. QED
  BY <1>1, InvInit, PTL DEF Spec

(***************************************************************************)
(* What follows from it                                                    *)
(***************************************************************************)

\* Every variable stays in its range: no counter and no order number passes the number
\* of clients, no semaphore its initial count.
THEOREM TypeCorrect == Spec => []TypeOK
  BY RestaurantInvariant, PTL DEF RestaurantInv

\* No order is lost, duplicated or given to two cooks between the push of its client and
\* the entry in the log of the cook that popped it.
THEOREM OrdersInOnePlace == Spec => []OrderInOnePlace
<1>1. RestaurantInv => OrderInOnePlace
  <2>1. SUFFICES ASSUME RestaurantInv, NEW c \in Client
                 PROVE  Cardinality(InQueue(c)) + Cardinality(InHand(c)) + Cardinality(InLog(c)) =
                          IF Placed(c) THEN 1 ELSE 0
    BY DEF OrderInOnePlace
  <2>2. OnePlace(c)
    BY <2>1 DEF RestaurantInv, OrdersInv, OnePlace
  <2>3. /\ Cardinality(InQueue(c)) = IF InQueue(c) = {} THEN 0 ELSE 1
        /\ Cardinality(InHand(c)) = IF InHand(c) = {} THEN 0 ELSE 1
        /\ Cardinality(InLog(c)) = IF InLog(c) = {} THEN 0 ELSE 1
    BY <2>2, CountAtMostOne DEF OnePlace
  <2>4. QED
    BY <2>2, <2>3 DEF OnePlace
<1>2. QED
  BY <1>1, RestaurantInvariant, PTL

\* A client is told exactly when its own order is ready: it subscribes before it pushes,
\* and the order numbers differ.
THEOREM ClientsAreNotified == Spec => []NotifiedWhenReady
  BY RestaurantInvariant, PTL DEF RestaurantInv

\* When notify starts a client's callback (main.cpp:123-126, order_received is set), the
\* client is still in the function whose variables the callback refers to.  Of the
\* notify_one that follows, out of order_mutex (main.cpp:127), this says nothing: the
\* client may leave before it.
THEOREM CallbacksFindTheirClient == Spec => []SubscriberIsThere
<1>1. RestaurantInv => SubscriberIsThere
  <2>1. SUFFICES ASSUME RestaurantInv, NEW k \in Cook, kpc[k] = "notifying", NEW c \in Client,
                        <<current[k].id, c>> \in subscriptions, cpc[c] = "gone"
                 PROVE  FALSE
    BY DEF SubscriberIsThere
  <2> USE <2>1 DEF RestaurantInv
  <2>2. current[k] # Null
    BY <2>1 DEF JobsInv
  <2>3. c = current[k].client /\ k \in InHand(c)
    BY <2>1, <2>2, NotifiesItsClient DEF InHand
  <2>4. Placed(c) /\ OnePlace(c)
    BY <2>3 DEF OrdersInv, OnePlace
  <2>5. received[c]
    BY <2>1, <2>4 DEF Placed, TicketsInv
  <2>6. InLog(c) = {} /\ InHand(c) = {k}
    BY <2>3, <2>4 DEF OnePlace, AtMostOne
  <2>7. QED
    BY <2>1, <2>5, <2>6 DEF NotifiedWhenReady
<1>2. QED
  BY <1>1, RestaurantInvariant, PTL

\* Stoves and ovens are conserved, whichever of them a cook draws for its order: it
\* releases those that it took and no others.
THEOREM PermitsAreConserved == Spec => []EquipmentConserved
  BY RestaurantInvariant, PTL DEF RestaurantInv

\* Nobody passes the kitchen barrier before the cooks and the main thread have arrived.
THEOREM NobodyStartsEarly == Spec => []BarrierHolds
<1>1. RestaurantInv => BarrierHolds
  <2>1. SUFFICES ASSUME BarrierInv PROVE BarrierHolds
    BY DEF RestaurantInv
  <2>2. CASE generation = 0
    BY <2>1, <2>2 DEF BarrierInv, BarrierHolds
  <2>3. CASE generation # 0
    BY <2>1, <2>3 DEF BarrierInv, BarrierHolds
  <2>4. QED
    BY <2>2, <2>3
<1>2. QED
  BY <1>1, RestaurantInvariant, PTL

\* The statistics that main prints add up, because it joins the clients and then the cooks.
THEOREM StatisticsAddUp == Spec => []ReportAddsUp
<1>1. RestaurantInv => ReportAddsUp
  <2>1. SUFFICES ASSUME RestaurantInv, mpc = "finished"
                 PROVE  /\ accepted + denied = NClients
                        /\ accepted = Cardinality({c \in Client : InLog(c) # {}})
                        /\ orders_in = <<>>
    BY DEF ReportAddsUp
  <2> USE <2>1 DEF RestaurantInv
  <2>2. (\A c \in Client : cpc[c] = "gone") /\ (\A k \in Cook : kpc[k] = "done")
    BY <2>1 DEF MainInv
  <2>3. \A c \in Client : InHand(c) = {}
    BY <2>2 DEF JobsInv, InHand
  <2>4. \A c \in Client : InLog(c) # {} <=> order_id[c] # 0
    <3>1. TAKE c \in Client
    <3>2. order_id[c] # 0 => received[c]
      BY <2>2 DEF TicketsInv
    <3>3. received[c] => InLog(c) # {}
      BY <2>3 DEF NotifiedWhenReady
    <3>4. InLog(c) # {} => Placed(c)
      BY DEF OrdersInv
    <3>5. QED
      BY <2>2, <3>2, <3>3, <3>4 DEF Placed
  <2> DEFINE A == {c \in Client : order_id[c] # 0}
             G == {c \in Client : order_id[c] = 0}
  <2>5. /\ {c \in Client : Placed(c) /\ cpc[c] # "counting"} = A
        /\ {c \in Client : cpc[c] = "gone" /\ order_id[c] = 0} = G
        /\ {c \in Client : InLog(c) # {}} = A
    BY <2>2, <2>4 DEF Placed
  <2>6. accepted = Cardinality(A) /\ denied = Cardinality(G)
    BY <2>5 DEF CountersInv
  <2>7. Cardinality(A) + Cardinality(G) = NClients
    <3>1. IsFiniteSet(A) /\ IsFiniteSet(G) /\ A \cap G = {} /\ A \cup G = Client
      BY CountOf, ArgsAssumption
    <3>2. Cardinality(A) \in Nat /\ Cardinality(G) \in Nat
      BY <3>1, FS_CardinalityType
    <3>3. Cardinality(Client) = Cardinality(A) + Cardinality(G) - Cardinality({})
      BY <3>1, FS_Union
    <3>4. QED
      BY <3>2, <3>3, FS_EmptySet DEF NClients
  <2>8. orders_in = <<>>
    <3>1. SUFFICES ASSUME orders_in # <<>> PROVE FALSE
      OBVIOUS
    <3>2. orders_in[1] \in Order /\ 1 \in DOMAIN orders_in
      BY <3>1, HeadTailProperties, LenProperties, EmptySeq, ElementOfSeq DEF TypeOK
    <3>3. orders_in[1].client \in Client /\ 1 \in InQueue(orders_in[1].client)
      BY <3>2 DEF Order, InQueue
    <3>4. PICK c \in Client : 1 \in InQueue(c)
      BY <3>3
    <3>5. Placed(c) /\ InLog(c) = {}
      BY <3>4 DEF OrdersInv
    <3>6. QED
      BY <2>2, <2>4, <3>5 DEF Placed
  <2>9. QED
    BY <2>5, <2>6, <2>7, <2>8
<1>2. QED
  BY <1>1, RestaurantInvariant, PTL

=============================================================================
