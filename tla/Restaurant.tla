----------------------------- MODULE Restaurant -----------------------------
(***************************************************************************)
(* The restaurant simulation of trabalho_1 (main.cpp): cooks, clients, a   *)
(* closing timer and the main thread, which share the order queue, the     *)
(* subscriptions to finished orders, the stoves and ovens and the counters.*)
(*                                                                         *)
(* Each operation of the synchronisation library (sync_lib.hpp) is one     *)
(* step: it takes effect under its mutex, and a wait on its condition      *)
(* variable is a guard.  Delays are arbitrary, so a thread may be slow     *)
(* between any two steps.                                                  *)
(***************************************************************************)
EXTENDS Naturals, Sequences, FiniteSets

CONSTANTS
  Cook, Client,   \* the threads: NUM_COZINHEIROS and NUM_CLIENTES of them
  NumFogoes,      \* NUM_FOGOES: how many stoves the user asks for
  NumFornos,      \* NUM_FORNOS: how many ovens
  Null

\* The program does not check its arguments (capture_args); with no cook, oven or
\* stove it cannot serve.
ASSUME ArgsAssumption ==
  /\ IsFiniteSet(Cook) /\ Cook # {}
  /\ IsFiniteSet(Client)
  /\ NumFogoes \in Nat \ {0}
  /\ NumFornos \in Nat \ {0}

NCooks == Cardinality(Cook)

NClients == Cardinality(Client)

\* program_args has the stoves before the ovens; run_simulation, which std::apply
\* hands it to, has the ovens before the stoves.
NOvens == NumFogoes

NStoves == NumFornos

Order == [id : 1 .. NClients, client : Client]

ASSUME NoOrderAssumption == Null \notin Order

VARIABLES
  is_open,
  next_order_id,
  orders_in,      \* the synchronizing_queue
  subscriptions,  \* the observer_subject: <<order id, client>> pairs
  accepted,       \* total_orders_accepted
  denied,         \* total_orders_denied
  ovens, stoves,  \* the counts of the two semaphores
  arrivals,       \* threads that the kitchen barrier still waits for (count)
  generation,     \* generation of the kitchen barrier
  kpc,            \* kpc[k]: where cook k is
  current_gen,    \* current_gen[k]: generation at which cook k arrived
  current,        \* current[k]: the order cook k has in hand, or Null
  uses,           \* uses[k]: the equipment drawn for that order
  completed,      \* completed[k]: the orders in cook k's log
  cpc,            \* cpc[c]: where client c is
  order_id,       \* order_id[c]: the number client c drew, 0 before
  received,       \* received[c]: order_received of client c
  mpc             \* where the main thread is

board       == <<orders_in, subscriptions>>
equipment   == <<ovens, stoves>>
barrierVars == <<arrivals, generation, current_gen>>
jobs        == <<current, uses, completed>>
cookVars    == <<kpc, jobs>>
tickets     == <<order_id, received>>
countVars   == <<next_order_id, accepted, denied>>

vars == <<is_open, mpc, board, equipment, barrierVars, cookVars, cpc, tickets, countVars>>

TypeOK ==
  /\ is_open \in BOOLEAN
  /\ next_order_id \in 1 .. NClients + 1
  /\ orders_in \in Seq(Order)
  /\ subscriptions \subseteq (1 .. NClients) \X Client
  /\ accepted \in 0 .. NClients
  /\ denied \in 0 .. NClients
  /\ ovens \in 0 .. NOvens
  /\ stoves \in 0 .. NStoves
  /\ arrivals \in 1 .. NCooks + 1
  /\ generation \in 0 .. 1
  /\ kpc \in [Cook -> {"arriving", "barrier", "loop", "closing", "popping", "stove", "oven",
                       "cooking", "releasing", "notifying", "signalling", "logging",
                       "done"}]
  /\ current_gen \in [Cook -> 0 .. 1]
  /\ current \in [Cook -> Order \cup {Null}]
  /\ uses \in [Cook -> SUBSET {"stove", "oven"}]
  /\ completed \in [Cook -> Seq(Order)]
  /\ cpc \in [Client -> {"unborn", "away", "subscribing", "pushing", "counting",
                         "waiting", "gone"}]
  /\ order_id \in [Client -> 0 .. NClients]
  /\ received \in [Client -> BOOLEAN]
  /\ mpc \in {"starting", "barrier", "opening", "joiningClients", "joiningTimer",
              "joiningCooks", "finished"}

\* run_simulation has created the barrier, the semaphores and the cook threads.
Init ==
  /\ is_open = TRUE
  /\ next_order_id = 1
  /\ orders_in = <<>>
  /\ subscriptions = {}
  /\ accepted = 0
  /\ denied = 0
  /\ ovens = NOvens
  /\ stoves = NStoves
  /\ arrivals = NCooks + 1
  /\ generation = 0
  /\ kpc = [k \in Cook |-> "arriving"]
  /\ current_gen = [k \in Cook |-> 0]
  /\ current = [k \in Cook |-> Null]
  /\ uses = [k \in Cook |-> {}]
  /\ completed = [k \in Cook |-> <<>>]
  /\ cpc = [c \in Client |-> "unborn"]
  /\ order_id = [c \in Client |-> 0]
  /\ received = [c \in Client |-> FALSE]
  /\ mpc = "starting"

-----------------------------------------------------------------------------
(***************************************************************************)
(* The cooks                                                               *)
(***************************************************************************)

\* Mutant: the count is not reset to the threshold.
MutantArriveNoReset ==
  /\ generation' = IF arrivals = 1 THEN generation + 1 ELSE generation
  /\ arrivals' = arrivals - 1

\* Mutant: the barrier is opened one thread early.
MutantArriveEarly ==
  IF arrivals = 2
  THEN generation' = generation + 1 /\ arrivals' = NCooks + 1
  ELSE arrivals' = arrivals - 1 /\ UNCHANGED generation

\* The --count of barrier::wait: the last thread to arrive opens the barrier
\* for its generation and resets it.
Arrive ==
  IF arrivals = 1
  THEN generation' = generation + 1 /\ arrivals' = NCooks + 1
  ELSE arrivals' = arrivals - 1 /\ UNCHANGED generation

\* The wait of a thread that arrived at generation gen is over.
Released(gen) == generation # gen

\* Whatever a cook does, it goes from one place of its routine to another, and
\* leaves alone what only the others change.
CookStep(k, from, to) ==
  /\ kpc[k] = from
  /\ kpc' = [kpc EXCEPT ![k] = to]
  /\ UNCHANGED <<is_open, mpc, cpc, order_id, countVars>>

CookArrives(k) ==
  /\ CookStep(k, "arriving", "barrier")
  /\ Arrive
  /\ current_gen' = [current_gen EXCEPT ![k] = generation]
  /\ UNCHANGED <<board, equipment, jobs, received>>

CookStarts(k) ==
  /\ CookStep(k, "barrier", "loop")
  /\ Released(current_gen[k])
  /\ UNCHANGED <<board, equipment, barrierVars, jobs, received>>

\* Mutant: the loop goes on while the restaurant is open, whatever the queue holds.
MutantCheckOpen(k) ==
  /\ CookStep(k, "loop", IF is_open THEN "popping" ELSE "done")
  /\ UNCHANGED <<board, equipment, barrierVars, jobs, received>>

\* The first operand of the loop condition: is_open.
CheckOpen(k) ==
  /\ CookStep(k, "loop", IF is_open THEN "popping" ELSE "closing")
  /\ UNCHANGED <<board, equipment, barrierVars, jobs, received>>

\* The second operand, read after it: orders_in.empty().
CheckQueue(k) ==
  /\ CookStep(k, "closing", IF orders_in # <<>> THEN "popping" ELSE "done")
  /\ UNCHANGED <<board, equipment, barrierVars, jobs, received>>

\* Where a cook goes on to from equipment that it has acquired or does not need.
AfterTake(u) == IF "stove" \in u THEN "stove" ELSE IF "oven" \in u THEN "oven" ELSE "cooking"

\* Mutant: peek() in place of pop().
MutantTakeOrder(k) ==
  /\ orders_in # <<>>
  /\ \E u \in SUBSET {"stove", "oven"} :
       /\ CookStep(k, "popping", AfterTake(u))
       /\ uses' = [uses EXCEPT ![k] = u]
  /\ current' = [current EXCEPT ![k] = Head(orders_in)]
  /\ UNCHANGED <<board, equipment, barrierVars, completed, received>>

\* orders_in.pop() waits until there is an order; the equipment is drawn.
TakeOrder(k) ==
  /\ orders_in # <<>>
  /\ \E u \in SUBSET {"stove", "oven"} :
       /\ CookStep(k, "popping", AfterTake(u))
       /\ uses' = [uses EXCEPT ![k] = u]
  /\ current'   = [current EXCEPT ![k] = Head(orders_in)]
  /\ orders_in' = Tail(orders_in)
  /\ UNCHANGED <<equipment, barrierVars, subscriptions, completed, received>>

\* stoves.acquire()
AcquireStove(k) ==
  /\ stoves > 0
  /\ CookStep(k, "stove", AfterTake(uses[k] \ {"stove"}))
  /\ stoves' = stoves - 1
  /\ UNCHANGED <<board, barrierVars, jobs, ovens, received>>

\* ovens.acquire()
AcquireOven(k) ==
  /\ ovens > 0
  /\ CookStep(k, "oven", "cooking")
  /\ ovens' = ovens - 1
  /\ UNCHANGED <<board, barrierVars, jobs, stoves, received>>

\* The preparation time is over; the stove is released, if one was used.
ReleaseStove(k) ==
  /\ CookStep(k, "cooking", "releasing")
  /\ stoves' = IF "stove" \in uses[k] THEN stoves + 1 ELSE stoves
  /\ UNCHANGED <<board, barrierVars, jobs, ovens, received>>

\* Mutant: an else if, so that a cook with both keeps the oven.
MutantReleaseOven(k) ==
  /\ CookStep(k, "releasing", "notifying")
  /\ ovens' = IF uses[k] = {"oven"} THEN ovens + 1 ELSE ovens
  /\ UNCHANGED <<board, barrierVars, jobs, stoves, received>>

\* Then the oven.
ReleaseOven(k) ==
  /\ CookStep(k, "releasing", "notifying")
  /\ ovens' = IF "oven" \in uses[k] THEN ovens + 1 ELSE ovens
  /\ UNCHANGED <<board, barrierVars, jobs, stoves, received>>

\* No cook is inside subscriptions.notify, holding the mutex of the subject.
SubjectIsFree == \A k \in Cook : kpc[k] # "signalling"

\* subscriptions.notify takes the subject's mutex and runs the callback subscribed
\* to the order: order_received is set under the client's order_mutex.
NotifyClient(k) ==
  /\ SubjectIsFree
  /\ CookStep(k, "notifying", "signalling")
  /\ received' = [c \in Client |-> received[c] \/ <<current[k].id, c>> \in subscriptions]
  /\ UNCHANGED <<board, equipment, barrierVars, jobs>>

\* The rest of the callback: order_cv.notify_one after order_mutex has been released.
\* The client may have seen order_received by itself and be gone.
SignalClient(k) ==
  /\ CookStep(k, "signalling", "logging")
  /\ UNCHANGED <<board, equipment, barrierVars, jobs, received>>

LogOrder(k) ==
  /\ CookStep(k, "logging", "loop")
  /\ completed' = [completed EXCEPT ![k] = Append(@, current[k])]
  /\ current'   = [current EXCEPT ![k] = Null]
  /\ uses'      = [uses EXCEPT ![k] = {}]
  /\ UNCHANGED <<board, equipment, barrierVars, received>>

CookNext(k) ==
  \/ CookArrives(k)
  \/ CookStarts(k)
  \/ CheckOpen(k)
  \/ CheckQueue(k)
  \/ TakeOrder(k)
  \/ AcquireStove(k)
  \/ AcquireOven(k)
  \/ ReleaseStove(k)
  \/ ReleaseOven(k)
  \/ NotifyClient(k)
  \/ SignalClient(k)
  \/ LogOrder(k)

-----------------------------------------------------------------------------
(***************************************************************************)
(* The clients                                                             *)
(***************************************************************************)

ClientStep(c, from, to) ==
  /\ cpc[c] = from
  /\ cpc' = [cpc EXCEPT ![c] = to]
  /\ UNCHANGED <<is_open, mpc, equipment, barrierVars, cookVars>>

\* The client finds the restaurant open and draws an order number.
Enter(c) ==
  /\ is_open
  /\ ClientStep(c, "away", "subscribing")
  /\ order_id' = [order_id EXCEPT ![c] = next_order_id]
  /\ next_order_id' = next_order_id + 1
  /\ UNCHANGED <<board, received, accepted, denied>>

\* The client finds the restaurant closed.
GiveUp(c) ==
  /\ ~ is_open
  /\ ClientStep(c, "away", "gone")
  /\ denied' = denied + 1
  /\ UNCHANGED <<board, tickets, next_order_id, accepted>>

\* Mutant: the shared counter is read again instead of client_order.id.
MutantSubscribe(c) ==
  /\ SubjectIsFree
  /\ ClientStep(c, "subscribing", "pushing")
  /\ subscriptions' = subscriptions \cup {<<next_order_id - 1, c>>}
  /\ UNCHANGED <<tickets, countVars, orders_in>>

\* subscriptions.subscribe, under the subject's mutex.
Subscribe(c) ==
  /\ SubjectIsFree
  /\ ClientStep(c, "subscribing", "pushing")
  /\ subscriptions' = subscriptions \cup {<<order_id[c], c>>}
  /\ UNCHANGED <<tickets, countVars, orders_in>>

PushOrder(c) ==
  /\ ClientStep(c, "pushing", "counting")
  /\ orders_in' = Append(orders_in, [id |-> order_id[c], client |-> c])
  /\ UNCHANGED <<tickets, countVars, subscriptions>>

CountAccepted(c) ==
  /\ ClientStep(c, "counting", "waiting")
  /\ accepted' = accepted + 1
  /\ UNCHANGED <<board, tickets, next_order_id, denied>>

\* Mutant: a wait without its predicate, so that a spurious wakeup ends it.
MutantReceive(c) ==
  /\ ClientStep(c, "waiting", "gone")
  /\ UNCHANGED <<board, tickets, countVars>>

\* order_cv.wait: the client sees order_received, woken up or arriving late, and
\* leaves.
Receive(c) ==
  /\ received[c]
  /\ ClientStep(c, "waiting", "gone")
  /\ UNCHANGED <<board, tickets, countVars>>

ClientNext(c) ==
  \/ Enter(c)
  \/ GiveUp(c)
  \/ Subscribe(c)
  \/ PushOrder(c)
  \/ CountAccepted(c)
  \/ Receive(c)

-----------------------------------------------------------------------------
(***************************************************************************)
(* The timer and the main thread                                           *)
(***************************************************************************)

\* The timer thread exists once main has passed the barrier.
Close ==
  /\ mpc \notin {"starting", "barrier"}
  /\ is_open
  /\ is_open' = FALSE
  /\ UNCHANGED <<mpc, board, equipment, barrierVars, cookVars, cpc, tickets, countVars>>

MainStep(from, to) ==
  /\ mpc = from
  /\ mpc' = to
  /\ UNCHANGED <<is_open, board, equipment, current_gen, cookVars, tickets, countVars>>

MainArrives ==
  /\ MainStep("starting", "barrier")
  /\ Arrive
  /\ UNCHANGED cpc

\* Main arrives at generation 0: the barrier is used once.
MainStarts ==
  /\ MainStep("barrier", "opening")
  /\ Released(0)
  /\ UNCHANGED <<arrivals, generation, cpc>>

\* The client threads are created; each sleeps for a time of its own.
SpawnClients ==
  /\ MainStep("opening", "joiningClients")
  /\ cpc' = [c \in Client |-> "away"]
  /\ UNCHANGED <<arrivals, generation>>

JoinClients ==
  /\ MainStep("joiningClients", "joiningTimer")
  /\ \A c \in Client : cpc[c] = "gone"
  /\ UNCHANGED <<arrivals, generation, cpc>>

JoinTimer ==
  /\ MainStep("joiningTimer", "joiningCooks")
  /\ ~ is_open
  /\ UNCHANGED <<arrivals, generation, cpc>>

\* Mutant: the cooks are detached instead of joined.
MutantJoinCooks ==
  /\ MainStep("joiningCooks", "finished")
  /\ UNCHANGED <<arrivals, generation, cpc>>

\* After this join run_simulation returns and main prints the statistics.
JoinCooks ==
  /\ MainStep("joiningCooks", "finished")
  /\ \A k \in Cook : kpc[k] = "done"
  /\ UNCHANGED <<arrivals, generation, cpc>>

MainNext ==
  \/ MainArrives
  \/ MainStarts
  \/ SpawnClients
  \/ JoinClients
  \/ JoinTimer
  \/ JoinCooks

-----------------------------------------------------------------------------
Next ==
  \/ \E k \in Cook : CookNext(k)
  \/ \E c \in Client : ClientNext(c)
  \/ Close
  \/ MainNext

Spec == Init /\ [][Next]_vars

(***************************************************************************)
(* Every thread runs, and every sleep ends.  A semaphore gives a permit to *)
(* some waiter: which one is left open, and the number of orders is finite.*)
(***************************************************************************)
Fairness ==
  /\ \A k \in Cook : WF_vars(CookNext(k))
  /\ \A c \in Client : WF_vars(ClientNext(c))
  /\ WF_vars(Close)
  /\ WF_vars(MainNext)

FairSpec == Spec /\ Fairness

-----------------------------------------------------------------------------
(***************************************************************************)
(* Properties                                                              *)
(***************************************************************************)

InQueue(c) == {i \in DOMAIN orders_in : orders_in[i].client = c}

InHand(c) == {k \in Cook : current[k] # Null /\ current[k].client = c}

InLog(c) == {e \in UNION {{<<k, i>> : i \in DOMAIN completed[k]} : k \in Cook} :
               completed[e[1]][e[2]].client = c}

\* The client has pushed its order.
Placed(c) ==
  cpc[c] \in {"counting", "waiting"} \/ (cpc[c] = "gone" /\ order_id[c] # 0)

\* No order is lost, duplicated or given to two cooks: from the push on, a client's
\* order is in exactly one place, the queue, one cook's hands or one cook's log;
\* before the push it is in none (push, pop and the cook's loop).
OrderInOnePlace ==
  \A c \in Client :
    Cardinality(InQueue(c)) + Cardinality(InHand(c)) + Cardinality(InLog(c)) =
      IF Placed(c) THEN 1 ELSE 0

\* A client has been told that its order is ready exactly when a cook has finished
\* it: the subscription was in place before the order could be cooked, so the
\* notification cannot be missed, and no other order's notification is taken for it.
NotifiedWhenReady ==
  \A c \in Client :
    received[c] <=> \/ InLog(c) # {}
                    \/ \E k \in InHand(c) : kpc[k] \in {"signalling", "logging"}

\* The callback that a cook is about to run refers to the stack of a client that is
\* still in its frame (the lambda captures order_received by reference).
SubscriberIsThere ==
  \A k \in Cook : kpc[k] = "notifying" =>
    \A c \in Client : <<current[k].id, c>> \in subscriptions => cpc[c] # "gone"

HoldsStove(k) ==
  "stove" \in uses[k] /\ kpc[k] \in {"oven", "cooking"}

HoldsOven(k) ==
  "oven" \in uses[k] /\ kpc[k] \in {"cooking", "releasing"}

\* Permits are conserved: each stove and oven is free or held by one cook.
EquipmentConserved ==
  /\ stoves + Cardinality({k \in Cook : HoldsStove(k)}) = NStoves
  /\ ovens + Cardinality({k \in Cook : HoldsOven(k)}) = NOvens

\* No cook starts working before every cook has arrived and main has, and main does
\* not open before the cooks have arrived (kitchen_barrier).
BarrierHolds ==
  ((\E k \in Cook : kpc[k] \notin {"arriving", "barrier"}) \/ mpc \notin {"starting", "barrier"})
    => (\A k \in Cook : kpc[k] # "arriving") /\ mpc # "starting"

\* When main prints the statistics they add up: every client was either accepted or
\* denied, and every accepted order is in some cook's log (the joins of
\* run_simulation, the counters, the push_back that follows the notification).
ReportAddsUp ==
  mpc = "finished" =>
    /\ accepted + denied = NClients
    /\ accepted = Cardinality({c \in Client : InLog(c) # {}})
    /\ orders_in = <<>>

\* Generation 0 of the barrier is the only one that threads arrive in.
BarrierInv ==
  /\ \A k \in Cook : current_gen[k] = 0
  /\ generation = 0 =>
       /\ arrivals = Cardinality({k \in Cook : kpc[k] = "arriving"})
                       + (IF mpc = "starting" THEN 1 ELSE 0)
       /\ \A k \in Cook : kpc[k] \in {"arriving", "barrier"}
       /\ mpc \in {"starting", "barrier"}
  /\ generation # 0 => (\A k \in Cook : kpc[k] # "arriving") /\ mpc # "starting"

\* A cook has an order in hand from pop to the log, and waits for what it draws.
JobsInv ==
  \A k \in Cook :
    /\ current[k] # Null <=>
         kpc[k] \in {"stove", "oven", "cooking", "releasing", "notifying", "signalling",
                     "logging"}
    /\ kpc[k] \in {"stove", "oven"} => kpc[k] \in uses[k]

\* What the main thread has waited for.
MainInv ==
  /\ \A c \in Client : cpc[c] = "unborn" <=> mpc \in {"starting", "barrier", "opening"}
  /\ mpc \in {"joiningTimer", "joiningCooks", "finished"} => \A c \in Client : cpc[c] = "gone"
  /\ mpc = "finished" => \A k \in Cook : kpc[k] = "done"

\* Order numbers are drawn once, differ, and are what clients subscribe to; a client
\* that had one has seen its order_received.
TicketsInv ==
  /\ \A c \in Client :
       /\ cpc[c] \in {"unborn", "away"} => order_id[c] = 0
       /\ cpc[c] \in {"subscribing", "pushing", "counting", "waiting"} => order_id[c] # 0
       /\ order_id[c] < next_order_id
       /\ cpc[c] = "gone" /\ order_id[c] # 0 => received[c]
  /\ \A c, d \in Client : order_id[c] = order_id[d] /\ order_id[c] # 0 => c = d
  /\ \A i \in 1 .. NClients, c \in Client :
       <<i, c>> \in subscriptions <=> i = order_id[c] /\ cpc[c] # "subscribing"

\* What the counters count.
CountersInv ==
  /\ next_order_id = 1 + Cardinality({c \in Client : order_id[c] # 0})
  /\ accepted = Cardinality({c \in Client : Placed(c) /\ cpc[c] # "counting"})
  /\ denied = Cardinality({c \in Client : cpc[c] = "gone" /\ order_id[c] = 0})

AtMostOne(S) == \A x, y \in S : x = y

\* OrderInOnePlace without counting, and that the orders carry their clients' numbers.
OrdersInv ==
  /\ \A c \in Client :
       /\ AtMostOne(InQueue(c)) /\ AtMostOne(InHand(c)) /\ AtMostOne(InLog(c))
       /\ InQueue(c) = {} \/ InHand(c) = {}
       /\ InQueue(c) = {} \/ InLog(c) = {}
       /\ InHand(c) = {} \/ InLog(c) = {}
       /\ Placed(c) <=> InQueue(c) \cup InHand(c) \cup InLog(c) # {}
  /\ \A i \in DOMAIN orders_in : orders_in[i].id = order_id[orders_in[i].client]
  /\ \A k \in Cook : current[k] # Null => current[k].id = order_id[current[k].client]

\* The inductive invariant behind the properties above: cooks, clients, the barrier and
\* the counters are in step with each other at every moment of the simulation.
RestaurantInv ==
  /\ TypeOK
  /\ BarrierInv
  /\ JobsInv
  /\ EquipmentConserved
  /\ MainInv
  /\ TicketsInv
  /\ CountersInv
  /\ OrdersInv
  /\ NotifiedWhenReady

\* An order that is in the queue while the restaurant is open reaches its client,
\* though the restaurant closes at any moment after the push.
OrdersBeforeClosingAreServed ==
  \A c \in Client : (is_open /\ InQueue(c) # {}) ~> cpc[c] = "gone"

\* A cook that waits for a stove or an oven gets to cook: stove before oven for all.
EquipmentIsGranted ==
  \A k \in Cook : kpc[k] \in {"stove", "oven"} ~> kpc[k] = "cooking"

\* "Closes the restaurant for new orders" (main.cpp:30): once closed, no order is
\* queued any more.
NoOrderAfterClosing ==
  [][~ is_open => Len(orders_in') <= Len(orders_in)]_vars

\* "Do perpetually until both the restaurant is closed AND there are no more orders
\* on queue" (main.cpp:55-56): when both hold for good, the cooks stop.
CooksFinishShift ==
  <>[](~ is_open /\ orders_in = <<>>) => <>[](\A k \in Cook : kpc[k] = "done")

\* "NUM_FOGOES" is the number of stoves the user asks for, in that place among the
\* arguments (README.md:71, 86): no more stoves are in use at a time.
StovesAsConfigured == Cardinality({k \in Cook : HoldsStove(k)}) <= NumFogoes

=============================================================================
