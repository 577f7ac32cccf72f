---------------------------- MODULE StartupProofs ----------------------------
(***************************************************************************)
(* Theorems about Startup, for every number of processes, all argument     *)
(* lists and every state that the directories may be found in.             *)
(***************************************************************************)
EXTENDS Startup, TLAPS

\* The part of the invariant that concerns process p.
Passed(p) ==
  /\ pc[p] = "timestamp" => Captured
  /\ pc[p] \in Configured \cup {"validate"} => WellFormed
  /\ pc[p] \in Configured => Valid(Params)
  /\ pc[p] \in Configured \ {"registry"} => registry[p] = Params
  /\ pc[p] \in Configured \ {"registry", "maintainers"} => NumWorkers # 0
  /\ p \in helpers <=> pc[p] \in {"starting", "barrier", "running"}
  /\ pc[p] = "aborted" => Unfit

\* What a step of a process leaves as it is.
LEMMA MainFrame ==
  ASSUME NEW p \in Proc, Main(p)
  PROVE  /\ UNCHANGED <<environment, sent, broadcasts>>
         /\ \E to : pc' = [pc EXCEPT ![p] = to]
         /\ registry' = registry \/ (MakeRegistry(p) /\ registry' = [registry EXCEPT ![p] = Params])
         /\ helpers' = helpers \/ helpers' = helpers \cup {p}
         /\ dirs' \subseteq dirs \cup {"log", "run"}
<1> USE DEF Go
<1>1. CASE InitMPI(p)
  BY <1>1 DEF InitMPI
<1>2. CASE CaptureArgs(p)
  <2>1. \E to : Go(p, "capture", to)
    BY <1>2 DEF CaptureArgs
  <2>2. QED
    BY <1>2, <2>1 DEF CaptureArgs
<1>3. CASE ConvertTimestamp(p) \/ ValidateArgs(p) \/ MakeRegistry(p) \/ ResolveMaintainers(p)
  BY <1>3 DEF ConvertTimestamp, ValidateArgs, MakeRegistry, ResolveMaintainers
<1>4. CASE LookForRunDir(p) \/ LookForLogDir(p)
  BY <1>4 DEF LookForRunDir, LookForLogDir
<1>5. CASE \/ MakeDir(p, "log", "makeLogDir", "makeRunDir")
           \/ MakeDir(p, "run", "makeRunDir", "helpers")
  BY <1>5 DEF MakeDir
<1>6. CASE StartHelpers(p) \/ EnterBarrier(p) \/ LeaveBarrier(p)
  BY <1>6 DEF StartHelpers, EnterBarrier, LeaveBarrier
<1>7. QED
  BY <1>1, <1>2, <1>3, <1>4, <1>5, <1>6 DEF Main

\* Where a step leads: running is reached from the barrier only, and never left.
LEMMA MainMoves ==
  ASSUME TypeOK, NEW p \in Proc, Main(p)
  PROVE  /\ pc'[p] \in Place
         /\ pc[p] # "running"
         /\ pc'[p] = "running" <=> pc[p] = "barrier"
         /\ pc[p] = "barrier" => LeaveBarrier(p)
<1> USE DEF TypeOK, Go, Place, Configured
<1>1. CASE InitMPI(p)
  BY <1>1 DEF InitMPI
<1>2. CASE CaptureArgs(p)
  BY <1>2 DEF CaptureArgs
<1>3. CASE ConvertTimestamp(p) \/ ValidateArgs(p) \/ MakeRegistry(p) \/ ResolveMaintainers(p)
  BY <1>3 DEF ConvertTimestamp, ValidateArgs, MakeRegistry, ResolveMaintainers
<1>4. CASE LookForRunDir(p) \/ LookForLogDir(p)
  BY <1>4 DEF LookForRunDir, LookForLogDir
<1>5. CASE \/ MakeDir(p, "log", "makeLogDir", "makeRunDir")
           \/ MakeDir(p, "run", "makeRunDir", "helpers")
  BY <1>5 DEF MakeDir
<1>6. CASE StartHelpers(p) \/ EnterBarrier(p) \/ LeaveBarrier(p)
  BY <1>6 DEF StartHelpers, EnterBarrier, LeaveBarrier
<1>7. QED
  BY <1>1, <1>2, <1>3, <1>4, <1>5, <1>6 DEF Main

\* The arguments, and what is computed from them, are the same before and after a step.
LEMMA EnvironmentStays ==
  ASSUME UNCHANGED environment
  PROVE  /\ UNCHANGED <<world_size, args, multithreaded, obstacle, mkdirs>>
         /\ Proc' = Proc /\ Params' = Params
         /\ (WellFormed' <=> WellFormed) /\ (Captured' <=> Captured) /\ (Unfit' <=> Unfit)
         /\ NumWorkers' = NumWorkers /\ BroadcasterRank' = BroadcasterRank
         /\ (Valid(Params)' <=> Valid(Params))
  BY DEF environment, Proc, WellFormed, Captured, Unfit, argc, Params, NumWorkers,
         BroadcasterRank, Valid

\* Well-formed arguments make a configuration.
LEMMA ParamsType ==
  ASSUME TypeOK, WellFormed
  PROVE  Params \in Config
<1>1. args \in Seq(Int \cup {Text}) /\ Len(args) \in Nat /\ DOMAIN args = 1 .. Len(args)
  BY StartupAssumption DEF TypeOK
<1>2. \A i \in 1 .. Len(args) : args[i] \in Int
  BY <1>1 DEF WellFormed
<1>3. Len(args) \in 2 .. 4
  <2>1. Len(args) + 1 \in 3 .. 5
    BY DEF WellFormed, argc
  <2>2. QED
    BY <1>1, <2>1
<1>4. args[1] \in Int /\ (Len(args) > 2 => args[3] \in Int) /\ (Len(args) > 3 => args[4] \in Int)
  BY <1>2, <1>3
<1>5. QED
  BY <1>1, <1>4 DEF Params, Config, argc, DefaultBlockSize, DefaultNumBlocks

\* A step of a process keeps what is known of that process ...
LEMMA OwnStep ==
  ASSUME StartupInv, NEW p \in Proc, Main(p)
  PROVE  Passed(p)'
<1>1. Passed(p)
  BY DEF StartupInv, Passed
<1>2. /\ pc \in [Proc -> Place]
      /\ registry \in [Proc -> Config \cup {Null}] /\ world_size \in Nat \ {0}
  BY StartupAssumption DEF StartupInv, TypeOK
<1>3. UNCHANGED environment
  BY MainFrame
<1> USE EnvironmentStays DEF Go, Passed, Configured, Place
<1>4. CASE InitMPI(p)
  BY <1>1, <1>2, <1>3, <1>4 DEF InitMPI, Unfit
<1>5. CASE CaptureArgs(p)
  <2>1. \/ Captured /\ Go(p, "capture", "timestamp")
        \/ ~ WellFormed /\ (Go(p, "capture", "aborted") \/ Go(p, "capture", "exited"))
    BY <1>5 DEF CaptureArgs, Captured, WellFormed
  <2>2. UNCHANGED <<registry, helpers>>
    BY <1>5 DEF CaptureArgs
  <2>3. QED
    BY <1>1, <1>2, <1>3, <2>1, <2>2 DEF Unfit
<1>6. CASE ConvertTimestamp(p)
  <2>1. pc[p] = "timestamp" => Captured
    BY <1>1
  <2>2. \/ WellFormed /\ Go(p, "timestamp", "validate")
        \/ ~ WellFormed /\ Go(p, "timestamp", "aborted")
    <3>1. argc \in 3 .. 5 /\ \A i \in DOMAIN args \ {2} : args[i] # Text
      BY <1>6, <2>1 DEF ConvertTimestamp, Captured
    <3>2. args \in Seq(Int \cup {Text}) /\ Len(args) \in Nat /\ DOMAIN args = 1 .. Len(args)
      BY StartupAssumption DEF StartupInv, TypeOK
    <3>3. 2 \in DOMAIN args
      BY <3>1, <3>2 DEF argc
    <3>4. WellFormed <=> args[2] # Text
      BY <3>1, <3>3 DEF WellFormed
    <3>5. QED
      BY <1>6, <3>4 DEF ConvertTimestamp
  <2>3. UNCHANGED <<registry, helpers>>
    BY <1>6 DEF ConvertTimestamp
  <2>4. QED
    BY <1>1, <1>2, <1>3, <2>2, <2>3 DEF Unfit
<1>7. CASE ValidateArgs(p)
  BY <1>1, <1>2, <1>3, <1>7 DEF ValidateArgs
<1>8. CASE MakeRegistry(p)
  BY <1>1, <1>2, <1>3, <1>8 DEF MakeRegistry
<1>9. CASE ResolveMaintainers(p)
  BY <1>1, <1>2, <1>3, <1>9 DEF ResolveMaintainers, NumWorkers, Unfit
<1>10. CASE LookForRunDir(p) \/ LookForLogDir(p)
  BY <1>1, <1>2, <1>3, <1>10 DEF LookForRunDir, LookForLogDir, Unfit
<1>11. CASE \/ MakeDir(p, "log", "makeLogDir", "makeRunDir")
            \/ MakeDir(p, "run", "makeRunDir", "helpers")
  BY <1>1, <1>2, <1>3, <1>11 DEF MakeDir, Unfit
<1>12. CASE StartHelpers(p)
  BY <1>1, <1>2, <1>3, <1>12 DEF StartHelpers
<1>13. CASE EnterBarrier(p) \/ LeaveBarrier(p)
  BY <1>1, <1>2, <1>3, <1>13 DEF EnterBarrier, LeaveBarrier
<1>14. QED
  BY <1>4, <1>5, <1>6, <1>7, <1>8, <1>9, <1>10, <1>11, <1>12, <1>13 DEF Main

\* ... and of the others.
LEMMA OthersStay ==
  ASSUME StartupInv, NEW p \in Proc, Main(p), NEW q \in Proc, q # p
  PROVE  Passed(q)' /\ pc'[q] = pc[q]
<1>1. Passed(q) /\ pc \in [Proc -> {pc[r] : r \in Proc}]
      /\ registry \in [Proc -> Config \cup {Null}]
  BY DEF StartupInv, Passed, TypeOK
<1>2. pc'[q] = pc[q] /\ registry'[q] = registry[q] /\ (q \in helpers' <=> q \in helpers)
  BY <1>1, MainFrame
<1>3. UNCHANGED environment
  BY MainFrame
<1>4. QED
  BY <1>1, <1>2, <1>3, EnvironmentStays DEF Passed

\* Every step keeps every variable in its range.
LEMMA TypeStep ==
  ASSUME StartupInv, [Next]_vars
  PROVE  TypeOK'
<1> USE DEF StartupInv
<1>1. ASSUME NEW p \in Proc, Main(p) PROVE TypeOK'
  <2>1. UNCHANGED <<environment, sent, broadcasts>>
    BY <1>1, MainFrame
  <2>2. pc'[p] \in Place
    BY <1>1, MainMoves
  <2>3. pc' \in [Proc -> Place]
    BY <1>1, <2>2, MainFrame DEF TypeOK
  <2>4. registry' \in [Proc -> Config \cup {Null}]
    <3>1. CASE registry' = registry
      BY <3>1 DEF TypeOK
    <3>2. CASE registry' # registry
      <4>1. MakeRegistry(p) /\ registry' = [registry EXCEPT ![p] = Params]
        BY <1>1, <3>2, MainFrame
      <4>2. Params \in Config
        BY <4>1, ParamsType DEF MakeRegistry, Go, Configured
      <4>3. QED
        BY <4>1, <4>2 DEF TypeOK
    <3>3. QED
      BY <3>1, <3>2
  <2>5. helpers' \subseteq Proc /\ dirs' \subseteq {"log", "run"}
    BY <1>1, MainFrame DEF TypeOK
  <2>6. QED
    BY <2>1, <2>3, <2>4, <2>5, EnvironmentStays DEF TypeOK
<1>2. ASSUME NEW p \in Proc, SendNotice(p) PROVE TypeOK'
  BY <1>2, EnvironmentStays, StartupAssumption DEF SendNotice, TypeOK
<1>3. CASE Broadcast
  BY <1>3, EnvironmentStays, StartupAssumption DEF Broadcast, TypeOK
<1>4. CASE UNCHANGED vars
  BY <1>4, EnvironmentStays DEF vars, TypeOK
<1>5. QED
  BY <1>1, <1>2, <1>3, <1>4 DEF Next

\* What has been passed and made stays in step with where the processes are.
LEMMA PassedStep ==
  ASSUME StartupInv, [Next]_vars
  PROVE  /\ \A p \in Proc' : Passed(p)'
         /\ (sent > 0 => \E p \in Proc : pc[p] = "running")'
         /\ ((\E p \in Proc : pc[p] = "running") =>
               \A q \in Proc : pc[q] \in {"barrier", "running"})'
<1>0. UNCHANGED environment
  BY MainFrame DEF Next, SendNotice, Broadcast, vars
<1>1. /\ Proc' = Proc /\ \A p \in Proc : Passed(p)
      /\ sent \in Nat
      /\ sent > 0 => \E p \in Proc : pc[p] = "running"
      /\ (\E p \in Proc : pc[p] = "running") => \A q \in Proc : pc[q] \in {"barrier", "running"}
  BY <1>0, EnvironmentStays DEF StartupInv, Passed, TypeOK
<1>2. ASSUME UNCHANGED <<pc, registry, helpers>>
      PROVE  /\ \A p \in Proc' : Passed(p)'
             /\ ((\E p \in Proc : pc[p] = "running") =>
                   \A q \in Proc : pc[q] \in {"barrier", "running"})'
  BY <1>0, <1>1, <1>2, EnvironmentStays DEF Passed
<1>3. ASSUME NEW p \in Proc, Main(p)
      PROVE  /\ \A q \in Proc' : Passed(q)'
             /\ (sent > 0 => \E q \in Proc : pc[q] = "running")'
             /\ ((\E q \in Proc : pc[q] = "running") =>
                   \A q \in Proc : pc[q] \in {"barrier", "running"})'
  <2>1. \A q \in Proc' : Passed(q)'
    BY <1>1, <1>3, OwnStep, OthersStay
  <2>2. (\A q \in Proc \ {p} : pc'[q] = pc[q]) /\ UNCHANGED sent /\ pc[p] # "running"
    BY <1>3, MainFrame, MainMoves, OthersStay DEF StartupInv
  <2>3. pc[p] = "barrier" => LeaveBarrier(p) /\ pc'[p] = "running"
    BY <1>3, MainMoves DEF StartupInv
  <2>4. pc[p] # "barrier" => pc'[p] # "running"
    BY <1>3, MainMoves DEF StartupInv
  <2>5. (sent > 0 => \E q \in Proc : pc[q] = "running")'
    BY <1>1, <2>2
  <2>6. CASE pc[p] = "barrier"
    <3>1. \A q \in Proc : pc[q] \in {"barrier", "running"}
      BY <2>3, <2>6 DEF LeaveBarrier
    <3>2. QED
      BY <1>1, <2>1, <2>2, <2>3, <2>5, <2>6, <3>1
  <2>7. CASE pc[p] # "barrier"
    <3>1. \A q \in Proc : pc[q] # "running"
      BY <1>1, <2>2, <2>7
    <3>2. QED
      BY <1>1, <2>1, <2>2, <2>4, <2>5, <2>7, <3>1
  <2>8. QED
    BY <2>6, <2>7
<1>4. ASSUME NEW p \in Proc, SendNotice(p)
      PROVE  (sent > 0 => \E q \in Proc : pc[q] = "running")'
  BY <1>1, <1>4 DEF SendNotice
<1>5. CASE Broadcast \/ UNCHANGED vars
  BY <1>1, <1>2, <1>5 DEF Broadcast, vars
<1>6. QED
  BY <1>2, <1>3, <1>4, <1>5 DEF Next, SendNotice

\* Where a process is tells what it has passed and made, at every moment.
THEOREM StartupInvariant == Spec => []StartupInv
<1>1. Init => StartupInv
  <2>1. SUFFICES ASSUME Init PROVE StartupInv
    OBVIOUS
  <2>2. TypeOK
    BY <2>1, StartupAssumption DEF Init, TypeOK, Place
  <2>3. \A p \in Proc : pc[p] = "start"
    BY <2>1 DEF Init
  <2>4. helpers = {} /\ sent = 0
    BY <2>1 DEF Init
  <2>5. QED
    BY <2>2, <2>3, <2>4 DEF StartupInv, Configured
<1>2. StartupInv /\ [Next]_vars => StartupInv'
  BY TypeStep, PassedStep DEF StartupInv, Passed
<1>3. QED
  BY <1>1, <1>2, PTL DEF Spec

\* Every variable stays in its range, and no more is broadcast than was sent.
THEOREM TypeCorrect == Spec => []TypeOK
  BY StartupInvariant, PTL DEF StartupInv

\* A process that takes up its role has a configuration that the block distribution is
\* made for, whatever the arguments.
THEOREM ConfigurationHolds == Spec => []RunsConfigured
<1>1. StartupInv => RunsConfigured
  <2>1. SUFFICES ASSUME StartupInv, NEW p \in Proc, p \in helpers
                 PROVE  Map(p)!ConfigAssumption
    BY DEF RunsConfigured
  <2>2. /\ WellFormed /\ Valid(Params) /\ registry[p] = Params /\ NumWorkers # 0
    BY <2>1 DEF StartupInv, Configured
  <2>3. Params \in Config
    BY <2>1, <2>2, ParamsType DEF StartupInv
  <2>4. NumWorkers \in Nat \ {0}
    BY <2>1, <2>2, StartupAssumption DEF StartupInv, TypeOK, NumWorkers
  <2>5. /\ Params.num_blocks \in Nat \ {0} /\ Params.block_size \in Nat \ {0}
        /\ NumWorkers <= Params.num_blocks
    BY <2>2, <2>3, <2>4 DEF Valid, Config
  <2>6. QED
    BY <2>2, <2>4, <2>5 DEF Map!ConfigAssumption
<1>2. QED
  BY <1>1, StartupInvariant, PTL

\* Nobody uses the shared memory before everybody serves it: a process starts its
\* listeners or the broadcaster before it enters MPI_Barrier.
THEOREM ServersComeFirst == Spec => []ServersBeforeClients
<1>1. StartupInv => ServersBeforeClients
  BY DEF StartupInv, ServersBeforeClients, TypeOK
<1>2. QED
  BY <1>1, StartupInvariant, PTL

\* A process that is ended by an exception while it starts has met one of the reasons in
\* Unfit: the race for the log directories, and validate_args, never are one.
THEOREM NobodyCrashes == Spec => []NoCrash
<1>1. StartupInv => NoCrash
  BY DEF StartupInv, NoCrash
<1>2. QED
  BY <1>1, StartupInvariant, PTL

=============================================================================
