------------------------------- MODULE Startup -------------------------------
(***************************************************************************)
(* How the processes of trabalho_2 come up: main, capture_args,            *)
(* validate_args, the registry, the logger's directory and the barrier     *)
(* before the loops of worker_proc and notification_broadcaster.           *)
(*                                                                         *)
(* All processes are given the same arguments and run in the same          *)
(* directory.  The last rank is the broadcaster, the others are workers.   *)
(***************************************************************************)
EXTENDS Integers, Sequences

CONSTANTS
  WorldSizes,   \* the numbers of processes that mpirun may start
  ArgLists,     \* argv[1], ..., argv[argc - 1], each a number or Text
  MaxNotices,   \* bound: notifications sent by the workers
  Text,         \* an argument that std::stoi throws on: no number, or out of range
  Null          \* no instance of the registry

ASSUME StartupAssumption ==
  /\ WorldSizes \subseteq Nat \ {0}
  /\ ArgLists \subseteq Seq(Int \cup {Text})
  /\ Text \notin Int
  /\ MaxNotices \in Nat

DefaultBlockSize == 8
DefaultNumBlocks == 4
MaxBlockSize == 32
MaxNumBlocks == 32

Config == [log_level : Int, block_size : Int, num_blocks : Int]

VARIABLES
  world_size,
  args,
  multithreaded,  \* MPI_Init_thread provides MPI_THREAD_MULTIPLE
  pc,             \* pc[p]: where the main thread of process p is
  registry,       \* registry[p]: the GlobalRegistry of process p, or Null
  obstacle,       \* where something is that is not a directory: "log", "run" or "none"
  mkdirs,         \* whether mkdir makes directories: "always", "never" or "sometimes"
  dirs,           \* the directories there are: LOG_DIR, and its run's one in it
  helpers,        \* the processes whose repository and helper threads exist
  sent,           \* notifications sent to the broadcaster
  broadcasts      \* calls of MPI_Bcast by the broadcaster

environment == <<world_size, args, multithreaded, obstacle, mkdirs>>

vars == <<environment, pc, registry, dirs, helpers, sent, broadcasts>>

Proc == 0 .. world_size - 1

NumWorkers == world_size - 1

BroadcasterRank == world_size - 1

argc == Len(args) + 1

\* The places that a process reaches once validate_args has returned, in order.
Configured ==
  {"registry", "maintainers", "logger", "noRunDir", "makeLogDir", "makeRunDir", "helpers",
   "starting", "barrier", "running"}

Place == {"start", "capture", "timestamp", "validate", "exited", "aborted"} \cup Configured

TypeOK ==
  /\ world_size \in WorldSizes
  /\ args \in ArgLists
  /\ multithreaded \in BOOLEAN
  /\ obstacle \in {"none", "log", "run"}
  /\ mkdirs \in {"always", "never", "sometimes"}
  /\ pc \in [Proc -> Place]
  /\ registry \in [Proc -> Config \cup {Null}]
  /\ dirs \subseteq {"log", "run"}
  /\ helpers \subseteq Proc
  /\ broadcasts \in Nat /\ sent \in broadcasts .. MaxNotices

Init ==
  /\ world_size \in WorldSizes
  /\ args \in ArgLists
  /\ multithreaded \in BOOLEAN
  /\ pc = [p \in Proc |-> "start"]
  /\ registry = [p \in Proc |-> Null]
  /\ \/ obstacle = "none" /\ dirs \in {{}, {"log"}, {"log", "run"}}
     \/ obstacle = "log"  /\ dirs = {}
     \/ obstacle = "run"  /\ dirs = {"log"}
  /\ mkdirs \in {"always", "never", "sometimes"}
  /\ helpers = {}
  /\ sent = 0
  /\ broadcasts = 0

-----------------------------------------------------------------------------
Go(p, from, to) ==
  /\ pc[p] = from
  /\ pc' = [pc EXCEPT ![p] = to]

\* MPI_Init_thread, and the exception when threads are not fully supported.
InitMPI(p) ==
  /\ Go(p, "start", IF multithreaded THEN "capture" ELSE "aborted")
  /\ UNCHANGED <<environment, registry, dirs, helpers, sent, broadcasts>>

\* With the name of the program there are three to five arguments, all numbers.
WellFormed == argc \in 3 .. 5 /\ \A i \in DOMAIN args : args[i] # Text

\* What capture_args converts: the timestamp, argv[2], it returns as it is.
Captured == argc \in 3 .. 5 /\ \A i \in DOMAIN args \ {2} : args[i] # Text

\* capture_args.  With too few arguments the verbose process, rank 0, lists those
\* after argv[2], a range of negative length, and the exception ends it.
CaptureArgs(p) ==
  /\ \/ Captured /\ Go(p, "capture", "timestamp")
     \/ argc \in 3 .. 5 /\ ~ Captured /\ Go(p, "capture", "aborted")
     \/ argc \notin 3 .. 5
        /\ Go(p, "capture", IF argc < 3 /\ p = 0 THEN "aborted" ELSE "exited")
  /\ UNCHANGED <<environment, registry, dirs, helpers, sent, broadcasts>>

\* main converts the timestamp, and the exception of std::stoi ends the process.
ConvertTimestamp(p) ==
  /\ Go(p, "timestamp", IF args[2] = Text THEN "aborted" ELSE "validate")
  /\ UNCHANGED <<environment, registry, dirs, helpers, sent, broadcasts>>

\* What capture_args returns, the timestamp aside, which only names a directory.
Params ==
  [log_level  |-> args[1],
   block_size |-> IF argc > 3 THEN args[3] ELSE DefaultBlockSize,
   num_blocks |-> IF argc > 4 THEN args[4] ELSE DefaultNumBlocks]

\* Mutant: the number of processes is not looked at.
MutantValid(c) ==
  /\ c.log_level \in {0, 1, 2}
  /\ c.num_blocks > 0 /\ c.block_size > 0
  /\ c.num_blocks <= MaxNumBlocks /\ c.block_size <= MaxBlockSize

\* The conditions of validate_args.
Valid(c) ==
  /\ c.log_level \in {0, 1, 2}
  /\ c.num_blocks > 0 /\ c.block_size > 0
  /\ c.num_blocks >= NumWorkers
  /\ c.num_blocks <= MaxNumBlocks /\ c.block_size <= MaxBlockSize

\* Mutant: the exit is within the if (verbose) that prints the message.
MutantValidateArgs(p) ==
  /\ Go(p, "validate", IF Valid(Params) \/ p # 0 THEN "registry" ELSE "exited")
  /\ UNCHANGED <<environment, registry, dirs, helpers, sent, broadcasts>>

\* validate_args: the call returns, or exits with an error status.
ValidateArgs(p) ==
  /\ Go(p, "validate", IF Valid(Params) THEN "registry" ELSE "exited")
  /\ UNCHANGED <<environment, registry, dirs, helpers, sent, broadcasts>>

\* The GlobalRegistry of the process is created by its first get_instance.
MakeRegistry(p) ==
  /\ Go(p, "registry", "maintainers")
  /\ registry' = [registry EXCEPT ![p] = Params]
  /\ UNCHANGED <<environment, dirs, helpers, sent, broadcasts>>

\* resolve_maintainers takes remainders by the number of workers.
ResolveMaintainers(p) ==
  /\ Go(p, "maintainers", IF NumWorkers = 0 THEN "aborted" ELSE "logger")
  /\ UNCHANGED <<environment, registry, dirs, helpers, sent, broadcasts>>

\* The first message logged constructs the logger: create_directory looks for the
\* run's directory, and for LOG_DIR when that is missing.  It throws when it finds
\* something else there.
LookForRunDir(p) ==
  /\ \/ "run" \in dirs /\ Go(p, "logger", "helpers")
     \/ obstacle = "run" /\ Go(p, "logger", "aborted")
     \/ "run" \notin dirs /\ obstacle # "run" /\ Go(p, "logger", "noRunDir")
  /\ UNCHANGED <<environment, registry, dirs, helpers, sent, broadcasts>>

LookForLogDir(p) ==
  /\ \/ "log" \in dirs /\ Go(p, "noRunDir", "makeRunDir")
     \/ obstacle = "log" /\ Go(p, "noRunDir", "aborted")
     \/ "log" \notin dirs /\ obstacle # "log" /\ Go(p, "noRunDir", "makeLogDir")
  /\ UNCHANGED <<environment, registry, dirs, helpers, sent, broadcasts>>

\* Mutant: any failure of mkdir is an error.
MutantMakeDir(p, dir, from, to) ==
  /\ \/ mkdirs # "never" /\ dir \notin dirs /\ Go(p, from, to) /\ dirs' = dirs \cup {dir}
     \/ /\ mkdirs # "always" \/ dir \in dirs
        /\ Go(p, from, "aborted") /\ UNCHANGED dirs
  /\ UNCHANGED <<environment, registry, helpers, sent, broadcasts>>

\* mkdir: when another process has made the directory since, the call fails, and a
\* second look at the directory finds it.  When it fails for another reason (no
\* permission, no space) that look finds nothing, and create_directory throws.
MakeDir(p, dir, from, to) ==
  /\ \/ dir \in dirs /\ Go(p, from, to) /\ UNCHANGED dirs
     \/ dir \notin dirs /\ mkdirs # "never" /\ Go(p, from, to) /\ dirs' = dirs \cup {dir}
     \/ dir \notin dirs /\ mkdirs # "always" /\ Go(p, from, "aborted") /\ UNCHANGED dirs
  /\ UNCHANGED <<environment, registry, helpers, sent, broadcasts>>

\* worker_proc has its repository made and starts the three listeners;
\* broadcaster_proc starts notification_broadcaster.
StartHelpers(p) ==
  /\ Go(p, "helpers", "starting")
  /\ helpers' = helpers \cup {p}
  /\ UNCHANGED <<environment, registry, dirs, sent, broadcasts>>

EnterBarrier(p) ==
  /\ Go(p, "starting", "barrier")
  /\ UNCHANGED <<environment, registry, dirs, helpers, sent, broadcasts>>

\* Mutant: a barrier over the process itself (MPI_COMM_SELF).
MutantLeaveBarrier(p) ==
  /\ Go(p, "barrier", "running")
  /\ UNCHANGED <<environment, registry, dirs, helpers, sent, broadcasts>>

\* MPI_Barrier returns once every process has called it.
LeaveBarrier(p) ==
  /\ \A q \in Proc : pc[q] \in {"barrier", "running"}
  /\ Go(p, "barrier", "running")
  /\ UNCHANGED <<environment, registry, dirs, helpers, sent, broadcasts>>

\* A block is written: by a worker in its loop, or by the write_listener of process p
\* for such a worker, while p may still be in the barrier.
SendNotice(p) ==
  /\ p \in helpers /\ p # BroadcasterRank
  /\ \E q \in Proc \ {BroadcasterRank} : pc[q] = "running"
  /\ sent < MaxNotices
  /\ sent' = sent + 1
  /\ UNCHANGED <<environment, pc, registry, dirs, helpers, broadcasts>>

\* Mutant: the flag of MPI_Iprobe is not looked at.
MutantBroadcast ==
  /\ BroadcasterRank \in helpers
  /\ broadcasts' = broadcasts + 1
  /\ UNCHANGED <<environment, pc, registry, dirs, helpers, sent>>

\* notification_broadcaster runs from the start of its thread on.
Broadcast ==
  /\ BroadcasterRank \in helpers
  /\ broadcasts < sent
  /\ broadcasts' = broadcasts + 1
  /\ UNCHANGED <<environment, pc, registry, dirs, helpers, sent>>

Main(p) ==
  \/ InitMPI(p)
  \/ CaptureArgs(p)
  \/ ConvertTimestamp(p)
  \/ ValidateArgs(p)
  \/ MakeRegistry(p)
  \/ ResolveMaintainers(p)
  \/ LookForRunDir(p)
  \/ LookForLogDir(p)
  \/ MakeDir(p, "log", "makeLogDir", "makeRunDir")
  \/ MakeDir(p, "run", "makeRunDir", "helpers")
  \/ StartHelpers(p)
  \/ EnterBarrier(p)
  \/ LeaveBarrier(p)

Next ==
  \/ \E p \in Proc : Main(p) \/ SendNotice(p)
  \/ Broadcast

Spec == Init /\ [][Next]_vars

\* Every main thread runs; its waits are the guards of its steps.
FairSpec ==
  Spec /\ \A p \in UNION {0 .. n - 1 : n \in WorldSizes} : WF_vars(p \in Proc /\ Main(p))

-----------------------------------------------------------------------------
\* The configuration that the rest of the program runs with.
Map(p) ==
  INSTANCE MemoryMap WITH
    NumBlocks <- registry[p].num_blocks, BlockSize <- registry[p].block_size

\* Whatever the arguments, a process that gets as far as its role runs with a
\* configuration that the block distribution is made for: a worker, a block for every
\* worker, blocks that are not empty (validate_args, resolve_maintainers).
RunsConfigured ==
  \A p \in Proc : p \in helpers => Map(p)!ConfigAssumption

\* No worker reads or writes a block before every process it may have to deal with
\* has its repository and its listeners, and none is broadcast to while it could
\* still be short of the barrier: at the broadcaster MPI_Barrier comes before any
\* MPI_Bcast, and each main thread has called it by then.
ServersBeforeClients ==
  (broadcasts > 0 \/ \E p \in Proc : pc[p] = "running") =>
    \A q \in Proc : q \in helpers /\ pc[q] \in {"barrier", "running"}

\* What the program cannot run with: an MPI without threads, arguments that are not
\* numbers or not as many as it takes, no worker, no place for its directories.
Unfit ==
  \/ ~ multithreaded \/ ~ WellFormed \/ world_size = 1
  \/ obstacle # "none" \/ mkdirs # "always"

\* A process is ended by an exception only for one of these reasons: neither a
\* directory that another process makes at the same time, nor an argument out of range,
\* nor any order of the processes' steps does that.
NoCrash == Unfit \/ \A p \in Proc : pc[p] # "aborted"

\* The inductive invariant behind these: where a process is tells what it has passed and
\* has made, and notices come from processes past the barrier.
StartupInv ==
  /\ TypeOK
  /\ \A p \in Proc :
       /\ pc[p] = "timestamp" => Captured
       /\ pc[p] \in Configured \cup {"validate"} => WellFormed
       /\ pc[p] \in Configured => Valid(Params)
       /\ pc[p] \in Configured \ {"registry"} => registry[p] = Params
       /\ pc[p] \in Configured \ {"registry", "maintainers"} => NumWorkers # 0
       /\ p \in helpers <=> pc[p] \in {"starting", "barrier", "running"}
       /\ pc[p] = "aborted" => Unfit
  /\ sent > 0 => \E p \in Proc : pc[p] = "running"
  /\ (\E p \in Proc : pc[p] = "running") => \A q \in Proc : pc[q] \in {"barrier", "running"}

\* The processes share their fate: all of them come to run, or all of them end, whatever
\* the arguments and whatever is in the way of the directories.  None is left in the
\* barrier by one that has given up.  A mkdir that fails for one process and not for
\* another is the exception, as each constructs its logger by itself.
AllOrNone ==
  \/ <>[](\A p \in Proc : pc[p] = "running")
  \/ <>[](\A p \in Proc : pc[p] \in {"exited", "aborted"})
  \/ mkdirs = "sometimes"

=============================================================================
