------------------------------- MODULE MCSamples -------------------------------
(***************************************************************************)
(* The samples: one of them is what the board runs.                        *)
(*   "pool"     ThreadPool, tiled_matmul_mt_pool                           *)
(*   "tof"      TofBringup, the VL53L5CX, VL53L1 and ADS7128 bring-ups     *)
(*   "motors"   Motors, the motor tests                                    *)
(*   "flow"     FlowSensor, the PMW3901 bring-up                           *)
(*   "exec"     ExecutorRunner, the ExecuTorch runner                      *)
(*   "infer"    InferenceRunners, the IREE, XNNPACK and muRISCV-NN samples *)
(*   "apps"     MicroRosApps, the micro-ROS applications                   *)
(*   "threads"  ThreadSamples, test_mt_rvv, hello_pthread, tiled_eigen_mt  *)
(*   "strip"    StripMine, the vector library                              *)
(* The variables of ThreadPool keep their initial values while another     *)
(* runs, those of the others are Idle.                                     *)
(***************************************************************************)
EXTENDS ThreadPool, Integers

CONSTANTS N, ATTEMPTS, MAX_ERRORS, MAX_FAULTS, MAX_RESETS,
          Digits, MOTORS, MAX_CHARS, SPIN_DUTY_PCT, HIGH_DUTY_PCT,
          BYTE, Moving, FLOW_FAULTS, FLOW_RESETS,
          ALIGN, Aligns, POOL, PTR, ITERS, MAX_BAKED, Sizes, NMODELS, MAX_SIG,
          SPINS, QUEUE, NT, HARTS, VLMAX, Dims, TileSizes

Idle == 0

ASSUME SamplesAssumption ==
    /\ NT \in Nat \ {0} /\ HARTS \in Nat \ {0}
    /\ ALIGN \in Nat \ {0} /\ PTR \in Nat /\ MAX_BAKED \in Nat /\ MAX_SIG \in Nat
    /\ Sizes \subseteq Nat /\ Aligns \subseteq Nat \ {0}
    /\ BYTE \in Nat \ {0} /\ Moving \subseteq {"y", "x"} /\ N \in 1 .. 5
    /\ MOTORS \in Nat \ {0} /\ Digits \subseteq 0 .. 9

VARIABLES
    program,
    \* TofBringup
    bprog, tpc, cfg, gpo, floating, addr, inited, keeps, idx, attempt, errors,
    gpio_state, faults, resets, answered,
    \* Motors
    mprog, mpc, motors, duty, motorAt, target, after, throttle_pct, throttle_buf,
    motorFaults, chars, typed, setOk,
    \* FlowSensor
    fprog, flowpc, blk, spoiled, fresets, flowFaults, wired, page, written, acc, deltas,
    axis, bytes, owed, flowRet,
    \* ExecutorRunner
    model, epc, mi, it, poolEnd, used_, slot, planned, logged, ran,
    \* InferenceRunners
    runner, at, held, holds, outcome,
    \* MicroRosApps
    app, mainpc, nodepc, passes, served, options, session, subOn, queue, pub_msg, pongs,
    \* ThreadSamples
    sample, mainAt, i, th, thread_ids, seen, lines_mutex, printing, on, v1, context,
    buf, tiles,
    \* StripMine
    vop, n, m, o, tile, A, B, tailKept, halves, result, scalar, cell, K, l, vec, vpc,
    partial

tofVars ==
    <<bprog, tpc, cfg, gpo, floating, addr, inited, keeps, idx, attempt, errors,
      gpio_state, faults, resets, answered>>
motorsVars ==
    <<mprog, mpc, motors, duty, motorAt, target, after, throttle_pct, throttle_buf,
      motorFaults, chars, typed, setOk>>
flowVars ==
    <<fprog, flowpc, blk, spoiled, fresets, flowFaults, wired, page, written, acc,
      deltas, axis, bytes, owed, flowRet>>
execVars ==
    <<model, epc, mi, it, poolEnd, used_, slot, planned, logged, ran>>
inferVars ==
    <<runner, at, held, holds, outcome>>
appsVars ==
    <<app, mainpc, nodepc, passes, served, options, session, subOn, queue, pub_msg,
      pongs>>
threadsVars ==
    <<sample, mainAt, i, th, thread_ids, seen, lines_mutex, printing, on, v1, context,
      buf, tiles>>
stripVars ==
    <<vop, n, m, o, tile, A, B, tailKept, halves, result, scalar, cell, K, l, vec, vpc,
      partial>>

TofIdle ==
    /\ bprog = Idle /\ tpc = Idle /\ cfg = Idle /\ gpo = Idle /\ floating = Idle
    /\ addr = Idle /\ inited = Idle /\ keeps = Idle /\ idx = Idle /\ attempt = Idle
    /\ errors = Idle /\ gpio_state = Idle /\ faults = Idle /\ resets = Idle
    /\ answered = Idle
MotIdle ==
    /\ mprog = Idle /\ mpc = Idle /\ motors = Idle /\ duty = Idle /\ motorAt = Idle
    /\ target = Idle /\ after = Idle /\ throttle_pct = Idle /\ throttle_buf = Idle
    /\ motorFaults = Idle /\ chars = Idle /\ typed = Idle /\ setOk = Idle
FlowIdle ==
    /\ fprog = Idle /\ flowpc = Idle /\ blk = Idle /\ spoiled = Idle /\ fresets = Idle
    /\ flowFaults = Idle /\ wired = Idle /\ page = Idle /\ written = Idle /\ acc = Idle
    /\ deltas = Idle /\ axis = Idle /\ bytes = Idle /\ owed = Idle /\ flowRet = Idle
ExecIdle ==
    /\ model = Idle /\ epc = Idle /\ mi = Idle /\ it = Idle /\ poolEnd = Idle
    /\ used_ = Idle /\ slot = Idle /\ planned = Idle /\ logged = Idle /\ ran = Idle
InferIdle ==
    /\ runner = Idle /\ at = Idle /\ held = Idle /\ holds = Idle /\ outcome = Idle
AppsIdle ==
    /\ app = Idle /\ mainpc = Idle /\ nodepc = Idle /\ passes = Idle /\ served = Idle
    /\ options = Idle /\ session = Idle /\ subOn = Idle /\ queue = Idle /\ pub_msg = Idle
    /\ pongs = Idle
ThrIdle ==
    /\ sample = Idle /\ mainAt = Idle /\ i = Idle /\ th = Idle /\ thread_ids = Idle
    /\ seen = Idle /\ lines_mutex = Idle /\ printing = Idle /\ on = Idle /\ v1 = Idle
    /\ context = Idle /\ buf = Idle /\ tiles = Idle
StripsIdle ==
    /\ vop = Idle /\ n = Idle /\ m = Idle /\ o = Idle /\ tile = Idle /\ A = Idle
    /\ B = Idle /\ tailKept = Idle /\ halves = Idle /\ result = Idle /\ scalar = Idle
    /\ cell = Idle /\ K = Idle /\ l = Idle /\ vec = Idle /\ vpc = Idle /\ partial = Idle

Tof    == INSTANCE TofBringup
Mot    == INSTANCE Motors WITH k <- motorAt
Flow   == INSTANCE FlowSensor WITH MAX_FAULTS <- FLOW_FAULTS, MAX_RESETS <- FLOW_RESETS
Exec   == INSTANCE ExecutorRunner
Infer  == INSTANCE InferenceRunners
Apps   == INSTANCE MicroRosApps
Thr    == INSTANCE ThreadSamples WITH print_mutex <- lines_mutex
Strips == INSTANCE StripMine WITH Tiles <- TileSizes, C <- result

Programs == {"pool", "tof", "motors", "flow", "exec", "infer", "apps", "threads", "strip"}

MCInit ==
    /\ program \in Programs
    /\ Init
    /\ IF program = "tof" THEN Tof!Init ELSE TofIdle
    /\ IF program = "motors" THEN Mot!Init ELSE MotIdle
    /\ IF program = "flow" THEN Flow!Init ELSE FlowIdle
    /\ IF program = "exec" THEN Exec!Init ELSE ExecIdle
    /\ IF program = "infer" THEN Infer!Init ELSE InferIdle
    /\ IF program = "apps" THEN Apps!Init ELSE AppsIdle
    /\ IF program = "threads" THEN Thr!Init ELSE ThrIdle
    /\ IF program = "strip" THEN Strips!Init ELSE StripsIdle

bringupVars == <<tofVars, motorsVars, flowVars>>
runnerVars  == <<execVars, inferVars>>
threadVars  == <<threadsVars, stripVars>>

MCNext ==
    \/ program = "pool" /\ Next
       /\ UNCHANGED <<program, bringupVars, runnerVars, appsVars, threadVars>>
    \/ program = "tof" /\ Tof!Next
       /\ UNCHANGED <<program, vars, motorsVars, flowVars, runnerVars, appsVars, threadVars>>
    \/ program = "motors" /\ Mot!Next
       /\ UNCHANGED <<program, vars, tofVars, flowVars, runnerVars, appsVars, threadVars>>
    \/ program = "flow" /\ Flow!Next
       /\ UNCHANGED <<program, vars, tofVars, motorsVars, runnerVars, appsVars, threadVars>>
    \/ program = "exec" /\ Exec!Next
       /\ UNCHANGED <<program, vars, bringupVars, inferVars, appsVars, threadVars>>
    \/ program = "infer" /\ Infer!Next
       /\ UNCHANGED <<program, vars, bringupVars, execVars, appsVars, threadVars>>
    \/ program = "apps" /\ Apps!Next
       /\ UNCHANGED <<program, vars, bringupVars, runnerVars, threadVars>>
    \/ program = "threads" /\ Thr!Next
       /\ UNCHANGED <<program, vars, bringupVars, runnerVars, appsVars, stripVars>>
    \/ program = "strip" /\ Strips!Next
       /\ UNCHANGED <<program, vars, bringupVars, runnerVars, appsVars, threadsVars>>

mcVars == <<program, vars, bringupVars, runnerVars, appsVars, threadVars>>

\* The fairness of ThreadPool and of MicroRosApps, where they run.
MCSpec ==
    /\ MCInit /\ [][MCNext]_mcVars
    /\ WF_vars(program = "pool" /\ MainStep) /\ SF_vars(program = "pool" /\ LockToPrint)
    /\ \A w \in Workers : /\ WF_vars(program = "pool" /\ Worker(w))
                          /\ SF_vars(program = "pool" /\ LockPrint(w))
    /\ WF_appsVars(program = "apps" /\ Apps!MainStart)
    /\ WF_appsVars(program = "apps" /\ Apps!MainJoin)
    /\ \A t \in Apps!Nodes : WF_appsVars(program = "apps" /\ Apps!ThreadStep(t))

-----------------------------------------------------------------------------
\* The thread pool's program comes to its end, and so does a micro-ROS image, whatever
\* fails during its set-up, once the agent answers.
ProgramsEnd ==
    /\ program = "pool" => Finishes
    /\ <>(program = "apps" => mainpc = "reboot")

\* TofBringup: wherever a boot is cut off, a sensor is at the default address or at its
\* own, where the next boot can find it, and a driver is answered by its own sensor alone;
\* a boot without a failed transfer gets through whatever the boots before it left behind;
\* and writing one enable of the expander leaves the others as they are.
Recovers ==
    /\ [](program = "tof" => Tof!Findable /\ Tof!CleanBootWorks)
    /\ [][program = "tof" => Tof!OneEnableStep]_mcVars

\* Motors: between commands all motors turn at the remembered throttle unless the last
\* command failed part of the way, the throttle is the number typed, at most 100, and
\* the bring-up spins one motor at a time.
MotorsAsTold ==
    program = "motors" => Mot!MotorsAgree /\ Mot!NumberAsTyped /\ Mot!OneMotorAtATime

\* FlowSensor: a sensor that is there is accepted by a boot without a failed transfer,
\* after which the whole register table is written; no motion is printed twice and none
\* is left out while no transfer fails.
FlowTrusted ==
    program = "flow" => Flow!AcceptedWhenClean /\ Flow!TableWritten /\ Flow!MotionAccounted

\* ExecutorRunner: an execution for which nothing was logged ran on inputs established
\* for it.
ExecSound == program = "exec" => Exec!QuietMeansFresh

\* The comment in RiscvMemoryAllocator::allocate (riscv_executor_runner.cpp:182-183): what
\* the runner counts as used is "in sync" with what the pool's allocator has handed out.
UsedInSync == program = "exec" => Exec!UsedInSync

\* InferenceRunners: no call is made on an object that was released, no buffer view
\* outlives its device, and what a run created is released at its end.
LifetimesSound ==
    program = "infer" =>
        /\ Infer!NoUseAfterRelease /\ Infer!ViewsWithinDevice
        /\ Infer!NothingLeftBehind /\ Infer!OperatorDeleted

\* MicroRosApps: the sessions of micro_ros_local, opened by two threads at the same time,
\* are each on their own queue of the loopback transport, and node_a receives pongs only
\* for pings that it sent, in their order.
AppsSound == program = "apps" => Apps!SessionsApart /\ Apps!PongsAnswerPings

\* ThreadSamples: main reports when every thread it started has ended, a thread works
\* under its own id, no two are in the middle of their lines, and what a thread stores
\* after it has yielded is what it loaded.
ThreadsSound ==
    program = "threads" =>
        Thr!ReportsAfterAll /\ Thr!OwnId /\ Thr!LinesWhole /\ Thr!VectorKept

\* StripMine: every operation of the vector library gives the result of its definition,
\* whatever strip lengths the hardware chooses, and the product is the same with and
\* without tiles.
MatlibMatches == program = "strip" => Strips!ResultsMatch /\ Strips!ProductMatches
=============================================================================
