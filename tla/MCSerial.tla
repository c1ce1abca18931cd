------------------------------- MODULE MCSerial --------------------------------
(***************************************************************************)
(* samples/drone_control: one of its programs runs.                        *)
(*   "binary"  SerialHil, the binary protocol                              *)
(*   "text"    SerialText, the text protocol                               *)
(*   "setup"   SolverSetup, what the programs do before and around solving *)
(* The variables of SerialHil keep their initial values while another      *)
(* runs, those of the others are Idle.                                     *)
(***************************************************************************)
EXTENDS MCSerialHil

CONSTANTS MAX_STATES, STEPS, NHORIZON, CYCLES

\* Each count is one of something; a horizon has a second column, which main_tracking.cpp
\* compares with.
ASSUME SerialAssumption ==
    /\ {NUM_DRONES, NSTATES, HDR_LEN, ACT_BYTES, NS_BYTES, STEPS, CYCLES} \subseteq Nat \ {0}
    /\ {MAX_PACKETS, MAX_LOSS, MAX_STATES, MAX_COUNT} \subseteq Nat /\ CPUS \subseteq Nat \ {0}
    /\ NHORIZON \in Nat /\ NHORIZON >= 2
    /\ Setups \subseteq {"binary", "echo"} \X {"console", "hil"}

Idle == 0

VARIABLES
    running,
    \* SerialText
    tfw, tfleet, tline, tlost, mpc, mid, mstate, mj, tobs, start_sem, twpc, tcur, twj,
    tmutex, tout, hnext, pending, sentState, acted, misread,
    \* SolverSetup
    sprog, spc, sk, mat, matT, x0, x, Xref, duals, error, best, worst, sum, all

textVars ==
    <<tfw, tfleet, tline, tlost, mpc, mid, mstate, mj, tobs, start_sem, twpc, tcur, twj,
      tmutex, tout, hnext, pending, sentState, acted, misread>>
setupVars == <<sprog, spc, sk, mat, matT, x0, x, Xref, duals, error, best, worst, sum, all>>

Text  == INSTANCE SerialText
Setup == INSTANCE SolverSetup

TextIdle ==
    /\ tfw = Idle /\ tfleet = Idle /\ tline = Idle /\ tlost = Idle /\ mpc = Idle /\ mid = Idle
    /\ mstate = Idle /\ mj = Idle /\ tobs = Idle /\ start_sem = Idle /\ twpc = Idle
    /\ tcur = Idle /\ twj = Idle /\ tmutex = Idle /\ tout = Idle /\ hnext = Idle
    /\ pending = Idle /\ sentState = Idle /\ acted = Idle /\ misread = Idle
SetupIdle ==
    /\ sprog = Idle /\ spc = Idle /\ sk = Idle /\ mat = Idle /\ matT = Idle /\ x0 = Idle
    /\ x = Idle /\ Xref = Idle /\ duals = Idle /\ error = Idle /\ best = Idle /\ worst = Idle
    /\ sum = Idle /\ all = Idle

\* What SerialHil starts with while it does not run.
HilIdle == firmware = "echo" /\ host = "console" /\ fleet = 1 /\ cpus = CHOOSE n \in CPUS : TRUE

MCInit ==
    /\ running \in {"binary", "text", "setup"}
    /\ Init /\ (running # "binary" => HilIdle)
    /\ IF running = "text" THEN Text!Init ELSE TextIdle
    /\ IF running = "setup" THEN Setup!Init ELSE SetupIdle

MCNext ==
    \/ running = "binary" /\ Next /\ UNCHANGED <<running, textVars, setupVars>>
    \/ running = "text" /\ Text!Next /\ UNCHANGED <<running, serialVars, setupVars>>
    \/ running = "setup" /\ Setup!Next /\ UNCHANGED <<running, serialVars, textVars>>

\* The fairness of SerialHil, where it runs.
MCSpec ==
    /\ MCInit /\ [][MCNext]_<<running, serialVars, textVars, setupVars>>
    /\ WF_serialVars(running = "binary" /\ Main)
    /\ \A d \in Drones : WF_serialVars(running = "binary" /\ OwnHart(d) /\ Worker(d))

-----------------------------------------------------------------------------
\* SerialHil: no state that main stored is overlooked by its worker, and a host that looks
\* for the header reads every response whole.
LineSound == NoStateLost /\ ActionsDecoded

\* SerialText: a worker of main_mt.cpp solves one state, not parts of two, while no line was
\* accepted with another drone's id; the action that the host applies is for the state it
\* sent last, while no damaged line or cut action passed for a good one; and board and host
\* wait for each other only after a line was damaged or cut.
TextSound ==
    running = "text" => Text!StateWhole /\ Text!ActionIsCurrent /\ Text!StallNeedsLoss

\* SolverSetup: each transposed copy that a program makes is that of the matrix as it is
\* when it solves, the tracking error compares plant and reference of the same step, and
\* the benchmark's best, worst and average are about all runs.
SetupSound ==
    running = "setup" => Setup!CopiesAgree /\ Setup!ErrorOfItsStep /\ Setup!ReportCoversRuns
=============================================================================
