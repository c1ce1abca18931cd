------------------------------ MODULE FusedLoop ------------------------------
(***************************************************************************)
(* The two programs that fly on the fused model.                           *)
(*                                                                         *)
(* "mpc": samples/rose_fused_mpc/src/main.cpp with ROSE_FUSED_NAV = 1,     *)
(* whose loop holds the model's command between runs, every                *)
(* FUSED_VISION_DIV-th iteration, and solves and sends in every one.       *)
(* "nav": samples/rose_fused_nav/src/main.cpp, which reads all three       *)
(* inputs in every iteration and sends what the model says.                *)
(*                                                                         *)
(* The camera frame comes by DMA or, with FMPC_CAM_REQRSP, in rows over    *)
(* request channel 1, which the ToF answers share; the state vector comes   *)
(* over channel 2.  An answer that is given up half-way leaves its other   *)
(* words in the channel, and nothing ever reads them off: every later      *)
(* answer is then read shifted.  A reading is named by the iteration it    *)
(* was taken in, 0 for none.                                               *)
(***************************************************************************)
EXTENDS Naturals

CONSTANTS CTRL_ITERS, FUSED_VISION_DIV, SETTLE_ITERS,
          FRONT_WORDS,   \* words in a camera frame
          MAX_ROWS       \* rows that a frame may come in

Garbage == CTRL_ITERS + 1 \* what is read from a channel that is out of step

VARIABLES
    prog, camera, fpc, fiter,
    rest, total, rows,           \* the camera's rows: words to come, words read, rows read
    channel1, channel2,          \* is the next word the first one of the next answer?
    front, tof, lowdim,          \* the model's inputs
    misalign, output, valid,     \* g_misalign; g_yr and g_fwd; g_vision_valid
    attitude,                    \* the estimate in the input and in the solver
    command                      \* what the last command was solved from

rowVars == <<rest, total, rows, channel1, channel2>>
inputs  == <<front, tof, lowdim>>
held    == <<misalign, output, valid>>
fusedVars == <<prog, camera, fpc, fiter, rowVars, inputs, held, attitude, command>>

None == [misalign |-> 0, output |-> 0]

Init ==
    /\ prog \in {"mpc", "nav"}
    /\ camera \in (IF prog = "mpc" THEN {"dma", "reqrsp"} ELSE {"dma"})
    /\ fpc = "ready" /\ fiter = 0
    /\ rest = 0 /\ total = 0 /\ rows = 0
    /\ channel1 = "in step" /\ channel2 = "in step"
    /\ front = 0 /\ tof = 0 /\ lowdim = 0
    /\ misalign = 0 /\ output = 0 /\ valid = FALSE
    /\ attitude = 0 /\ command = None

-----------------------------------------------------------------------------
\* The IMU or the camera, the adapter or the camera, may not be ready.
NotReady ==
    /\ fpc = "ready" /\ fpc' = "end"
    /\ UNCHANGED <<prog, camera, fiter, rowVars, inputs, held, attitude, command>>

Ready ==
    /\ fpc = "ready" /\ fpc' = "sense"
    /\ UNCHANGED <<prog, camera, fiter, rowVars, inputs, held, attitude, command>>

EndIteration ==
    /\ fiter' = fiter + 1
    /\ fpc' = IF fiter + 1 < CTRL_ITERS THEN "sense" ELSE "end"

\* read_nav_frame fails
FetchError ==
    /\ fpc = "sense" /\ prog = "mpc"
    /\ EndIteration
    /\ UNCHANGED <<prog, camera, rowVars, inputs, held, attitude, command>>

\* read_nav_frame and run_estimator; is this an iteration for the model?
Estimate ==
    /\ fpc = "sense" /\ prog = "mpc"
    /\ attitude' = fiter + 1
    /\ fpc' = IF fiter % FUSED_VISION_DIV = 0 THEN "front" ELSE "solve"
    /\ UNCHANGED <<prog, camera, fiter, rowVars, inputs, held, command>>

NoEstimator ==
    /\ fpc = "sense" /\ prog = "nav"
    /\ fpc' = "front"
    /\ UNCHANGED <<prog, camera, fiter, rowVars, inputs, held, attitude, command>>

(* The camera frame, fmpc_capture_front and capture_front *)

\* Where the loop goes on when an input could not be read: the MPC solves with the
\* held command; the navigator reads the other inputs too, and then gives up.
AfterFailure(next) == IF prog = "mpc" THEN "solve" ELSE next

CaptureDma ==
    /\ fpc = "front" /\ camera = "dma"
    /\ front' = fiter + 1 /\ fpc' = "tof"
    /\ UNCHANGED <<prog, camera, fiter, rowVars, tof, lowdim, held, attitude, command>>

CaptureDmaError ==
    /\ fpc = "front" /\ camera = "dma"
    /\ fpc' = AfterFailure("tof lost")
    /\ UNCHANGED <<prog, camera, fiter, rowVars, inputs, held, attitude, command>>

\* One request; the synchronizer answers with the frame in rows.
RequestRows ==
    /\ fpc = "front" /\ camera = "reqrsp"
    /\ rest' = FRONT_WORDS /\ total' = 0 /\ rows' = 0
    /\ fpc' = "row"
    /\ UNCHANGED <<prog, camera, fiter, channel1, channel2, inputs, held, attitude, command>>

\* A row: its header, its length and that many words.  What is in the buffer until
\* the last row is in is a mixture of two frames; after MAX_ROWS rows the rest is
\* left in the channel.
ReadRow ==
    /\ fpc = "row" /\ channel1 = "in step"
    /\ \E nw \in 1 .. rest :
          /\ total' = total + nw /\ rest' = rest - nw /\ rows' = rows + 1
          /\ front' = IF total' >= FRONT_WORDS THEN fiter + 1 ELSE Garbage
          /\ fpc' = IF total' >= FRONT_WORDS THEN "tof"
                    ELSE IF rows' < MAX_ROWS THEN "row" ELSE "solve"
          /\ channel1' = IF fpc' = "solve" THEN "out of step" ELSE channel1
    /\ UNCHANGED <<prog, camera, fiter, channel2, tof, lowdim, held, attitude, command>>

\* rose_rx fails.  What the synchronizer still sends stays in the channel, and the
\* next answer is read from the middle of this one.
ReadRowError ==
    /\ fpc = "row" /\ channel1 = "in step"
    /\ channel1' = "out of step" /\ front' = Garbage
    /\ fpc' = "solve"
    /\ UNCHANGED <<prog, camera, fiter, rest, total, rows, channel2, tof, lowdim, held, attitude, command>>

\* Headers and lengths are now words of a frame: the read ends either way.
ReadRowOutOfStep ==
    /\ fpc = "row" /\ channel1 = "out of step"
    /\ front' = Garbage
    /\ fpc' \in {"tof", "solve"}
    /\ UNCHANGED <<prog, camera, fiter, rowVars, tof, lowdim, held, attitude, command>>

(* fmpc_read_tof and read_tof_cross; fmpc_read_lowdim and read_lowdim *)

\* What is read as an answer: this iteration's, or words of several answers.
Answer(channel) == IF channel = "in step" THEN fiter + 1 ELSE Garbage

\* A short answer: the synchronizer sent fewer words, or rose_recv_reqrsp gave up and
\* the others are still to come.  A channel that is out of step stays so.
AfterShort(channel) == IF channel = "in step" THEN {"in step", "out of step"} ELSE {"out of step"}

ReadTof ==
    /\ fpc \in {"tof", "tof lost"}
    /\ \/ /\ tof' = Answer(channel1)
          /\ fpc' = IF fpc = "tof" THEN "lowdim" ELSE "lowdim lost"
          /\ UNCHANGED channel1
       \/ /\ channel1' \in AfterShort(channel1)
          /\ fpc' = AfterFailure("lowdim lost")
          /\ UNCHANGED tof
    /\ UNCHANGED <<prog, camera, fiter, rest, total, rows, channel2, front, lowdim, held,
                   attitude, command>>

\* Mutant of ReadLowdim: the bearing is taken from the answer before it is whole.
ReadLowdimEarly ==
    /\ fpc \in {"lowdim", "lowdim lost"}
    /\ misalign' = IF prog = "mpc" THEN fiter + 1 ELSE misalign
    /\ \/ /\ lowdim' = Answer(channel2)
          /\ fpc' = IF fpc = "lowdim" THEN "model" ELSE "lost"
          /\ UNCHANGED channel2
       \/ /\ channel2' \in AfterShort(channel2)
          /\ fpc' = AfterFailure("lost")
          /\ UNCHANGED lowdim
    /\ UNCHANGED <<prog, camera, fiter, rest, total, rows, channel1, front, tof, output, valid,
                   attitude, command>>

\* The bearing to the gate, g_misalign, is taken from the answer here.
ReadLowdim ==
    /\ fpc \in {"lowdim", "lowdim lost"}
    /\ \/ /\ lowdim' = Answer(channel2)
          /\ misalign' = IF prog = "mpc" THEN fiter + 1 ELSE misalign
          /\ fpc' = IF fpc = "lowdim" THEN "model" ELSE "lost"
          /\ UNCHANGED channel2
       \/ /\ channel2' \in AfterShort(channel2)
          /\ fpc' = AfterFailure("lost")
          /\ UNCHANGED <<lowdim, misalign>>
    /\ UNCHANGED <<prog, camera, fiter, rest, total, rows, channel1, front, tof, output, valid,
                   attitude, command>>

SenseError ==
    /\ fpc = "lost"
    /\ EndIteration
    /\ UNCHANGED <<prog, camera, rowVars, inputs, held, attitude, command>>

\* fmpc_run_model: the estimated attitude replaces the one in the input.
RunModel ==
    /\ fpc = "model"
    /\ output' = fiter + 1 /\ valid' = TRUE
    /\ fpc' = IF prog = "mpc" THEN "solve" ELSE "send"
    /\ UNCHANGED <<prog, camera, fiter, rowVars, inputs, misalign, attitude, command>>

\* solve_nav: the held command, slowed down by the bearing, once it has settled.
SolveNav ==
    /\ fpc = "solve"
    /\ command' = IF fiter > SETTLE_ITERS THEN [misalign |-> misalign, output |-> output] ELSE None
    /\ fpc' = "send"
    /\ UNCHANGED <<prog, camera, fiter, rowVars, inputs, held, attitude>>

\* send_control and send_action
Send ==
    /\ fpc = "send"
    /\ EndIteration
    /\ UNCHANGED <<prog, camera, rowVars, inputs, held, attitude, command>>

Next ==
    \/ NotReady \/ Ready \/ FetchError \/ Estimate \/ NoEstimator
    \/ CaptureDma \/ CaptureDmaError \/ RequestRows \/ ReadRow \/ ReadRowError \/ ReadRowOutOfStep
    \/ ReadTof \/ ReadLowdim \/ SenseError \/ RunModel \/ SolveNav \/ Send

-----------------------------------------------------------------------------
\* The model is run only on inputs that were all read in this iteration, whatever
\* failed in the ones before: the camera frame (by DMA always, in rows while channel 1
\* is in step), the ToF distances while channel 1 is in step, the state vector while
\* channel 2 is, and this iteration's attitude.  A channel out of step spoils its own
\* inputs only, but no later iteration notices.
InputsOfOneIteration ==
    fpc = "model" =>
        /\ camera = "dma" \/ channel1 = "in step" => front = fiter + 1
        /\ channel1 = "in step" => tof = fiter + 1
        /\ channel2 = "in step" => lowdim = fiter + 1
        /\ prog = "mpc" => attitude = fiter + 1

\* The yaw rate, the speed and the bearing that gates the speed are taken in the same
\* iteration: a command never mixes two runs of the model.
HeldTogether == prog = "mpc" => command.misalign = command.output

\* Each row read from the channel is a row of the frame that was asked for: the
\* channel is empty again when the frame is complete.
FrameDrained == camera = "reqrsp" /\ channel1 = "in step" /\ fpc = "tof" => rest = 0
=============================================================================
