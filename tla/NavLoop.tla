------------------------------- MODULE NavLoop -------------------------------
(***************************************************************************)
(* The single-loop build of samples/rose_nav_controller/src/main.cpp       *)
(* (ROSE_THREADED = 0): the setup in main, then one iteration after        *)
(* another that reads the sensors, runs the estimator, in the DroNet build *)
(* every VISION_DIV-th time also captures and infers a camera frame        *)
(* inline, solves and sends.  A reading, an estimate and an output are     *)
(* named by the iteration they come from, 0 for none.                      *)
(*                                                                         *)
(* `build' is what was compiled: the waypoint, the velocity or the DroNet  *)
(* reference, the first also on the simulator's true state (ROSE_GT_STATE).*)
(* Time is counted in iterations; an inference takes INFER more.           *)
(***************************************************************************)
EXTENDS Integers, Sequences

CONSTANTS CTRL_ITERS, VISION_DIV, SETTLE_ITERS, RAMP_ITERS, TOF_TRIES, INFER

Builds == {"waypoint", "velocity", "dronet", "truth"}

VARIABLES
    build, npc, niter,
    walls, cam,                  \* g_have_walls; the camera is ready
    tries, init_z, est_z, g_target_z,
    nframe, nstate,              \* the frame read; the state: its first and its last words
    g_out, g_vision,             \* g_cam_out and the held command
    setpoint, solvedAt,          \* the forward reference; the iteration it was solved in
    now, g_last_send, g_max_send_gap, g_send_n,
    sendTimes                    \* history: when commands were sent

setup  == <<walls, cam, tries, init_z, est_z, g_target_z>>
sense  == <<nframe, nstate>>
vision == <<g_out, g_vision>>
solved == <<setpoint, solvedAt>>
gaps   == <<g_last_send, g_max_send_gap, g_send_n, sendTimes>>
navVars == <<build, npc, niter, setup, sense, vision, solved, now, gaps>>

Init ==
    /\ build \in Builds /\ npc = "imu" /\ niter = 0
    /\ walls = FALSE /\ cam = FALSE
    /\ tries = 0 /\ init_z = "start" /\ est_z = "none" /\ g_target_z = "target"
    /\ nframe = 0 /\ nstate = <<0, 0>>
    /\ g_out = 0 /\ g_vision = 0
    /\ setpoint = 0 /\ solvedAt = 0
    /\ now = 0 /\ g_last_send = 0 /\ g_max_send_gap = 0 /\ g_send_n = 0 /\ sendTimes = <<>>

-----------------------------------------------------------------------------
(* main, up to the loop *)

ImuNotReady ==
    /\ npc = "imu" /\ npc' = "end"
    /\ UNCHANGED <<build, niter, setup, sense, vision, solved, now, gaps>>

\* The IMU is ready; the four wall sensors are or are not, and so is the
\* downward ToF, which is asked for a first measurement if it is.
DevicesReady ==
    /\ npc = "imu"
    /\ walls' \in BOOLEAN
    /\ npc' \in {"range", "target"}
    /\ UNCHANGED <<build, niter, cam, tries, init_z, est_z, g_target_z, sense, vision, solved,
                   now, gaps>>

\* The driver decimates: a fetch may yield nothing, and is tried again.
RangeAgain ==
    /\ npc = "range"
    /\ tries' = tries + 1
    /\ npc' = IF tries + 1 < TOF_TRIES THEN "range" ELSE "target"
    /\ UNCHANGED <<build, niter, walls, cam, init_z, est_z, g_target_z, sense, vision, solved,
                   now, gaps>>

Ranged ==
    /\ npc = "range"
    /\ init_z' \in {"start", "measured"}      \* sensor_channel_get may fail
    /\ npc' = "target"
    /\ UNCHANGED <<build, niter, walls, cam, tries, est_z, g_target_z, sense, vision, solved,
                   now, gaps>>

\* est.init, the hover target, and the DroNet camera, which may not be ready.
InitEstimator ==
    /\ npc = "target"
    /\ est_z' = init_z /\ g_target_z' = init_z
    /\ cam' \in (IF build = "dronet" THEN BOOLEAN ELSE {FALSE})
    /\ npc' = "read" /\ now' = 1
    /\ UNCHANGED <<build, niter, walls, tries, init_z, sense, vision, solved, gaps>>

-----------------------------------------------------------------------------
(* The loop *)

EndIteration ==
    /\ niter' = niter + 1
    /\ npc' = IF niter + 1 < CTRL_ITERS THEN "read" ELSE "end"
    /\ now' = now + 1

FetchError ==
    /\ npc = "read" /\ build # "truth"
    /\ EndIteration
    /\ UNCHANGED <<build, setup, sense, vision, solved, gaps>>

\* run_estimator: the whole state is the estimate of frame f.
RunEstimator(f) == <<f, f>>

\* read_nav_frame succeeds and run_estimator follows.
ReadNavFrame ==
    /\ npc = "read" /\ build # "truth"
    /\ nframe' = niter + 1
    /\ nstate' = RunEstimator(nframe')
    /\ npc' = IF cam /\ niter % VISION_DIV = 0 THEN "capture" ELSE "solve"
    /\ UNCHANGED <<build, niter, setup, vision, solved, now, gaps>>

\* The true state: only the words that arrived are replaced.
ReadTruth ==
    /\ npc = "read" /\ build = "truth"
    /\ nstate' \in {nstate, <<niter + 1, nstate[2]>>, <<niter + 1, niter + 1>>}
    /\ npc' = "solve"
    /\ UNCHANGED <<build, niter, setup, nframe, vision, solved, now, gaps>>

CaptureError ==
    /\ npc = "capture"
    /\ npc' = "solve"
    /\ UNCHANGED <<build, niter, setup, sense, vision, solved, now, gaps>>

\* capture_frame, vision_infer and the held command.  When the frame cannot be
\* preprocessed, the outputs of the inference before are published again.
CaptureInfer ==
    /\ npc = "capture"
    /\ \/ g_out' = niter + 1 /\ now' = now + INFER
       \/ UNCHANGED <<g_out, now>>
    /\ g_vision' = g_out'
    /\ npc' = "solve"
    /\ UNCHANGED <<build, niter, setup, sense, solved, gaps>>

\* Mutant of Ramp: the ramp is not held at its end.
RampUnbounded(i) == IF i > SETTLE_ITERS THEN i - SETTLE_ITERS ELSE 0

\* The ramped reference, in units of 1 / RAMP_ITERS of its final value.
Ramp(i) ==
    IF i <= SETTLE_ITERS THEN 0
    ELSE IF i - SETTLE_ITERS > RAMP_ITERS THEN RAMP_ITERS ELSE i - SETTLE_ITERS

\* solve_nav: the DroNet build holds still until it has settled and then goes at
\* the speed that the held collision estimate allows.
SolveNav ==
    /\ npc = "solve"
    /\ setpoint' = IF build # "dronet" THEN Ramp(niter)
                   ELSE IF niter <= SETTLE_ITERS THEN 0 ELSE g_vision
    /\ solvedAt' = niter
    /\ npc' = "send"
    /\ UNCHANGED <<build, niter, setup, sense, vision, now, gaps>>

\* send_control and track_send_gap
SendControl ==
    /\ npc = "send"
    /\ g_max_send_gap' = IF g_last_send # 0 /\ now - g_last_send > g_max_send_gap
                         THEN now - g_last_send ELSE g_max_send_gap
    /\ g_last_send' = now /\ g_send_n' = g_send_n + 1
    /\ sendTimes' = Append(sendTimes, now)
    /\ EndIteration
    /\ UNCHANGED <<build, setup, sense, vision, solved>>

Next ==
    \/ ImuNotReady \/ DevicesReady \/ RangeAgain \/ Ranged \/ InitEstimator
    \/ FetchError \/ ReadNavFrame \/ ReadTruth \/ CaptureError \/ CaptureInfer
    \/ SolveNav \/ SendControl

-----------------------------------------------------------------------------
\* The hover target is the altitude that the estimator started from, so that the
\* first error is zero, whichever way the measurement in main ended.
HoverHoldsSpawn == npc \in {"read", "capture", "solve", "send"} => g_target_z = est_z

\* A command is solved from the estimate of this iteration's frame, also after
\* iterations that were given up.
StateFresh == npc = "send" /\ build # "truth" => nstate = <<niter + 1, niter + 1>>

\* The waypoint and the velocity reference never step back, never move faster
\* than the iterations pass, those that are skipped included, and stay in range.
RampStep ==
    build \in {"waypoint", "velocity"} =>
        setpoint' \in setpoint .. RAMP_ITERS /\ setpoint' - setpoint <= solvedAt' - solvedAt

\* g_max_send_gap is the longest time between two commands: skipped iterations and
\* inline inferences are in it.
SendGapMeasured ==
    /\ g_send_n = Len(sendTimes)
    /\ \A i \in 1 .. Len(sendTimes) - 1 : sendTimes[i + 1] - sendTimes[i] <= g_max_send_gap
=============================================================================
