---------------------------- MODULE MCControllers -----------------------------
(***************************************************************************)
(* The controllers and the parts of them that are modelled on their own.   *)
(* One of them is what runs:                                               *)
(*   "nav"        NavControl, the threads of rose_nav_controller           *)
(*   "loop"       NavLoop, its single-loop build                           *)
(*   "fused"      FusedLoop, rose_fused_mpc and rose_fused_nav             *)
(*   "sensors"    FlightSensors, the sensors of rose_flight_controller     *)
(*   "estimator"  Estimator, the arithmetic of its estimators              *)
(*   "attitude"   AttitudeEstimator, the estimator of flight_controller    *)
(* The variables of NavControl keep their initial values while another     *)
(* runs, those of the others are Idle.                                     *)
(***************************************************************************)
EXTENDS NavControl, Integers

CONSTANTS LOOP_ITERS, SETTLE_ITERS, RAMP_ITERS, TOF_TRIES, INFER,
          FUSED_VISION_DIV, FRONT_WORDS, MAX_ROWS,
          TOF_FETCH_PERIOD_MS, MAX_TICK, MAX_RESETS,
          DT, Gravity, Component, Variances, Readings, PERIOD, MAX_TIME

ASSUME ControllersAssumption ==
    /\ LOOP_ITERS \in Nat /\ SETTLE_ITERS \in Nat /\ RAMP_ITERS \in Nat /\ INFER \in Nat
    /\ FRONT_WORDS \in Nat /\ MAX_ROWS \in Nat
    /\ TOF_FETCH_PERIOD_MS \in Nat /\ MAX_TICK \in Nat /\ PERIOD \in Nat /\ MAX_TIME \in Nat

ASSUME EstimatorAssumption ==
    DT \in Nat /\ Gravity \in Int /\ Component \subseteq Int /\ Variances \subseteq Nat /\ Readings \subseteq Int

\* What is checked.
Components == -1 .. 1
Measured   == {-1, 0, 2}

Idle == 0

VARIABLES
    part,
    \* NavLoop
    build, npc, niter, walls, cam, tries, init_z, est_z, g_target_z, nframe, nstate, g_out,
    heldVision, setpoint, solvedAt, now, g_last_send, g_max_send_gap, g_send_n, sendTimes,
    \* FusedLoop
    prog, camera_, fpc, fiter, rest, total, rows, channel1, channel2, front, tof, lowdim,
    misalign, output, valid, attitude, command,
    \* FlightSensors
    resets, bpc, regs, tofdev, todo, done, rc, siter, now_ms, tof_next_ms, tof_last_h,
    tof_have, frame, measuredAt, fetchedAt,
    \* Estimator
    filter, axis, q, gyro, accel, kf, before, aw, stage, meas, lead,
    \* AttitudeEstimator
    apc, epc, estimator_running, attitude_mutex, clock, last_time, dt, wake, round,
    current_attitude, got, yaw, lost, alive

loopVars ==
    <<build, npc, niter, walls, cam, tries, init_z, est_z, g_target_z, nframe, nstate, g_out,
      heldVision, setpoint, solvedAt, now, g_last_send, g_max_send_gap, g_send_n, sendTimes>>
fusedVars ==
    <<prog, camera_, fpc, fiter, rest, total, rows, channel1, channel2, front, tof, lowdim,
      misalign, output, valid, attitude, command>>
sensorVars ==
    <<resets, bpc, regs, tofdev, todo, done, rc, siter, now_ms, tof_next_ms, tof_last_h,
      tof_have, frame, measuredAt, fetchedAt>>
axisVars == <<filter, axis, q, gyro, accel, kf, before, aw, stage, meas, lead>>
attitudeVars ==
    <<apc, epc, estimator_running, attitude_mutex, clock, last_time, dt, wake, round,
      current_attitude, got, yaw, lost, alive>>

Loop    == INSTANCE NavLoop WITH CTRL_ITERS <- LOOP_ITERS, g_vision <- heldVision
Fused   == INSTANCE FusedLoop WITH camera <- camera_
Sensors == INSTANCE FlightSensors WITH fiter <- siter
Axis    == INSTANCE Estimator WITH vpc <- stage
Att     == INSTANCE AttitudeEstimator

LoopIdle ==
    /\ build = Idle /\ npc = Idle /\ niter = Idle /\ walls = Idle /\ cam = Idle /\ tries = Idle
    /\ init_z = Idle /\ est_z = Idle /\ g_target_z = Idle /\ nframe = Idle /\ nstate = Idle
    /\ g_out = Idle /\ heldVision = Idle /\ setpoint = Idle /\ solvedAt = Idle /\ now = Idle
    /\ g_last_send = Idle /\ g_max_send_gap = Idle /\ g_send_n = Idle /\ sendTimes = Idle
FusedIdle ==
    /\ prog = Idle /\ camera_ = Idle /\ fpc = Idle /\ fiter = Idle /\ rest = Idle /\ total = Idle
    /\ rows = Idle /\ channel1 = Idle /\ channel2 = Idle /\ front = Idle /\ tof = Idle /\ lowdim = Idle
    /\ misalign = Idle /\ output = Idle /\ valid = Idle /\ attitude = Idle /\ command = Idle
SensorsIdle ==
    /\ resets = Idle /\ bpc = Idle /\ regs = Idle /\ tofdev = Idle /\ todo = Idle /\ done = Idle
    /\ rc = Idle /\ siter = Idle /\ now_ms = Idle /\ tof_next_ms = Idle /\ tof_last_h = Idle
    /\ tof_have = Idle /\ frame = Idle /\ measuredAt = Idle /\ fetchedAt = Idle
AxisIdle ==
    /\ filter = Idle /\ axis = Idle /\ q = Idle /\ gyro = Idle /\ accel = Idle /\ kf = Idle
    /\ before = Idle /\ aw = Idle /\ stage = Idle /\ meas = Idle /\ lead = Idle
AttIdle ==
    /\ apc = Idle /\ epc = Idle /\ estimator_running = Idle /\ attitude_mutex = Idle
    /\ clock = Idle /\ last_time = Idle /\ dt = Idle /\ wake = Idle /\ round = Idle
    /\ current_attitude = Idle /\ got = Idle /\ yaw = Idle /\ lost = Idle /\ alive = Idle

Parts == {"nav", "loop", "fused", "sensors", "estimator", "attitude"}

MCInit ==
    /\ part \in Parts
    /\ Init
    /\ IF part = "loop" THEN Loop!Init ELSE LoopIdle
    /\ IF part = "fused" THEN Fused!Init ELSE FusedIdle
    /\ IF part = "sensors" THEN Sensors!Init ELSE SensorsIdle
    /\ IF part = "estimator" THEN Axis!Init ELSE AxisIdle
    /\ IF part = "attitude" THEN Att!Init ELSE AttIdle

MCNext ==
    /\ UNCHANGED part
    /\ \/ part = "nav" /\ Next
          /\ UNCHANGED <<loopVars, fusedVars, sensorVars, axisVars, attitudeVars>>
       \/ part = "loop" /\ Loop!Next
          /\ UNCHANGED <<vars, fusedVars, sensorVars, axisVars, attitudeVars>>
       \/ part = "fused" /\ Fused!Next
          /\ UNCHANGED <<vars, loopVars, sensorVars, axisVars, attitudeVars>>
       \/ part = "sensors" /\ Sensors!Next
          /\ UNCHANGED <<vars, loopVars, fusedVars, axisVars, attitudeVars>>
       \/ part = "estimator" /\ Axis!Next
          /\ UNCHANGED <<vars, loopVars, fusedVars, sensorVars, attitudeVars>>
       \/ part = "attitude" /\ Att!Next
          /\ UNCHANGED <<vars, loopVars, fusedVars, sensorVars, axisVars>>

mcVars == <<part, vars, loopVars, fusedVars, sensorVars, axisVars, attitudeVars>>

\* The fairness of NavControl, where it runs.
MCSpec ==
    /\ MCInit /\ [][MCNext]_mcVars
    /\ WF_vars(part = "nav" /\ ctrl_timer_fn) /\ WF_vars(part = "nav" /\ ctrl_block)
    /\ SF_vars(part = "nav" /\ ReadSteer)
    /\ WF_vars(part = "nav" /\ vision_block) /\ SF_vars(part = "nav" /\ PublishSteer)

-----------------------------------------------------------------------------
\* NavControl: vision_block gives the frame buffer back, also when a frame cannot be
\* used, and the control loop gets through all its iterations.
NavLive == VisionReleases /\ (part = "nav" => Finishes)

\* NavLoop: whichever way the first range measurement ended and whichever iterations were
\* given up, the hover target is the altitude that the estimator started from, a command
\* is solved from this iteration's frame, g_max_send_gap is the longest time between two
\* commands, and the reference of solve_nav never steps back and never moves faster than
\* the iterations pass.
LoopSound ==
    /\ [](part = "loop" => Loop!HoverHoldsSpawn /\ Loop!StateFresh /\ Loop!SendGapMeasured)
    /\ [][part = "loop" => Loop!RampStep]_mcVars

\* FusedLoop: whatever failed before, the fused model is run only on inputs that were all
\* read in this iteration, but for those of a channel that a short answer or a failed row
\* has put out of step; in step, the camera's rows are read to the last; and no command
\* mixes the outputs and the bearing of two runs of the model.
NothingMixed ==
    part = "fused" => Fused!InputsOfOneIteration /\ Fused!HeldTogether /\ Fused!FrameDrained

\* FlightSensors: wherever an earlier boot was cut off, a ToF sensor that
\* board_sensor_init reports as powered was reset in this boot; a height passed on as
\* valid is the newest one measured in it, the sensor is asked once in a ranging period,
\* and the expander's other pins are left alone.
TofTrusted ==
    /\ [](part = "sensors" =>
            Sensors!CleanBoot /\ Sensors!HeightMeasured /\ Sensors!PolledAtItsRate)
    /\ [][part = "sensors" => Sensors!OtherPinsStep]_mcVars

\* Estimator: the filters of the flight controller.  Kf3's covariance stays one and is the
\* one of F P F^T + Q after predict, a measurement draws the state towards itself and
\* never past itself, and get_state reports the filter's own prediction.
KalmanSound ==
    part = "estimator" =>
        Axis!CovarianceSound /\ Axis!DrawnToMeasurement /\ Axis!LeadIsPrediction

\* Estimator: the attitude's matrix, written out by hand, is a rotation with the trim's up
\* vector in it, and the accelerometer corrects the tilt and never the heading.
RotationSound == part = "estimator" => Axis!RotationProper /\ Axis!TrimKeepsHeading

\* AttitudeEstimator: an attitude that is read has its three angles from one round, all
\* the time the thread has run is integrated once or accounted for as lost, also over a
\* stop, and its stack is never given to a second thread.
AttitudeAccounted ==
    /\ [](part = "attitude" => Att!AttitudeWhole /\ Att!TimeAccounted)
    /\ [][part = "attitude" => Att!OneThreadStep]_mcVars
=============================================================================
