--------------------------- MODULE ControllerProofs ---------------------------
(***************************************************************************)
(* What the controllers promise, proved for every number of iterations and *)
(* every value of their other constants: the fused loop, the single-loop   *)
(* and the threaded navigator, the flight controller's ToF sensor, the     *)
(* attitude estimator and the flight controller's filters.                 *)
(***************************************************************************)
EXTENDS MCControllers, TLAPS

-----------------------------------------------------------------------------
(* FusedLoop: the inductive invariant. *)

FusedStates == {"ready", "sense", "front", "row", "tof", "tof lost", "lowdim", "lowdim lost",
                "lost", "model", "solve", "send", "end"}

FusedTypes ==
    /\ prog \in {"mpc", "nav"} /\ camera_ \in {"dma", "reqrsp"} /\ fpc \in FusedStates
    /\ fiter \in Nat /\ rest \in Nat /\ total \in Nat
    /\ prog = "mpc" => fpc \notin {"tof lost", "lowdim lost", "lost"}
    /\ fpc = "row" => camera_ = "reqrsp"

\* The rows read and the rows to come are the frame.
RowsInv ==
    /\ fpc = "row" /\ channel1 = "in step" => rest + total = FRONT_WORDS
    /\ Fused!FrameDrained

\* Each input is of this iteration from where it is read to where the model is run.
FreshInv ==
    /\ prog = "mpc" /\ fpc \in {"front", "row", "tof", "lowdim", "model"} => attitude = fiter + 1
    /\ fpc \in {"tof", "lowdim", "model"} /\ (camera_ = "dma" \/ channel1 = "in step") =>
          front = fiter + 1
    /\ fpc \in {"lowdim", "model"} /\ channel1 = "in step" => tof = fiter + 1
    /\ fpc = "model" /\ channel2 = "in step" => lowdim = fiter + 1

\* The bearing is the one of the held output, but for the moment before the model runs.
HeldInv ==
    prog = "mpc" =>
        /\ misalign = IF fpc = "model" THEN fiter + 1 ELSE output
        /\ command.misalign = command.output

FusedInv == FusedTypes /\ RowsInv /\ FreshInv /\ HeldInv

\* The invariant of FusedLoop holds at the start.
LEMMA FusedStart == ASSUME Fused!Init PROVE FusedInv
  BY DEF Fused!Init, FusedInv, FusedTypes, FusedStates, RowsInv, FreshInv, HeldInv,
         Fused!FrameDrained, Fused!None

\* A row moves words from those to come to those read.
LEMMA RowCounts ==
    ASSUME NEW r \in Nat, NEW t \in Nat, NEW w \in Nat, NEW nw \in 1 .. r, r + t = w
    PROVE  /\ r - nw \in Nat /\ t + nw \in Nat /\ (r - nw) + (t + nw) = w
           /\ t + nw >= w => r - nw = 0
  OBVIOUS

\* A row is read.
LEMMA ReadRowKeeps == ASSUME FusedInv, Fused!ReadRow PROVE FusedInv'
  <1>1. PICK nw \in 1 .. rest :
          /\ total' = total + nw /\ rest' = rest - nw
          /\ front' = IF total' >= FRONT_WORDS THEN fiter + 1 ELSE Fused!Garbage
          /\ fpc' = IF total' >= FRONT_WORDS THEN "tof"
                    ELSE IF rows' < MAX_ROWS THEN "row" ELSE "solve"
          /\ channel1' = IF fpc' = "solve" THEN "out of step" ELSE channel1
    BY DEF Fused!ReadRow
  <1>2. /\ fpc = "row" /\ channel1 = "in step"
        /\ UNCHANGED <<prog, camera_, fiter, tof, lowdim, misalign, output, attitude, command>>
    BY DEF Fused!ReadRow, Fused!held
  <1>3. rest \in Nat /\ total \in Nat /\ FRONT_WORDS \in Nat /\ rest + total = FRONT_WORDS
    BY <1>2, ControllersAssumption DEF FusedInv, FusedTypes, RowsInv
  <1>4. /\ rest' \in Nat /\ total' \in Nat /\ rest' + total' = FRONT_WORDS
        /\ total' >= FRONT_WORDS => rest' = 0
    <2>1. total' = total + nw /\ rest' = rest - nw /\ nw \in 1 .. rest
      BY <1>1
    <2>2. /\ rest - nw \in Nat /\ total + nw \in Nat /\ (rest - nw) + (total + nw) = FRONT_WORDS
          /\ total + nw >= FRONT_WORDS => rest - nw = 0
      BY <1>3, RowCounts
    <2>. QED  BY <2>1, <2>2
  <1>5. \/ fpc' = "tof" /\ front' = fiter + 1 /\ rest' = 0 /\ channel1' = channel1
        \/ fpc' = "row" /\ channel1' = channel1
        \/ fpc' = "solve" /\ channel1' = "out of step"
    BY <1>1, <1>4
  <1>6. FusedTypes' /\ RowsInv'
    BY <1>2, <1>4, <1>5 DEF FusedInv, FusedTypes, FusedStates, RowsInv, Fused!FrameDrained
  <1>7. FreshInv' /\ HeldInv'
    BY <1>2, <1>5 DEF FusedInv, FreshInv, HeldInv
  <1>. QED  BY <1>6, <1>7 DEF FusedInv

\* Every step of FusedLoop keeps the invariant.
LEMMA FusedKeeps == ASSUME FusedInv, [Fused!Next]_fusedVars PROVE FusedInv'
  <1>. USE ControllersAssumption DEF FusedInv, FusedTypes, FusedStates, RowsInv, FreshInv, HeldInv,
           Fused!FrameDrained, Fused!rowVars, Fused!inputs, Fused!held
  <1>1. CASE Fused!NotReady
    BY <1>1 DEF Fused!NotReady
  <1>2. CASE Fused!Ready
    BY <1>2 DEF Fused!Ready
  <1>3. CASE Fused!FetchError
    BY <1>3 DEF Fused!FetchError, Fused!EndIteration
  <1>4. CASE Fused!Estimate
    BY <1>4 DEF Fused!Estimate
  <1>5. CASE Fused!NoEstimator
    BY <1>5 DEF Fused!NoEstimator
  <1>6. CASE Fused!CaptureDma
    BY <1>6 DEF Fused!CaptureDma
  <1>7. CASE Fused!CaptureDmaError
    BY <1>7 DEF Fused!CaptureDmaError, Fused!AfterFailure
  <1>8. CASE Fused!RequestRows
    BY <1>8 DEF Fused!RequestRows
  <1>9. CASE Fused!ReadRow
    BY <1>9, ReadRowKeeps
  <1>10. CASE Fused!ReadRowError
    BY <1>10 DEF Fused!ReadRowError
  <1>11. CASE Fused!ReadRowOutOfStep
    BY <1>11 DEF Fused!ReadRowOutOfStep
  <1>12. CASE Fused!ReadTof
    BY <1>12 DEF Fused!ReadTof, Fused!AfterFailure, Fused!AfterShort, Fused!Answer
  <1>13. CASE Fused!ReadLowdim
    BY <1>13 DEF Fused!ReadLowdim, Fused!AfterFailure, Fused!AfterShort, Fused!Answer
  <1>14. CASE Fused!SenseError
    BY <1>14 DEF Fused!SenseError, Fused!EndIteration
  <1>15. CASE Fused!RunModel
    BY <1>15 DEF Fused!RunModel
  <1>16. CASE Fused!SolveNav
    BY <1>16 DEF Fused!SolveNav, Fused!None
  <1>17. CASE Fused!Send
    BY <1>17 DEF Fused!Send, Fused!EndIteration
  <1>18. CASE UNCHANGED fusedVars
    BY <1>18 DEF fusedVars
  <1>. QED  BY <1>1, <1>2, <1>3, <1>4, <1>5, <1>6, <1>7, <1>8, <1>9, <1>10, <1>11, <1>12, <1>13, <1>14, <1>15, <1>16, <1>17, <1>18 DEF Fused!Next

\* Whatever failed before, the fused model is run only on inputs that were all read in
\* this iteration, but for those of a channel that a short answer or a failed row has put
\* out of step; in step, the camera's rows are read to the last; and no command mixes the
\* outputs and the bearing of two runs of the model: for any length of a frame and any
\* number of iterations.
THEOREM NothingIsMixed == MCSpec => []NothingMixed
  <1>. DEFINE FInv == part = "fused" => FusedInv
  <1>1. MCInit => FInv
    BY FusedStart DEF MCInit
  <1>2. FInv /\ [MCNext]_mcVars => FInv'
    <2>. SUFFICES ASSUME FInv, [MCNext]_mcVars, part' = "fused" PROVE FusedInv'
      OBVIOUS
    <2>1. part = "fused" /\ [Fused!Next]_fusedVars
      BY DEF MCNext, mcVars
    <2>. QED  BY <2>1, FusedKeeps
  <1>3. FInv => NothingMixed
    BY DEF NothingMixed, FusedInv, RowsInv, FreshInv, HeldInv, Fused!InputsOfOneIteration,
           Fused!HeldTogether
  <1>. QED  BY <1>1, <1>2, <1>3, PTL DEF MCSpec

-----------------------------------------------------------------------------
(* NavLoop: the inductive invariant. *)

LoopStates == {"imu", "range", "target", "read", "capture", "solve", "send", "end"}

LoopTypes ==
    /\ build \in Loop!Builds /\ npc \in LoopStates /\ niter \in Nat /\ now \in Nat
    /\ g_out \in Nat /\ heldVision \in Nat /\ solvedAt \in Nat
    /\ g_last_send \in Nat /\ g_max_send_gap \in Nat /\ g_send_n \in Nat /\ sendTimes \in Seq(Nat)

\* From the reading of a frame to the command the state is this iteration's estimate.
StateInv ==
    npc \in {"capture", "solve", "send"} /\ build # "truth" => nstate = <<niter + 1, niter + 1>>

\* The reference is the ramp's value in the iteration it was solved in.
RampInv ==
    /\ solvedAt <= niter
    /\ build # "dronet" => setpoint = Loop!Ramp(solvedAt)

\* The time of the last command is the last one in the history, and is not 0.
GapInv ==
    /\ npc \in {"read", "capture", "solve", "send"} => now >= 1
    /\ sendTimes # <<>> => g_last_send = sendTimes[Len(sendTimes)] /\ g_last_send # 0
    /\ Loop!SendGapMeasured

LoopInv == LoopTypes /\ Loop!HoverHoldsSpawn /\ StateInv /\ RampInv /\ GapInv

\* What the constants of the loop are.
LEMMA LoopConstants ==
    /\ SETTLE_ITERS \in Nat /\ RAMP_ITERS \in Nat /\ INFER \in Nat /\ LOOP_ITERS \in Nat
  BY ControllersAssumption

\* The ramp stays in range, never falls and never climbs faster than its argument.
LEMMA RampMoves ==
    ASSUME NEW x \in Nat, NEW y \in Nat, x <= y
    PROVE  /\ Loop!Ramp(x) \in Nat /\ Loop!Ramp(y) \in Nat /\ Loop!Ramp(x) <= Loop!Ramp(y)
           /\ Loop!Ramp(y) <= RAMP_ITERS /\ Loop!Ramp(y) - Loop!Ramp(x) <= y - x
  BY LoopConstants DEF Loop!Ramp

\* The invariant of NavLoop holds at the start.
LEMMA LoopStart == ASSUME Loop!Init PROVE LoopInv
  BY LoopConstants
     DEF Loop!Init, LoopInv, LoopTypes, LoopStates, Loop!HoverHoldsSpawn, StateInv, RampInv, GapInv,
         Loop!SendGapMeasured, Loop!Ramp

\* A command is sent: its gap to the one before is measured.
LEMMA SendControlKeeps == ASSUME LoopInv, Loop!SendControl PROVE LoopInv'
  <1>1. /\ npc = "send" /\ sendTimes' = Append(sendTimes, now) /\ g_last_send' = now
        /\ g_send_n' = g_send_n + 1 /\ niter' = niter + 1 /\ now' = now + 1
        /\ g_max_send_gap' = IF g_last_send # 0 /\ now - g_last_send > g_max_send_gap
                             THEN now - g_last_send ELSE g_max_send_gap
        /\ npc' \in {"read", "end"}
        /\ UNCHANGED <<build, est_z, g_target_z, nstate, g_out, heldVision, setpoint, solvedAt>>
    BY DEF Loop!SendControl, Loop!EndIteration, Loop!setup, Loop!sense, Loop!vision, Loop!solved
  <1>2. now \in Nat /\ now >= 1 /\ sendTimes \in Seq(Nat) /\ g_last_send \in Nat
        /\ g_max_send_gap \in Nat /\ g_send_n \in Nat /\ niter \in Nat /\ solvedAt \in Nat
    BY <1>1 DEF LoopInv, LoopTypes, GapInv
  <1>3. LoopTypes'
    BY <1>1, <1>2 DEF LoopInv, LoopTypes, LoopStates
  <1>4. Loop!HoverHoldsSpawn' /\ StateInv' /\ RampInv'
    BY <1>1, <1>2 DEF LoopInv, Loop!HoverHoldsSpawn, StateInv, RampInv, Loop!Ramp
  <1>5. /\ Len(sendTimes') = Len(sendTimes) + 1 /\ Len(sendTimes) \in Nat
        /\ sendTimes'[Len(sendTimes) + 1] = now /\ sendTimes' # <<>>
        /\ \A j \in 1 .. Len(sendTimes) : sendTimes'[j] = sendTimes[j] /\ sendTimes[j] \in Nat
    BY <1>1, <1>2
  <1>6. g_max_send_gap' \in Nat /\ g_max_send_gap' >= g_max_send_gap
    BY <1>1, <1>2
  <1>7. ASSUME NEW j \in 1 .. Len(sendTimes') - 1
        PROVE  sendTimes'[j + 1] - sendTimes'[j] <= g_max_send_gap'
    <2>1. CASE j < Len(sendTimes)
      <3>1. j \in 1 .. Len(sendTimes) - 1 /\ j \in 1 .. Len(sendTimes) /\ j + 1 \in 1 .. Len(sendTimes)
        BY <1>5, <2>1
      <3>2. sendTimes[j + 1] - sendTimes[j] <= g_max_send_gap
        BY <3>1 DEF LoopInv, GapInv, Loop!SendGapMeasured
      <3>3. sendTimes[j + 1] \in Nat /\ sendTimes[j] \in Nat
        BY <1>5, <3>1
      <3>. QED  BY <1>2, <1>5, <1>6, <3>1, <3>2, <3>3
    <2>2. CASE j = Len(sendTimes)
      <3>1. j \in 1 .. Len(sendTimes) /\ sendTimes # <<>>
        BY <1>2, <1>5, <2>2
      <3>2. g_last_send = sendTimes[j] /\ g_last_send # 0
        BY <2>2, <3>1 DEF LoopInv, GapInv
      <3>3. sendTimes'[j + 1] = now /\ sendTimes'[j] = g_last_send
        BY <1>5, <2>2, <3>1, <3>2
      <3>4. now - g_last_send <= g_max_send_gap'
        <4>1. g_max_send_gap' = IF g_last_send # 0 /\ now - g_last_send > g_max_send_gap
                                THEN now - g_last_send ELSE g_max_send_gap
          BY <1>1
        <4>. QED  BY <1>2, <3>2, <4>1
      <3>. QED  BY <3>3, <3>4
    <2>3. j < Len(sendTimes) \/ j = Len(sendTimes)
      <3>1. \A n \in Nat, c \in Nat : c = n + 1 => \A i \in 1 .. c - 1 : i < n \/ i = n
        OBVIOUS
      <3>2. Len(sendTimes) \in Nat /\ Len(sendTimes') \in Nat /\ Len(sendTimes') = Len(sendTimes) + 1
        BY <1>5
      <3>. QED  BY <3>1, <3>2, Zenon
    <2>. QED  BY <2>1, <2>2, <2>3
  <1>8. GapInv'
    <2>1. g_send_n' = Len(sendTimes')
      BY <1>1, <1>5 DEF LoopInv, GapInv, Loop!SendGapMeasured
    <2>2. now' >= 1 /\ g_last_send' = sendTimes'[Len(sendTimes')] /\ g_last_send' # 0
      BY <1>1, <1>2, <1>5
    <2>. QED  BY <1>7, <2>1, <2>2 DEF GapInv, Loop!SendGapMeasured
  <1>. QED  BY <1>3, <1>4, <1>8 DEF LoopInv

\* Every step of NavLoop keeps the invariant.
LEMMA LoopKeeps == ASSUME LoopInv, [Loop!Next]_loopVars PROVE LoopInv'
  <1>. USE LoopConstants DEF LoopInv, LoopTypes, LoopStates, Loop!HoverHoldsSpawn, StateInv, RampInv,
           GapInv, Loop!SendGapMeasured, Loop!setup, Loop!sense, Loop!vision, Loop!solved, Loop!gaps
  <1>1. CASE Loop!ImuNotReady
    BY <1>1 DEF Loop!ImuNotReady, Loop!Ramp
  <1>2. CASE Loop!DevicesReady
    BY <1>2 DEF Loop!DevicesReady, Loop!Ramp
  <1>3. CASE Loop!RangeAgain
    BY <1>3 DEF Loop!RangeAgain, Loop!Ramp
  <1>4. CASE Loop!Ranged
    BY <1>4 DEF Loop!Ranged, Loop!Ramp
  <1>5. CASE Loop!InitEstimator
    BY <1>5 DEF Loop!InitEstimator, Loop!Ramp
  <1>6. CASE Loop!FetchError
    BY <1>6 DEF Loop!FetchError, Loop!EndIteration, Loop!Ramp
  <1>7. CASE Loop!ReadNavFrame
    BY <1>7 DEF Loop!ReadNavFrame, Loop!RunEstimator, Loop!Ramp
  <1>8. CASE Loop!ReadTruth
    BY <1>8 DEF Loop!ReadTruth, Loop!Ramp
  <1>9. CASE Loop!CaptureError
    BY <1>9 DEF Loop!CaptureError, Loop!Ramp
  <1>10. CASE Loop!CaptureInfer
    BY <1>10 DEF Loop!CaptureInfer, Loop!Ramp
  <1>11. CASE Loop!SolveNav
    BY <1>11 DEF Loop!SolveNav
  <1>12. CASE Loop!SendControl
    BY <1>12, SendControlKeeps
  <1>13. CASE UNCHANGED loopVars
    BY <1>13 DEF loopVars, Loop!Ramp
  <1>. QED  BY <1>1, <1>2, <1>3, <1>4, <1>5, <1>6, <1>7, <1>8, <1>9, <1>10, <1>11, <1>12, <1>13 DEF Loop!Next

\* A step of NavLoop moves the reference as RampStep says.
LEMMA LoopRamps == ASSUME LoopInv, Loop!Next PROVE Loop!RampStep
  <1>. SUFFICES ASSUME build \in {"waypoint", "velocity"}
                PROVE  /\ setpoint' \in setpoint .. RAMP_ITERS
                       /\ setpoint' - setpoint <= solvedAt' - solvedAt
    BY DEF Loop!RampStep
  <1>1. /\ solvedAt \in Nat /\ niter \in Nat /\ solvedAt <= niter
        /\ setpoint = Loop!Ramp(solvedAt)
    BY DEF LoopInv, LoopTypes, RampInv
  <1>2. \/ setpoint' = setpoint /\ solvedAt' = solvedAt
        \/ setpoint' = Loop!Ramp(niter) /\ solvedAt' = niter
    BY DEF Loop!Next, Loop!ImuNotReady, Loop!DevicesReady, Loop!RangeAgain, Loop!Ranged,
           Loop!InitEstimator, Loop!FetchError, Loop!ReadNavFrame, Loop!ReadTruth,
           Loop!CaptureError, Loop!CaptureInfer, Loop!SolveNav, Loop!SendControl, Loop!solved
  <1>3. /\ setpoint \in Nat /\ setpoint <= RAMP_ITERS
        /\ Loop!Ramp(niter) \in Nat /\ Loop!Ramp(niter) <= RAMP_ITERS
        /\ setpoint <= Loop!Ramp(niter) /\ Loop!Ramp(niter) - setpoint <= niter - solvedAt
    <2>1. setpoint \in Nat /\ setpoint <= RAMP_ITERS
      BY <1>1, RampMoves
    <2>. QED  BY <1>1, <2>1, RampMoves
  <1>. QED  BY <1>1, <1>2, <1>3, LoopConstants

\* Whichever way the first range measurement ended and whichever iterations were given up,
\* the hover target is the altitude the estimator started from, a command is solved from
\* this iteration's frame, g_max_send_gap is the longest time between two commands, and
\* the reference never steps back and never moves faster than the iterations pass.
THEOREM LoopIsSound == MCSpec => LoopSound
  <1>. DEFINE LInv == part = "loop" => LoopInv
              Sound == part = "loop" => Loop!HoverHoldsSpawn /\ Loop!StateFresh /\ Loop!SendGapMeasured
              Moves == part = "loop" => Loop!RampStep
  <1>1. MCInit => LInv
    BY LoopStart DEF MCInit
  <1>2. LInv /\ [MCNext]_mcVars => LInv'
    <2>. SUFFICES ASSUME LInv, [MCNext]_mcVars, part' = "loop" PROVE LoopInv'
      OBVIOUS
    <2>1. part = "loop" /\ [Loop!Next]_loopVars
      BY DEF MCNext, mcVars
    <2>. QED  BY <2>1, LoopKeeps
  <1>3. LInv => Sound
    BY DEF LoopInv, StateInv, GapInv, Loop!StateFresh
  <1>4. LInv /\ [MCNext]_mcVars => [Moves]_mcVars
    <2>. SUFFICES ASSUME LInv, MCNext, part = "loop" PROVE Loop!RampStep
      OBVIOUS
    <2>1. Loop!Next
      BY DEF MCNext
    <2>. QED  BY <2>1, LoopRamps
  <1>. HIDE DEF LInv, Sound, Moves
  <1>5. MCSpec => []Sound /\ [][Moves]_mcVars
    BY <1>1, <1>2, <1>3, <1>4, PTL DEF MCSpec
  <1>. QED  BY <1>5 DEF LoopSound, Sound, Moves

-----------------------------------------------------------------------------
(* AttitudeEstimator: the inductive invariant. *)

Angles   == {"roll", "pitch", "yaw"}
Filtering == {"filter 1", "filter 2", "filter 3"}
Copying   == {"copy 1", "copy 2", "copy 3"}

AttPlaces ==
    /\ apc \in {"init", "end", "idle", "join", "copy 1", "copy 2", "copy 3"}
    /\ epc \in {"none", "enter", "check", "read", "sleep", "filter 1", "filter 2", "filter 3"}
    /\ estimator_running \in BOOLEAN /\ attitude_mutex \in {"free", "caller", "estimator"}

AttAngles ==
    current_attitude \in [Angles -> Nat] /\ got \in [Angles -> Nat] /\ round \in Nat

AttTimes ==
    /\ clock \in Nat /\ last_time \in Nat /\ last_time <= clock /\ dt \in Nat
    /\ yaw \in Nat /\ lost \in Nat /\ alive \in Nat

\* Outside of a stop that waits for it, a thread is left only while it is to run.
ThreadInv == apc # "join" /\ ~estimator_running => epc = "none"

\* The mutex is with whoever is copying or filtering.
MutexInv ==
    /\ attitude_mutex = "caller" <=> apc \in Copying
    /\ attitude_mutex = "estimator" <=> epc \in Filtering

OneRound(att) == att["roll"] = att["pitch"] /\ att["pitch"] = att["yaw"]

\* The attitude is whole unless the filter is at it, and so is the copy unless the
\* caller is at it.
WholeInv ==
    /\ attitude_mutex # "estimator" => OneRound(current_attitude)
    /\ epc \in {"filter 2", "filter 3"} => current_attitude["roll"] = round
    /\ epc = "filter 3" => current_attitude["pitch"] = round
    /\ apc \notin {"copy 2", "copy 3"} => OneRound(got)
    /\ apc \in {"copy 2", "copy 3"} => got["roll"] = current_attitude["roll"]
    /\ apc = "copy 3" => got["pitch"] = current_attitude["pitch"]

\* All the time the thread has run is integrated, lost, in this round or since it.
TimeInv ==
    /\ epc \in {"none", "enter"} => yaw + lost = alive
    /\ epc \in {"check", "sleep"} => yaw + lost + (clock - last_time) = alive
    /\ epc \in {"read", "filter 1", "filter 2", "filter 3"} =>
          yaw + lost + dt + (clock - last_time) = alive

AttInv == AttPlaces /\ AttAngles /\ AttTimes /\ ThreadInv /\ MutexInv /\ WholeInv /\ TimeInv

\* The invariant of AttitudeEstimator holds at the start.
LEMMA AttStart == ASSUME Att!Init PROVE AttInv
  <1>1. current_attitude = [x \in Angles |-> 0] /\ got = [x \in Angles |-> 0]
    BY DEF Att!Init, Att!Flat, Angles
  <1>2. AttPlaces
    BY DEF Att!Init, AttPlaces
  <1>6. AttAngles
    BY <1>1 DEF Att!Init, AttAngles
  <1>7. AttTimes
    BY DEF Att!Init, AttTimes
  <1>3. WholeInv
    BY <1>1 DEF Att!Init, WholeInv, OneRound, Angles
  <1>4. ThreadInv /\ MutexInv
    BY DEF Att!Init, ThreadInv, MutexInv, Copying, Filtering
  <1>5. TimeInv
    BY DEF Att!Init, TimeInv
  <1>. QED  BY <1>2, <1>3, <1>4, <1>5, <1>6, <1>7 DEF AttInv

\* A tick of the clock and the calls other than the copies keep the invariant.
LEMMA CallsKeep ==
    ASSUME AttInv, Att!Tick \/ Att!InitFails \/ Att!InitOk \/ Att!Start \/ Att!Stop \/ Att!Join
                   \/ Att!GetLock
    PROVE  AttInv'
  <1>. USE DEF Att!CallerLeaves
  <1>1. CASE Att!Tick
    <2>1. AttPlaces' /\ AttAngles'
      BY <1>1 DEF Att!Tick, AttInv, AttPlaces, AttAngles
    <2>2. AttTimes'
      BY <1>1 DEF Att!Tick, AttInv, AttTimes
    <2>3. ThreadInv' /\ MutexInv'
      BY <1>1 DEF Att!Tick, AttInv, AttPlaces, ThreadInv, MutexInv, Filtering, Copying
    <2>4. WholeInv'
      BY <1>1 DEF Att!Tick, AttInv, AttPlaces, MutexInv, WholeInv, OneRound, Filtering, Copying
    <2>5. TimeInv'
      <3>1. /\ clock \in Nat /\ clock' = clock + 1 /\ UNCHANGED <<epc, yaw, lost, dt, last_time>>
            /\ alive' = IF epc \in {"none", "enter"} THEN alive ELSE alive + 1
        BY <1>1 DEF Att!Tick, AttInv, AttTimes
      <3>2. CASE epc \in {"none", "enter"}
        BY <3>1, <3>2 DEF AttInv, TimeInv
      <3>3. CASE epc \notin {"none", "enter"}
        <4>1. alive' = alive + 1 /\ clock' - last_time' = (clock - last_time) + 1
          BY <3>1, <3>3 DEF AttInv, AttTimes
        <4>2. /\ yaw \in Nat /\ lost \in Nat /\ dt \in Nat /\ alive \in Nat
              /\ clock - last_time \in Nat
          BY DEF AttInv, AttTimes
        <4>3. CASE epc \in {"check", "sleep"}
          <5>1. yaw + lost + (clock - last_time) = alive
            BY <4>3 DEF AttInv, TimeInv
          <5>2. yaw' + lost' + (clock' - last_time') = alive'
            BY <3>1, <4>1, <4>2, <5>1
          <5>. QED  BY <3>1, <4>3, <5>2 DEF TimeInv
        <4>4. CASE epc \in {"read", "filter 1", "filter 2", "filter 3"}
          <5>1. yaw + lost + dt + (clock - last_time) = alive
            BY <4>4 DEF AttInv, TimeInv
          <5>2. yaw' + lost' + dt' + (clock' - last_time') = alive'
            <6>1. yaw' = yaw /\ lost' = lost /\ dt' = dt
              BY <3>1
            <6>2. PICK r \in Nat : r = clock - last_time
              BY <4>2
            <6>3. yaw + lost + dt + r = alive
              BY <5>1, <6>2
            <6>4. yaw + lost + dt + (r + 1) = alive + 1
              BY <4>2, <6>3
            <6>5. clock' - last_time' = r + 1
              BY <4>1, <6>2
            <6>. QED  BY <4>1, <6>1, <6>4, <6>5
          <5>. QED  BY <3>1, <4>4, <5>2 DEF TimeInv
        <4>. QED  BY <3>3, <4>3, <4>4 DEF AttInv, AttPlaces
      <3>. QED  BY <3>2, <3>3
    <2>. QED  BY <2>1, <2>2, <2>3, <2>4, <2>5 DEF AttInv
  <1>2. CASE Att!InitFails
    <2>1. AttPlaces' /\ AttAngles'
      BY <1>2 DEF Att!InitFails, AttInv, AttPlaces, AttAngles
    <2>2. AttTimes'
      BY <1>2 DEF Att!InitFails, AttInv, AttTimes
    <2>3. ThreadInv' /\ MutexInv'
      BY <1>2 DEF Att!InitFails, AttInv, AttPlaces, ThreadInv, MutexInv, Filtering, Copying
    <2>4. WholeInv'
      BY <1>2 DEF Att!InitFails, AttInv, AttPlaces, MutexInv, WholeInv, OneRound, Filtering, Copying
    <2>5. TimeInv'
      BY <1>2 DEF Att!InitFails, AttInv, AttTimes, TimeInv
    <2>. QED  BY <2>1, <2>2, <2>3, <2>4, <2>5 DEF AttInv
  <1>3. CASE Att!InitOk
    <2>1. AttPlaces' /\ AttAngles'
      BY <1>3 DEF Att!InitOk, AttInv, AttPlaces, AttAngles
    <2>2. AttTimes'
      BY <1>3 DEF Att!InitOk, AttInv, AttTimes
    <2>3. ThreadInv' /\ MutexInv'
      BY <1>3 DEF Att!InitOk, AttInv, AttPlaces, ThreadInv, MutexInv, Filtering, Copying
    <2>4. WholeInv'
      BY <1>3 DEF Att!InitOk, AttInv, AttPlaces, MutexInv, WholeInv, OneRound, Filtering, Copying
    <2>5. TimeInv'
      BY <1>3 DEF Att!InitOk, AttInv, AttTimes, TimeInv
    <2>. QED  BY <2>1, <2>2, <2>3, <2>4, <2>5 DEF AttInv
  <1>4. CASE Att!Start
    <2>1. AttPlaces' /\ AttAngles'
      BY <1>4 DEF Att!Start, AttInv, AttPlaces, AttAngles
    <2>2. AttTimes'
      BY <1>4 DEF Att!Start, AttInv, AttTimes
    <2>3. ThreadInv' /\ MutexInv'
      BY <1>4 DEF Att!Start, AttInv, AttPlaces, ThreadInv, MutexInv, Filtering, Copying
    <2>4. WholeInv'
      BY <1>4 DEF Att!Start, AttInv, AttPlaces, MutexInv, WholeInv, OneRound, Filtering, Copying
    <2>5. TimeInv'
      BY <1>4 DEF Att!Start, AttInv, ThreadInv, TimeInv
    <2>. QED  BY <2>1, <2>2, <2>3, <2>4, <2>5 DEF AttInv
  <1>5. CASE Att!Stop
    <2>1. AttPlaces' /\ AttAngles'
      BY <1>5 DEF Att!Stop, AttInv, AttPlaces, AttAngles
    <2>2. AttTimes'
      BY <1>5 DEF Att!Stop, AttInv, AttTimes
    <2>3. ThreadInv' /\ MutexInv'
      BY <1>5 DEF Att!Stop, AttInv, AttPlaces, ThreadInv, MutexInv, Filtering, Copying
    <2>4. WholeInv'
      BY <1>5 DEF Att!Stop, AttInv, AttPlaces, MutexInv, WholeInv, OneRound, Filtering, Copying
    <2>5. TimeInv'
      BY <1>5 DEF Att!Stop, AttInv, AttTimes, TimeInv
    <2>. QED  BY <2>1, <2>2, <2>3, <2>4, <2>5 DEF AttInv
  <1>6. CASE Att!Join
    <2>1. AttPlaces' /\ AttAngles'
      BY <1>6 DEF Att!Join, AttInv, AttPlaces, AttAngles
    <2>2. AttTimes'
      BY <1>6 DEF Att!Join, AttInv, AttTimes
    <2>3. ThreadInv' /\ MutexInv'
      BY <1>6 DEF Att!Join, AttInv, AttPlaces, ThreadInv, MutexInv, Filtering, Copying
    <2>4. WholeInv'
      BY <1>6 DEF Att!Join, AttInv, AttPlaces, MutexInv, WholeInv, OneRound, Filtering, Copying
    <2>5. TimeInv'
      BY <1>6 DEF Att!Join, AttInv, AttTimes, TimeInv
    <2>. QED  BY <2>1, <2>2, <2>3, <2>4, <2>5 DEF AttInv
  <1>7. CASE Att!GetLock
    <2>1. AttPlaces' /\ AttAngles'
      BY <1>7 DEF Att!GetLock, AttInv, AttPlaces, AttAngles
    <2>2. AttTimes'
      BY <1>7 DEF Att!GetLock, AttInv, AttTimes
    <2>3. ThreadInv' /\ MutexInv'
      BY <1>7 DEF Att!GetLock, AttInv, AttPlaces, ThreadInv, MutexInv, Filtering, Copying
    <2>4. WholeInv'
      BY <1>7 DEF Att!GetLock, AttInv, AttPlaces, MutexInv, WholeInv, OneRound, Filtering, Copying
    <2>5. TimeInv'
      BY <1>7 DEF Att!GetLock, AttInv, AttTimes, TimeInv
    <2>. QED  BY <2>1, <2>2, <2>3, <2>4, <2>5 DEF AttInv
  <1>. QED  BY <1>1, <1>2, <1>3, <1>4, <1>5, <1>6, <1>7

\* The thread's steps other than the filter's keep the invariant.
LEMMA ThreadStepsKeep ==
    ASSUME AttInv, Att!Enter \/ Att!Check \/ Att!ReadFails \/ Att!ReadOk \/ Att!Wake
    PROVE  AttInv'
  <1>. USE DEF Att!ThreadLeaves
  <1>1. CASE Att!Enter
    <2>1. AttPlaces' /\ AttAngles'
      BY <1>1 DEF Att!Enter, AttInv, AttPlaces, AttAngles
    <2>2. AttTimes'
      BY <1>1 DEF Att!Enter, AttInv, AttTimes
    <2>3. ThreadInv' /\ MutexInv'
      BY <1>1 DEF Att!Enter, AttInv, AttPlaces, ThreadInv, MutexInv, Filtering, Copying
    <2>4. WholeInv'
      BY <1>1 DEF Att!Enter, AttInv, AttPlaces, MutexInv, WholeInv, OneRound, Filtering, Copying
    <2>5. TimeInv'
      BY <1>1 DEF Att!Enter, AttInv, AttTimes, TimeInv
    <2>. QED  BY <2>1, <2>2, <2>3, <2>4, <2>5 DEF AttInv
  <1>2. CASE Att!Check
    <2>1. AttPlaces' /\ AttAngles'
      BY <1>2 DEF Att!Check, AttInv, AttPlaces, AttAngles
    <2>2. AttTimes'
      BY <1>2 DEF Att!Check, AttInv, AttTimes
    <2>3. ThreadInv' /\ MutexInv'
      BY <1>2 DEF Att!Check, AttInv, AttPlaces, ThreadInv, MutexInv, Filtering, Copying
    <2>4. WholeInv'
      BY <1>2 DEF Att!Check, AttInv, AttPlaces, MutexInv, WholeInv, OneRound, Filtering, Copying
    <2>5. TimeInv'
      <3>1. /\ epc = "check" /\ yaw + lost + (clock - last_time) = alive
            /\ UNCHANGED <<clock, yaw, alive>>
        BY <1>2 DEF Att!Check, AttInv, TimeInv
      <3>2. CASE estimator_running
        <4>1. epc' = "read" /\ dt' = clock - last_time /\ last_time' = clock /\ lost' = lost
          BY <1>2, <3>2 DEF Att!Check
        <4>. QED  BY <3>1, <4>1 DEF AttInv, AttTimes, TimeInv
      <3>3. CASE ~estimator_running
        <4>1. epc' = "none" /\ lost' = lost + (clock - last_time)
          BY <1>2, <3>3 DEF Att!Check
        <4>. QED  BY <3>1, <4>1 DEF AttInv, AttTimes, TimeInv
      <3>. QED  BY <3>2, <3>3
    <2>. QED  BY <2>1, <2>2, <2>3, <2>4, <2>5 DEF AttInv
  <1>3. CASE Att!ReadFails
    <2>1. AttPlaces' /\ AttAngles'
      BY <1>3 DEF Att!ReadFails, AttInv, AttPlaces, AttAngles
    <2>2. AttTimes'
      BY <1>3 DEF Att!ReadFails, AttInv, AttTimes
    <2>3. ThreadInv' /\ MutexInv'
      BY <1>3 DEF Att!ReadFails, AttInv, AttPlaces, ThreadInv, MutexInv, Filtering, Copying
    <2>4. WholeInv'
      BY <1>3 DEF Att!ReadFails, AttInv, AttPlaces, MutexInv, WholeInv, OneRound, Filtering, Copying
    <2>5. TimeInv'
      BY <1>3 DEF Att!ReadFails, AttInv, AttTimes, TimeInv
    <2>. QED  BY <2>1, <2>2, <2>3, <2>4, <2>5 DEF AttInv
  <1>4. CASE Att!ReadOk
    <2>1. AttPlaces' /\ AttAngles'
      <3>1. AttPlaces'
        BY <1>4 DEF Att!ReadOk, AttInv, AttPlaces
      <3>2. AttAngles'
        <4>1. round' = round + 1 /\ UNCHANGED <<current_attitude, got>>
          BY <1>4 DEF Att!ReadOk
        <4>2. round \in Nat
          BY DEF AttInv, AttAngles
        <4>3. round' \in Nat
          BY <4>1, <4>2
        <4>. QED  BY <4>1, <4>3 DEF AttInv, AttAngles
      <3>. QED  BY <3>1, <3>2
    <2>2. AttTimes'
      BY <1>4 DEF Att!ReadOk, AttInv, AttTimes
    <2>3. ThreadInv' /\ MutexInv'
      BY <1>4 DEF Att!ReadOk, AttInv, AttPlaces, ThreadInv, MutexInv, Filtering, Copying
    <2>4. WholeInv'
      BY <1>4 DEF Att!ReadOk, AttInv, AttPlaces, MutexInv, WholeInv, OneRound, Filtering, Copying
    <2>5. TimeInv'
      BY <1>4 DEF Att!ReadOk, AttInv, AttTimes, TimeInv
    <2>. QED  BY <2>1, <2>2, <2>3, <2>4, <2>5 DEF AttInv
  <1>5. CASE Att!Wake
    <2>1. AttPlaces' /\ AttAngles'
      BY <1>5 DEF Att!Wake, AttInv, AttPlaces, AttAngles
    <2>2. AttTimes'
      BY <1>5 DEF Att!Wake, AttInv, AttTimes
    <2>3. ThreadInv' /\ MutexInv'
      BY <1>5 DEF Att!Wake, AttInv, AttPlaces, ThreadInv, MutexInv, Filtering, Copying
    <2>4. WholeInv'
      BY <1>5 DEF Att!Wake, AttInv, AttPlaces, MutexInv, WholeInv, OneRound, Filtering, Copying
    <2>5. TimeInv'
      BY <1>5 DEF Att!Wake, AttInv, AttTimes, TimeInv
    <2>. QED  BY <2>1, <2>2, <2>3, <2>4, <2>5 DEF AttInv
  <1>. QED  BY <1>1, <1>2, <1>3, <1>4, <1>5

\* The caller copies one angle after the other under the mutex.
LEMMA CopyKeeps == ASSUME AttInv, NEW j \in 1 .. 3, Att!Copy(j) PROVE AttInv'
  <1>1. PICK x \in Angles :
          /\ got' = [got EXCEPT ![x] = current_attitude[x]]
          /\ \/ x = "roll" /\ apc = "copy 1" /\ apc' = "copy 2" /\ attitude_mutex' = attitude_mutex
             \/ x = "pitch" /\ apc = "copy 2" /\ apc' = "copy 3" /\ attitude_mutex' = attitude_mutex
             \/ x = "yaw" /\ apc = "copy 3" /\ apc' = "idle" /\ attitude_mutex' = "free"
    <2>1. j = 1 \/ j = 2 \/ j = 3
      OBVIOUS
    <2>2. CASE j = 1
      <3>1. got' = [got EXCEPT !["roll"] = current_attitude["roll"]]
        BY <2>2 DEF Att!Copy, Att!Axes
      <3>2. apc = "copy 1" /\ apc' = "copy 2"
        BY <2>2 DEF Att!Copy
      <3>3. attitude_mutex' = attitude_mutex
        <4>1. attitude_mutex' = (IF j = 3 THEN "free" ELSE attitude_mutex)
          BY DEF Att!Copy
        <4>2. j # 3
          BY <2>2
        <4>. QED  BY <4>1, <4>2
      <3>. QED  BY <3>1, <3>2, <3>3 DEF Angles
    <2>3. CASE j = 2
      <3>1. got' = [got EXCEPT !["pitch"] = current_attitude["pitch"]]
        BY <2>3 DEF Att!Copy, Att!Axes
      <3>2. apc = "copy 2" /\ apc' = "copy 3"
        BY <2>3 DEF Att!Copy
      <3>3. attitude_mutex' = attitude_mutex
        <4>1. attitude_mutex' = (IF j = 3 THEN "free" ELSE attitude_mutex)
          BY DEF Att!Copy
        <4>2. j # 3
          BY <2>3
        <4>. QED  BY <4>1, <4>2
      <3>. QED  BY <3>1, <3>2, <3>3 DEF Angles
    <2>4. CASE j = 3
      <3>1. /\ got' = [got EXCEPT !["yaw"] = current_attitude["yaw"]]
            /\ apc = "copy 3" /\ apc' = "idle" /\ attitude_mutex' = "free"
        BY <2>4 DEF Att!Copy, Att!Axes
      <3>. QED  BY <3>1 DEF Angles
    <2>. QED  BY <2>1, <2>2, <2>3, <2>4
  <1>2. /\ UNCHANGED <<epc, estimator_running>>
        /\ UNCHANGED <<clock, last_time, dt, round, current_attitude, yaw, lost, alive>>
    BY DEF Att!Copy, Att!CallerLeaves
  <1>3. attitude_mutex = "caller" /\ epc \notin Filtering
    BY <1>1 DEF AttInv, MutexInv, Copying
  <1>4. got' \in [Angles -> Nat] /\ got'[x] = current_attitude[x]
        /\ \A y \in Angles : y # x => got'[y] = got[y]
    BY <1>1 DEF AttInv, AttAngles
  <1>5. AttPlaces' /\ AttAngles'
    BY <1>1, <1>2, <1>4 DEF AttInv, AttPlaces, AttAngles
  <1>9. AttTimes'
    BY <1>2 DEF AttInv, AttTimes
  <1>6. ThreadInv' /\ MutexInv'
    BY <1>1, <1>2, <1>3 DEF AttInv, AttPlaces, ThreadInv, MutexInv, Copying
  <1>7. WholeInv'
    BY <1>1, <1>2, <1>3, <1>4 DEF AttInv, AttPlaces, WholeInv, OneRound, Angles, Filtering
  <1>8. TimeInv'
    BY <1>2 DEF AttInv, TimeInv
  <1>. QED  BY <1>5, <1>6, <1>7, <1>8, <1>9 DEF AttInv

\* The filter writes one angle after the other under the mutex.
LEMMA FilterKeeps == ASSUME AttInv, NEW j \in 1 .. 3, Att!Filter(j) PROVE AttInv'
  <1>1. PICK x \in Angles :
          /\ current_attitude' = [current_attitude EXCEPT ![x] = round]
          /\ \/ /\ x = "roll" /\ epc = "filter 1" /\ epc' = "filter 2"
                /\ UNCHANGED <<attitude_mutex, yaw>>
             \/ /\ x = "pitch" /\ epc = "filter 2" /\ epc' = "filter 3"
                /\ UNCHANGED <<attitude_mutex, yaw>>
             \/ /\ x = "yaw" /\ epc = "filter 3" /\ epc' = "sleep"
                /\ attitude_mutex' = "free" /\ yaw' = yaw + dt
    <2>1. j = 1 \/ j = 2 \/ j = 3
      OBVIOUS
    <2>2. CASE j = 1
      <3>1. current_attitude' = [current_attitude EXCEPT !["roll"] = round]
        BY <2>2 DEF Att!Filter, Att!Axes
      <3>2. epc = "filter 1" /\ epc' = "filter 2"
        BY <2>2 DEF Att!Filter
      <3>3. attitude_mutex' = attitude_mutex /\ yaw' = yaw
        <4>1. attitude_mutex' = (IF j = 3 THEN "free" ELSE attitude_mutex) /\ yaw' = IF j = 3 THEN yaw + dt ELSE yaw
          BY DEF Att!Filter
        <4>2. j # 3
          BY <2>2
        <4>. QED  BY <4>1, <4>2
      <3>. QED  BY <3>1, <3>2, <3>3 DEF Angles
    <2>3. CASE j = 2
      <3>1. current_attitude' = [current_attitude EXCEPT !["pitch"] = round]
        BY <2>3 DEF Att!Filter, Att!Axes
      <3>2. epc = "filter 2" /\ epc' = "filter 3"
        BY <2>3 DEF Att!Filter
      <3>3. attitude_mutex' = attitude_mutex /\ yaw' = yaw
        <4>1. attitude_mutex' = (IF j = 3 THEN "free" ELSE attitude_mutex) /\ yaw' = IF j = 3 THEN yaw + dt ELSE yaw
          BY DEF Att!Filter
        <4>2. j # 3
          BY <2>3
        <4>. QED  BY <4>1, <4>2
      <3>. QED  BY <3>1, <3>2, <3>3 DEF Angles
    <2>4. CASE j = 3
      <3>1. /\ current_attitude' = [current_attitude EXCEPT !["yaw"] = round]
            /\ epc = "filter 3" /\ epc' = "sleep" /\ attitude_mutex' = "free" /\ yaw' = yaw + dt
        BY <2>4 DEF Att!Filter, Att!Axes
      <3>. QED  BY <3>1 DEF Angles
    <2>. QED  BY <2>1, <2>2, <2>3, <2>4
  <1>2. UNCHANGED <<apc, estimator_running, clock, last_time, dt, round, got, lost, alive>>
    BY DEF Att!Filter, Att!ThreadLeaves
  <1>3. attitude_mutex = "estimator" /\ apc \notin Copying
    BY <1>1 DEF AttInv, MutexInv, Filtering
  <1>4. current_attitude' \in [Angles -> Nat] /\ current_attitude'[x] = round
        /\ \A y \in Angles : y # x => current_attitude'[y] = current_attitude[y]
    BY <1>1 DEF AttInv, AttAngles
  <1>5. AttPlaces' /\ AttAngles'
    BY <1>1, <1>2, <1>4 DEF AttInv, AttPlaces, AttAngles
  <1>9. AttTimes'
    <2>1. yaw' \in {yaw, yaw + dt}
      BY <1>1
    <2>. QED  BY <1>2, <2>1 DEF AttInv, AttTimes
  <1>6. ThreadInv' /\ MutexInv'
    BY <1>1, <1>2, <1>3 DEF AttInv, AttPlaces, ThreadInv, MutexInv, Filtering
  <1>7. WholeInv'
    BY <1>1, <1>2, <1>3, <1>4 DEF AttInv, AttPlaces, WholeInv, OneRound, Angles, Copying
  <1>8. TimeInv'
    <2>1. yaw + lost + dt + (clock - last_time) = alive
      BY <1>1 DEF AttInv, TimeInv
    <2>2. \/ epc' \in {"filter 2", "filter 3"} /\ yaw' = yaw
          \/ epc' = "sleep" /\ yaw' = yaw + dt
      BY <1>1
    <2>3. /\ yaw \in Nat /\ lost \in Nat /\ dt \in Nat /\ clock - last_time \in Nat
      BY DEF AttInv, AttTimes
    <2>4. CASE epc' \in {"filter 2", "filter 3"} /\ yaw' = yaw
      <3>1. yaw' + lost' + dt' + (clock' - last_time') = alive'
        BY <1>2, <2>1, <2>4
      <3>. QED  BY <2>4, <3>1 DEF TimeInv
    <2>5. CASE epc' = "sleep" /\ yaw' = yaw + dt
      <3>1. yaw' + lost' + (clock' - last_time') = alive'
        BY <1>2, <2>1, <2>3, <2>5
      <3>. QED  BY <2>5, <3>1 DEF TimeInv
    <2>. QED  BY <2>2, <2>4, <2>5
  <1>. QED  BY <1>5, <1>6, <1>7, <1>8, <1>9 DEF AttInv

\* Every step of AttitudeEstimator keeps the invariant.
LEMMA AttKeeps == ASSUME AttInv, [Att!Next]_attitudeVars PROVE AttInv'
  <1>1. CASE Att!Next
    BY <1>1, CallsKeep, ThreadStepsKeep, CopyKeeps, FilterKeeps DEF Att!Next, Att!Caller
  <1>2. CASE UNCHANGED attitudeVars
    <2>1. AttPlaces' /\ AttAngles' /\ AttTimes'
      BY <1>2 DEF attitudeVars, AttInv, AttPlaces, AttAngles, AttTimes
    <2>2. ThreadInv' /\ MutexInv' /\ TimeInv'
      BY <1>2 DEF attitudeVars, AttInv, ThreadInv, MutexInv, TimeInv
    <2>3. WholeInv'
      BY <1>2 DEF attitudeVars, AttInv, WholeInv, OneRound
    <2>. QED  BY <2>1, <2>2, <2>3 DEF AttInv
  <1>. QED  BY <1>1, <1>2

\* The thread is started only when none of it is left.
LEMMA AttStarts == ASSUME AttInv, Att!Next PROVE Att!OneThreadStep
  <1>1. CASE Att!Start
    BY <1>1 DEF Att!Start, AttInv, ThreadInv, Att!OneThreadStep
  <1>2. CASE Att!Filter(1) \/ Att!Filter(2) \/ Att!Filter(3)
    BY <1>2 DEF Att!Filter, Att!OneThreadStep
  <1>3. CASE Att!Enter \/ Att!Check \/ Att!ReadFails \/ Att!ReadOk \/ Att!Wake
    BY <1>3 DEF Att!Enter, Att!Check, Att!ReadFails, Att!ReadOk, Att!Wake, Att!OneThreadStep
  <1>4. CASE UNCHANGED epc
    BY <1>4 DEF Att!OneThreadStep
  <1>5. Att!Tick \/ (Att!Caller /\ ~Att!Start) => UNCHANGED epc
    BY DEF Att!Tick, Att!Caller, Att!InitFails, Att!InitOk, Att!Stop, Att!Join, Att!GetLock, Att!Copy
  <1>6. (\E j \in 1 .. 3 : Att!Filter(j)) => Att!Filter(1) \/ Att!Filter(2) \/ Att!Filter(3)
    <2>1. \A j \in 1 .. 3 : j = 1 \/ j = 2 \/ j = 3
      OBVIOUS
    <2>. QED  BY <2>1
  <1>. QED  BY <1>1, <1>2, <1>3, <1>4, <1>5, <1>6 DEF Att!Next

\* An attitude that is read has its three angles from one round, all the time the thread
\* has run is integrated once or accounted for as lost, also over a stop, and its stack is
\* never given to a second thread.
THEOREM AttitudeIsAccounted == MCSpec => AttitudeAccounted
  <1>. DEFINE AInv == part = "attitude" => AttInv
              Sound == part = "attitude" => Att!AttitudeWhole /\ Att!TimeAccounted
              Starts == part = "attitude" => Att!OneThreadStep
  <1>1. MCInit => AInv
    BY AttStart DEF MCInit
  <1>2. AInv /\ [MCNext]_mcVars => AInv'
    <2>. SUFFICES ASSUME AInv, [MCNext]_mcVars, part' = "attitude" PROVE AttInv'
      OBVIOUS
    <2>1. part = "attitude" /\ [Att!Next]_attitudeVars
      BY DEF MCNext, mcVars
    <2>. QED  BY <2>1, AttKeeps
  <1>3. AInv => Sound
    <2>. SUFFICES ASSUME AttInv PROVE Att!AttitudeWhole /\ Att!TimeAccounted
      OBVIOUS
    <2>1. Att!AttitudeWhole
      BY DEF AttInv, AttAngles, WholeInv, OneRound, Angles, Att!AttitudeWhole
    <2>2. Att!TimeAccounted
      BY DEF AttInv, AttTimes, TimeInv, Att!TimeAccounted
    <2>. QED  BY <2>1, <2>2
  <1>4. AInv /\ [MCNext]_mcVars => [Starts]_mcVars
    <2>. SUFFICES ASSUME AInv, MCNext, part = "attitude" PROVE Att!OneThreadStep
      OBVIOUS
    <2>1. Att!Next
      BY DEF MCNext
    <2>. QED  BY <2>1, AttStarts
  <1>. HIDE DEF AInv, Sound, Starts
  <1>5. MCSpec => []Sound /\ [][Starts]_mcVars
    BY <1>1, <1>2, <1>3, <1>4, PTL DEF MCSpec
  <1>. QED  BY <1>5 DEF AttitudeAccounted, Sound, Starts

-----------------------------------------------------------------------------
(* FlightSensors: the inductive invariant. *)

BoardTyped ==
    /\ bpc \in {"bus", "config", "low", "high", "main", "read", "end"}
    /\ rc \in {0, 1} /\ done \in BOOLEAN /\ todo \subseteq Sensors!Config
    /\ regs \in [Sensors!Regs -> SUBSET Sensors!Channels]
    /\ tofdev \in {"off", "reset", "booted", "stale", "ranging"}

\* Without an error so far, every register that board_sensor_init has been through drives
\* the reset line; between its last two writes the sensor is in reset, and after the last
\* it has booted.
BootInv ==
    /\ rc = 0 => \A x \in Sensors!Config \ todo : Sensors!XSHUT \in regs[x]
    /\ bpc \in {"low", "high"} \/ done => todo = {}
    /\ rc = 0 /\ bpc = "high" => tofdev = "reset"
    /\ done => bpc \in {"main", "read", "end"}
    /\ rc = 0 /\ done => tofdev \in {"booted", "ranging"}

\* The height that is held is the newest one, and has been measured once there is one.
HeightInv ==
    /\ now_ms \in Nat \ {0} /\ measuredAt \in Nat /\ tof_have \in BOOLEAN
    /\ tof_last_h = measuredAt
    /\ tof_have => measuredAt # 0
    /\ frame.tof_valid => frame.height = measuredAt /\ measuredAt # 0

\* The next fetch is due one period after the last one.
RateInv ==
    /\ tof_next_ms \in Nat
    /\ fetchedAt[1] \in Nat /\ fetchedAt[2] \in Nat
    /\ fetchedAt[2] # 0 => tof_next_ms = fetchedAt[2] + TOF_FETCH_PERIOD_MS
    /\ fetchedAt[1] # 0 => fetchedAt[2] >= fetchedAt[1] + TOF_FETCH_PERIOD_MS

TofInv == BoardTyped /\ BootInv /\ HeightInv /\ RateInv

\* The first boot of the processor, and every other one, starts with the invariant: a
\* reset takes nothing over but the expander's and the sensor's state.
LEMMA TofStart == ASSUME Sensors!Init PROVE TofInv
  <1>1. BoardTyped
    BY DEF Sensors!Init, BoardTyped, Sensors!Regs, Sensors!Channels, Sensors!XSHUT, Sensors!Config
  <1>2. BootInv
    BY DEF Sensors!Init, BootInv
  <1>3. HeightInv
    <2>1. frame.tof_valid = FALSE
      BY DEF Sensors!Init, Sensors!NoFrame
    <2>2. now_ms = 1 /\ measuredAt = 0 /\ tof_last_h = 0
      BY DEF Sensors!Init, Sensors!Never
    <2>3. tof_have = FALSE
      BY DEF Sensors!Init
    <2>4. 1 \in Nat \ {0}
      OBVIOUS
    <2>. QED  BY <2>1, <2>2, <2>3, <2>4 DEF HeightInv
  <1>4. RateInv
    BY DEF Sensors!Init, RateInv, Sensors!Never
  <1>. QED  BY <1>1, <1>2, <1>3, <1>4 DEF TofInv

\* A reset of the processor keeps the invariant.
LEMMA ResetKeeps == ASSUME TofInv, Sensors!WarmReset PROVE TofInv'
  <1>1. BoardTyped'
    BY DEF TofInv, Sensors!WarmReset, Sensors!Boot, BoardTyped
  <1>2. BootInv'
    BY DEF Sensors!WarmReset, Sensors!Boot, BootInv
  <1>3. HeightInv'
    <2>1. frame'.tof_valid = FALSE
      BY DEF Sensors!WarmReset, Sensors!Boot, Sensors!NoFrame
    <2>2. now_ms' = 1 /\ measuredAt' = 0 /\ tof_last_h' = 0
      BY DEF Sensors!WarmReset, Sensors!Boot, Sensors!Never
    <2>3. tof_have' = FALSE
      BY DEF Sensors!WarmReset, Sensors!Boot
    <2>4. 1 \in Nat \ {0}
      OBVIOUS
    <2>. QED  BY <2>1, <2>2, <2>3, <2>4 DEF HeightInv
  <1>4. RateInv'
    BY DEF Sensors!WarmReset, Sensors!Boot, RateInv, Sensors!Never
  <1>. QED  BY <1>1, <1>2, <1>3, <1>4 DEF TofInv

\* What read_sensor_frame keeps is untouched by the steps of board_sensor_init.
LEMMA HoldKeeps ==
    ASSUME TofInv, UNCHANGED <<now_ms, Sensors!hold, frame, Sensors!hist>>
    PROVE  HeightInv' /\ RateInv'
  BY DEF TofInv, Sensors!hold, Sensors!hist, HeightInv, RateInv

\* A write to a register leaves the types as they are, the sensor follows it, and a
\* register that drove the reset line and is not written still does.
LEMMA BitWritten ==
    ASSUME TofInv, NEW x \in Sensors!Regs, NEW y \in SUBSET Sensors!Channels,
           Sensors!WriteBit(x, y)
    PROVE  /\ regs' \in [Sensors!Regs -> SUBSET Sensors!Channels]
           /\ tofdev' \in {"off", "reset", "booted", "stale", "ranging"}
           /\ regs'[x] = y /\ \A r \in Sensors!Regs : r # x => regs'[r] = regs[r]
  <1>1. regs' = [regs EXCEPT ![x] = y] /\ regs \in [Sensors!Regs -> SUBSET Sensors!Channels]
    BY DEF Sensors!WriteBit, TofInv, BoardTyped
  <1>2. tofdev' \in {tofdev, "reset", "booted"}
    BY DEF Sensors!WriteBit, Sensors!SensorFollows
  <1>3. tofdev \in {"off", "reset", "booted", "stale", "ranging"}
    BY DEF TofInv, BoardTyped
  <1>. QED  BY <1>1, <1>2, <1>3

\* One of the three configuration bits is set, or not.
LEMMA ConfigureKeeps == ASSUME TofInv, Sensors!Configure PROVE TofInv'
  <1>1. PICK x \in todo :
          /\ Sensors!UpdateBit(x, regs[x] \union {Sensors!XSHUT})
          /\ todo' = todo \ {x}
          /\ bpc' = IF todo = {x} THEN "low" ELSE "config"
    BY DEF Sensors!Configure
  <1>2. bpc = "config" /\ UNCHANGED <<done, now_ms, Sensors!hold, frame, Sensors!hist>>
    BY DEF Sensors!Configure
  <1>3. /\ x \in Sensors!Config /\ x \in Sensors!Regs
        /\ regs[x] \union {Sensors!XSHUT} \in SUBSET Sensors!Channels
    BY DEF TofInv, BoardTyped, Sensors!Config, Sensors!Channels
  <1>4. BoardTyped /\ BootInv
    BY DEF TofInv
  <1>5. done = FALSE
    BY <1>2, <1>4 DEF BoardTyped, BootInv
  <1>6. (bpc' = "low" => todo' = {}) /\ bpc' \in {"low", "config"}
    BY <1>1
  <1>7. CASE Sensors!WriteBit(x, regs[x] \union {Sensors!XSHUT}) /\ UNCHANGED rc
    <2>1. /\ regs' \in [Sensors!Regs -> SUBSET Sensors!Channels]
          /\ tofdev' \in {"off", "reset", "booted", "stale", "ranging"}
          /\ Sensors!XSHUT \in regs'[x] /\ \A r \in Sensors!Regs : r # x => regs'[r] = regs[r]
      BY <1>3, <1>7, BitWritten
    <2>2. BoardTyped'
      BY <1>1, <1>2, <1>4, <1>6, <1>7, <2>1 DEF BoardTyped
    <2>3. BootInv'
      <3>1. rc' = 0 => \A r \in Sensors!Config \ todo' : Sensors!XSHUT \in regs'[r]
        BY <1>1, <1>4, <1>7, <2>1 DEF BootInv, Sensors!Config
      <3>. QED  BY <1>2, <1>5, <1>6, <3>1 DEF BootInv
    <2>. QED  BY <1>2, <2>2, <2>3, HoldKeeps DEF TofInv
  <1>8. CASE rc' = 1 /\ UNCHANGED Sensors!board
    <2>1. BoardTyped'
      BY <1>1, <1>2, <1>4, <1>6, <1>8 DEF BoardTyped, Sensors!board
    <2>2. BootInv'
      BY <1>2, <1>5, <1>6, <1>8 DEF BootInv
    <2>. QED  BY <1>2, <2>1, <2>2, HoldKeeps DEF TofInv
  <1>. QED  BY <1>1, <1>7, <1>8 DEF Sensors!UpdateBit

\* The reset line goes low, or an error is noted.
LEMMA LowKeeps == ASSUME TofInv, Sensors!XshutLow PROVE TofInv'
  <1>1. /\ bpc = "low" /\ bpc' = "high"
        /\ Sensors!UpdateBit("GPO_VALUE", regs["GPO_VALUE"] \ {Sensors!XSHUT})
        /\ UNCHANGED <<todo, done, now_ms, Sensors!hold, frame, Sensors!hist>>
    BY DEF Sensors!XshutLow
  <1>2. BoardTyped /\ BootInv
    BY DEF TofInv
  <1>3. /\ "GPO_VALUE" \in Sensors!Regs /\ Sensors!Config \subseteq Sensors!Regs
        /\ "GPO_VALUE" \notin Sensors!Config
    BY DEF Sensors!Regs, Sensors!Config
  <1>4. regs["GPO_VALUE"] \ {Sensors!XSHUT} \in SUBSET Sensors!Channels
    BY <1>2, <1>3 DEF BoardTyped
  <1>5. todo = {} /\ done = FALSE
    BY <1>1, <1>2 DEF BoardTyped, BootInv
  <1>6. CASE Sensors!WriteBit("GPO_VALUE", regs["GPO_VALUE"] \ {Sensors!XSHUT}) /\ UNCHANGED rc
    <2>1. /\ regs' \in [Sensors!Regs -> SUBSET Sensors!Channels]
          /\ tofdev' \in {"off", "reset", "booted", "stale", "ranging"}
          /\ regs'["GPO_VALUE"] = regs["GPO_VALUE"] \ {Sensors!XSHUT}
          /\ \A r \in Sensors!Regs : r # "GPO_VALUE" => regs'[r] = regs[r]
      BY <1>3, <1>4, <1>6, BitWritten
    <2>2. rc = 0 => \A r \in Sensors!Config : Sensors!XSHUT \in regs'[r]
      BY <1>2, <1>3, <1>5, <2>1 DEF BootInv
    <2>3. rc = 0 => tofdev' = "reset"
      BY <1>6, <2>1, <2>2 DEF Sensors!WriteBit, Sensors!SensorFollows, Sensors!Driven
    <2>4. BoardTyped'
      BY <1>1, <1>2, <1>6, <2>1 DEF BoardTyped
    <2>5. BootInv'
      BY <1>1, <1>5, <1>6, <2>2, <2>3 DEF BootInv
    <2>. QED  BY <1>1, <2>4, <2>5, HoldKeeps DEF TofInv
  <1>7. CASE rc' = 1 /\ UNCHANGED Sensors!board
    <2>1. BoardTyped'
      BY <1>1, <1>2, <1>7 DEF BoardTyped, Sensors!board
    <2>2. BootInv'
      BY <1>1, <1>5, <1>7 DEF BootInv
    <2>. QED  BY <1>1, <2>1, <2>2, HoldKeeps DEF TofInv
  <1>. QED  BY <1>1, <1>6, <1>7 DEF Sensors!UpdateBit

\* The reset line goes high: without an error, a sensor that was in reset boots.
LEMMA HighKeeps == ASSUME TofInv, Sensors!XshutHigh PROVE TofInv'
  <1>1. /\ bpc = "high" /\ bpc' = "main" /\ done' = TRUE
        /\ Sensors!UpdateBit("GPO_VALUE", regs["GPO_VALUE"] \union {Sensors!XSHUT})
        /\ UNCHANGED <<todo, now_ms, Sensors!hold, frame, Sensors!hist>>
    BY DEF Sensors!XshutHigh
  <1>2. BoardTyped /\ BootInv
    BY DEF TofInv
  <1>3. /\ "GPO_VALUE" \in Sensors!Regs /\ Sensors!Config \subseteq Sensors!Regs
        /\ "GPO_VALUE" \notin Sensors!Config
    BY DEF Sensors!Regs, Sensors!Config
  <1>4. regs["GPO_VALUE"] \union {Sensors!XSHUT} \in SUBSET Sensors!Channels
    BY <1>2, <1>3 DEF BoardTyped, Sensors!Channels
  <1>5. todo = {}
    BY <1>1, <1>2 DEF BootInv
  <1>6. CASE Sensors!WriteBit("GPO_VALUE", regs["GPO_VALUE"] \union {Sensors!XSHUT}) /\ UNCHANGED rc
    <2>1. /\ regs' \in [Sensors!Regs -> SUBSET Sensors!Channels]
          /\ tofdev' \in {"off", "reset", "booted", "stale", "ranging"}
          /\ regs'["GPO_VALUE"] = regs["GPO_VALUE"] \union {Sensors!XSHUT}
          /\ \A r \in Sensors!Regs : r # "GPO_VALUE" => regs'[r] = regs[r]
      BY <1>3, <1>4, <1>6, BitWritten
    <2>2. rc = 0 => \A r \in Sensors!Config : Sensors!XSHUT \in regs'[r]
      BY <1>2, <1>3, <1>5, <2>1 DEF BootInv
    <2>3. rc = 0 => tofdev' = "booted"
      <3>1. rc = 0 => tofdev = "reset"
        BY <1>1, <1>2 DEF BootInv
      <3>2. Sensors!XSHUT \in regs'["GPO_VALUE"]
        BY <2>1
      <3>. QED  BY <1>6, <2>2, <3>1, <3>2 DEF Sensors!WriteBit, Sensors!SensorFollows, Sensors!Driven
    <2>4. BoardTyped'
      BY <1>1, <1>2, <1>6, <2>1 DEF BoardTyped
    <2>5. BootInv'
      BY <1>1, <1>5, <1>6, <2>2, <2>3 DEF BootInv
    <2>. QED  BY <1>1, <2>4, <2>5, HoldKeeps DEF TofInv
  <1>7. CASE rc' = 1 /\ UNCHANGED Sensors!board
    <2>1. BoardTyped'
      BY <1>1, <1>2, <1>7 DEF BoardTyped, Sensors!board
    <2>2. BootInv'
      BY <1>1, <1>5, <1>7 DEF BootInv
    <2>. QED  BY <1>1, <2>1, <2>2, HoldKeeps DEF TofInv
  <1>. QED  BY <1>1, <1>6, <1>7 DEF Sensors!UpdateBit

\* The steps of the boot that write no register keep the invariant.
LEMMA BootStepsKeep ==
    ASSUME TofInv, Sensors!BusNotReady \/ Sensors!BusReady \/ Sensors!ImuNotReady \/ Sensors!Reinit
    PROVE  TofInv'
  <1>1. /\ bpc' \in {"main", "config", "end", "read"} /\ bpc \in {"bus", "main"}
        /\ bpc = "bus" \/ bpc' \in {"end", "read"}
        /\ UNCHANGED <<regs, todo, done, rc, now_ms, Sensors!hold, frame, Sensors!hist>>
        /\ tofdev' = tofdev \/ (tofdev = "booted" /\ tofdev' = "ranging")
    BY DEF Sensors!BusNotReady, Sensors!BusReady, Sensors!ImuNotReady, Sensors!Reinit, Sensors!board
  <1>2. BoardTyped /\ BootInv
    BY DEF TofInv
  <1>3. BoardTyped'
    BY <1>1, <1>2 DEF BoardTyped
  <1>4. BootInv'
    BY <1>1, <1>2 DEF BoardTyped, BootInv
  <1>. QED  BY <1>1, <1>3, <1>4, HoldKeeps DEF TofInv

\* An iteration of the loop keeps what it holds together.
LEMMA FrameKeeps ==
    ASSUME TofInv, Sensors!ImuError \/ Sensors!ReadSensorFrame
    PROVE  TofInv'
  <1>1. /\ bpc = "read" /\ bpc' \in {"read", "end"} /\ UNCHANGED <<regs, tofdev, todo, done, rc>>
        /\ \E x \in 1 .. MAX_TICK : now_ms' = now_ms + x
    BY DEF Sensors!ImuError, Sensors!ReadSensorFrame, Sensors!NextTick, Sensors!board
  <1>2. BoardTyped /\ BootInv /\ HeightInv /\ RateInv
    BY DEF TofInv
  <1>3. BoardTyped' /\ BootInv'
    BY <1>1, <1>2 DEF BoardTyped, BootInv
  <1>4. now_ms \in Nat \ {0} /\ now_ms' \in Nat \ {0}
    <2>1. now_ms \in Nat \ {0}
      BY <1>2 DEF HeightInv
    <2>2. PICK x \in 1 .. MAX_TICK : now_ms' = now_ms + x
      BY <1>1
    <2>3. x \in Nat
      OBVIOUS
    <2>. QED  BY <2>1, <2>2, <2>3
  <1>5. CASE UNCHANGED <<Sensors!hold, frame, Sensors!hist>>
    <2>1. HeightInv' /\ RateInv'
      BY <1>2, <1>4, <1>5 DEF HeightInv, RateInv, Sensors!hold, Sensors!hist
    <2>. QED  BY <1>3, <2>1 DEF TofInv
  <1>6. CASE Sensors!ReadSensorFrame
    <2>1. /\ \/ now_ms >= tof_next_ms /\ \E x \in BOOLEAN : Sensors!FetchTof(x)
             \/ UNCHANGED <<Sensors!hold, Sensors!hist>>
          /\ frame' = [height |-> IF tof_have' THEN tof_last_h' ELSE Sensors!START_Z,
                       tof_valid |-> tof_have', read |-> now_ms]
      BY <1>6 DEF Sensors!ReadSensorFrame
    <2>2. frame'.tof_valid = tof_have' /\ (tof_have' => frame'.height = tof_last_h')
      BY <2>1
    <2>3. CASE UNCHANGED <<Sensors!hold, Sensors!hist>>
      <3>1. HeightInv'
        BY <1>2, <1>4, <2>2, <2>3 DEF HeightInv, Sensors!hold, Sensors!hist
      <3>2. RateInv'
        BY <1>2, <2>3 DEF RateInv, Sensors!hold, Sensors!hist
      <3>. QED  BY <1>3, <3>1, <3>2 DEF TofInv
    <2>4. CASE now_ms >= tof_next_ms /\ \E x \in BOOLEAN : Sensors!FetchTof(x)
      <3>1. PICK x \in BOOLEAN : Sensors!FetchTof(x)
        BY <2>4
      <3>2. HeightInv'
        BY <1>2, <1>4, <2>2, <3>1 DEF HeightInv, Sensors!FetchTof
      <3>3. RateInv'
        <4>1. fetchedAt' = <<fetchedAt[2], now_ms>> /\ tof_next_ms' = now_ms + TOF_FETCH_PERIOD_MS
          BY <3>1 DEF Sensors!FetchTof
        <4>2. fetchedAt'[1] = fetchedAt[2] /\ fetchedAt'[2] = now_ms
          BY <4>1
        <4>3. TOF_FETCH_PERIOD_MS \in Nat
          BY ControllersAssumption
        <4>4. now_ms >= tof_next_ms
          BY <2>4
        <4>. QED  BY <1>2, <1>4, <4>1, <4>2, <4>3, <4>4 DEF RateInv
      <3>. QED  BY <1>3, <3>2, <3>3 DEF TofInv
    <2>. QED  BY <2>1, <2>3, <2>4
  <1>. QED  BY <1>5, <1>6 DEF Sensors!ImuError

\* Every step of FlightSensors keeps the invariant.
LEMMA TofKeeps == ASSUME TofInv, [Sensors!Next]_sensorVars PROVE TofInv'
  <1>1. CASE Sensors!Next
    BY <1>1, ResetKeeps, ConfigureKeeps, LowKeeps, HighKeeps, BootStepsKeep, FrameKeeps
       DEF Sensors!Next
  <1>2. CASE UNCHANGED sensorVars
    <2>1. BoardTyped' /\ BootInv'
      BY <1>2 DEF sensorVars, TofInv, BoardTyped, BootInv
    <2>2. HeightInv' /\ RateInv'
      BY <1>2 DEF sensorVars, TofInv, HeightInv, RateInv
    <2>. QED  BY <2>1, <2>2 DEF TofInv
  <1>. QED  BY <1>1, <1>2

\* The expander's other pins are left alone by every step.
LEMMA PinsLeft == ASSUME TofInv, Sensors!Next PROVE Sensors!OtherPinsStep
  <1>1. CASE UNCHANGED regs
    BY <1>1 DEF Sensors!OtherPinsStep
  <1>2. ASSUME NEW x \in Sensors!Regs, NEW y \in SUBSET Sensors!Channels,
               y \ {Sensors!XSHUT} = regs[x] \ {Sensors!XSHUT}, Sensors!UpdateBit(x, y)
        PROVE  Sensors!OtherPinsStep
    <2>1. CASE UNCHANGED Sensors!board
      BY <1>1, <2>1 DEF Sensors!board
    <2>2. CASE Sensors!WriteBit(x, y)
      <3>1. regs'[x] = y /\ \A r \in Sensors!Regs : r # x => regs'[r] = regs[r]
        BY <2>2, BitWritten
      <3>. QED  BY <1>2, <3>1 DEF Sensors!OtherPinsStep
    <2>. QED  BY <1>2, <2>1, <2>2 DEF Sensors!UpdateBit
  <1>3. /\ \A x \in Sensors!Regs : regs[x] \in SUBSET Sensors!Channels
        /\ Sensors!XSHUT \in Sensors!Channels /\ "GPO_VALUE" \in Sensors!Regs
        /\ todo \subseteq Sensors!Regs
    BY DEF TofInv, BoardTyped, Sensors!Channels, Sensors!Regs, Sensors!Config
  <1>4. CASE Sensors!Configure
    <2>1. PICK x \in todo : Sensors!UpdateBit(x, regs[x] \union {Sensors!XSHUT})
      BY <1>4 DEF Sensors!Configure
    <2>2. regs[x] \union {Sensors!XSHUT} \in SUBSET Sensors!Channels /\ x \in Sensors!Regs
      BY <1>3
    <2>3. (regs[x] \union {Sensors!XSHUT}) \ {Sensors!XSHUT} = regs[x] \ {Sensors!XSHUT}
      OBVIOUS
    <2>. QED  BY <1>2, <2>1, <2>2, <2>3
  <1>5. CASE Sensors!XshutLow
    <2>1. Sensors!UpdateBit("GPO_VALUE", regs["GPO_VALUE"] \ {Sensors!XSHUT})
      BY <1>5 DEF Sensors!XshutLow
    <2>2. regs["GPO_VALUE"] \ {Sensors!XSHUT} \in SUBSET Sensors!Channels
      BY <1>3
    <2>3. (regs["GPO_VALUE"] \ {Sensors!XSHUT}) \ {Sensors!XSHUT}
          = regs["GPO_VALUE"] \ {Sensors!XSHUT}
      OBVIOUS
    <2>. QED  BY <1>2, <1>3, <2>1, <2>2, <2>3
  <1>6. CASE Sensors!XshutHigh
    <2>1. Sensors!UpdateBit("GPO_VALUE", regs["GPO_VALUE"] \union {Sensors!XSHUT})
      BY <1>6 DEF Sensors!XshutHigh
    <2>2. regs["GPO_VALUE"] \union {Sensors!XSHUT} \in SUBSET Sensors!Channels
      BY <1>3
    <2>3. (regs["GPO_VALUE"] \union {Sensors!XSHUT}) \ {Sensors!XSHUT}
          = regs["GPO_VALUE"] \ {Sensors!XSHUT}
      OBVIOUS
    <2>. QED  BY <1>2, <1>3, <2>1, <2>2, <2>3
  <1>7. Sensors!Configure \/ Sensors!XshutLow \/ Sensors!XshutHigh \/ UNCHANGED regs
    BY DEF Sensors!Next, Sensors!WarmReset, Sensors!BusNotReady, Sensors!BusReady,
           Sensors!ImuNotReady, Sensors!Reinit, Sensors!ImuError, Sensors!ReadSensorFrame,
           Sensors!board
  <1>. QED  BY <1>1, <1>4, <1>5, <1>6, <1>7

\* Wherever an earlier boot was cut off, a ToF sensor that board_sensor_init reports as
\* powered was reset in this boot; a height passed on as valid is the newest one measured
\* in it, the sensor is asked once in a ranging period, and the expander's other pins are
\* left alone.
THEOREM TofIsTrusted == MCSpec => TofTrusted
  <1>. DEFINE SInv == part = "sensors" => TofInv
              Sound == part = "sensors" =>
                         Sensors!CleanBoot /\ Sensors!HeightMeasured /\ Sensors!PolledAtItsRate
              Pins == part = "sensors" => Sensors!OtherPinsStep
  <1>1. MCInit => SInv
    BY TofStart DEF MCInit
  <1>2. SInv /\ [MCNext]_mcVars => SInv'
    <2>. SUFFICES ASSUME SInv, [MCNext]_mcVars, part' = "sensors" PROVE TofInv'
      OBVIOUS
    <2>1. part = "sensors" /\ [Sensors!Next]_sensorVars
      BY DEF MCNext, mcVars
    <2>. QED  BY <2>1, TofKeeps
  <1>3. SInv => Sound
    <2>. SUFFICES ASSUME TofInv
                  PROVE  Sensors!CleanBoot /\ Sensors!HeightMeasured /\ Sensors!PolledAtItsRate
      OBVIOUS
    <2>1. Sensors!CleanBoot
      BY DEF TofInv, BootInv, Sensors!CleanBoot
    <2>2. Sensors!HeightMeasured
      BY DEF TofInv, HeightInv, Sensors!HeightMeasured, Sensors!Never
    <2>3. Sensors!PolledAtItsRate
      BY ControllersAssumption DEF TofInv, RateInv, Sensors!PolledAtItsRate, Sensors!Never
    <2>. QED  BY <2>1, <2>2, <2>3
  <1>4. SInv /\ [MCNext]_mcVars => [Pins]_mcVars
    <2>. SUFFICES ASSUME SInv, MCNext, part = "sensors" PROVE Sensors!OtherPinsStep
      OBVIOUS
    <2>1. Sensors!Next
      BY DEF MCNext
    <2>. QED  BY <2>1, PinsLeft
  <1>. HIDE DEF SInv, Sound, Pins
  <1>5. MCSpec => []Sound /\ [][Pins]_mcVars
    BY <1>1, <1>2, <1>3, <1>4, PTL DEF MCSpec
  <1>. QED  BY <1>5 DEF TofTrusted, Sound, Pins

-----------------------------------------------------------------------------
(* Estimator: the attitude *)

\* The rows of the matrix have its length and are orthogonal.
LEMMA RowsOrthogonal ==
    ASSUME NEW w \in Int, NEW x \in Int, NEW y \in Int, NEW z \in Int, NEW n \in Int, n = w*w + x*x + y*y + z*z
    PROVE  LET a == n - 2*(y*y + z*z)  b == 2*(x*y - w*z)      c == 2*(x*z + w*y)
               d == 2*(x*y + w*z)      e == n - 2*(x*x + z*z)  f == 2*(y*z - w*x)
               g == 2*(x*z - w*y)      h == 2*(y*z + w*x)      i == n - 2*(x*x + y*y)
           IN  /\ a*a + b*b + c*c = n*n /\ d*d + e*e + f*f = n*n /\ g*g + h*h + i*i = n*n
               /\ a*d + b*e + c*f = 0 /\ a*g + b*h + c*i = 0 /\ d*g + e*h + f*i = 0
               /\ d*a + e*b + f*c = 0 /\ g*a + h*b + i*c = 0 /\ g*d + h*e + i*f = 0
               /\ b*f - c*e = n*g /\ c*d - a*f = n*h /\ a*e - b*d = n*i
OBVIOUS

\* The invariant of the attitude: its components are integers.
TurnTypes == q \in [1 .. 4 -> Int] /\ gyro \in [1 .. 3 -> Int] /\ accel \in [1 .. 3 -> Int]

\* The matrix of any quaternion is a rotation.
LEMMA RotationIsProper == ASSUME TurnTypes PROVE Axis!RotationProper
<1>1. PICK w \in Int, x \in Int, y \in Int, z \in Int : w = q[1] /\ x = q[2] /\ y = q[3] /\ z = q[4]
  BY DEF TurnTypes
<1>2. PICK n \in Int : n = w*w + x*x + y*y + z*z
  OBVIOUS
<1> DEFINE a == n - 2*(y*y + z*z)
           b == 2*(x*y - w*z)
           c == 2*(x*z + w*y)
           d == 2*(x*y + w*z)
           e == n - 2*(x*x + z*z)
           f == 2*(y*z - w*x)
           g == 2*(x*z - w*y)
           h == 2*(y*z + w*x)
           i == n - 2*(x*x + y*y)
<1>3. /\ Axis!Norm(q) = n /\ Axis!Rot(q) = << <<a, b, c>>, <<d, e, f>>, <<g, h, i>> >> /\ Axis!Up(q) = <<g, h, i>>
  BY <1>1, <1>2 DEF Axis!Norm, Axis!Rot, Axis!Up
<1>4. /\ a*a + b*b + c*c = n*n /\ d*d + e*e + f*f = n*n /\ g*g + h*h + i*i = n*n
      /\ a*d + b*e + c*f = 0 /\ a*g + b*h + c*i = 0 /\ d*g + e*h + f*i = 0
      /\ d*a + e*b + f*c = 0 /\ g*a + h*b + i*c = 0 /\ g*d + h*e + i*f = 0
      /\ b*f - c*e = n*g /\ c*d - a*f = n*h /\ a*e - b*d = n*i
  BY <1>2, RowsOrthogonal
<1>5. a \in Int /\ b \in Int /\ c \in Int /\ d \in Int /\ e \in Int /\ f \in Int /\ g \in Int /\ h \in Int /\ i \in Int
  OBVIOUS
<1> HIDE DEF a, b, c, d, e, f, g, h, i
<1> DEFINE R == << <<a, b, c>>, <<d, e, f>>, <<g, h, i>> >>
<1>6. ASSUME NEW s \in 1 .. 3, NEW t \in 1 .. 3 PROVE Axis!Dot(R[s], R[t]) = IF s = t THEN n*n ELSE 0
  <2>1. CASE s = 1
    BY <2>1, <1>4 DEF Axis!Dot
  <2>2. CASE s = 2
    BY <2>2, <1>4 DEF Axis!Dot
  <2>3. CASE s = 3
    BY <2>3, <1>4 DEF Axis!Dot
  <2> QED
    BY <2>1, <2>2, <2>3
<1>7. Axis!Cross(R[1], R[2]) = [s \in 1 .. 3 |-> n * R[3][s]]
  <2>1. Axis!Cross(R[1], R[2]) = <<n*g, n*h, n*i>>
    BY <1>4 DEF Axis!Cross
  <2>2. [s \in 1 .. 3 |-> n * R[3][s]] = <<n*g, n*h, n*i>>
    OBVIOUS
  <2> QED
    BY <2>1, <2>2
<1> DEFINE u == [s \in 1 .. 3 |-> Gravity * <<g, h, i>>[s]]
<1>8. u[1] = Gravity * g /\ u[2] = Gravity * h /\ u[3] = Gravity * i
  OBVIOUS
<1>9. /\ Axis!Dot(R[1], u) = 0 /\ Axis!Dot(R[2], u) = 0 /\ Axis!Dot(R[3], u) = Gravity * (n*n)
  <2>0. Gravity \in Int
    BY EstimatorAssumption
  <2>1. a * (Gravity * g) + b * (Gravity * h) + c * (Gravity * i) = Gravity * (a*g + b*h + c*i)
    BY <2>0, <1>5
  <2>2. d * (Gravity * g) + e * (Gravity * h) + f * (Gravity * i) = Gravity * (d*g + e*h + f*i)
    BY <2>0, <1>5
  <2>3. g * (Gravity * g) + h * (Gravity * h) + i * (Gravity * i) = Gravity * (g*g + h*h + i*i)
    BY <2>0, <1>5
  <2> HIDE DEF u
  <2>4. /\ Axis!Dot(R[1], u) = Gravity * (a*g + b*h + c*i) /\ Axis!Dot(R[2], u) = Gravity * (d*g + e*h + f*i)
        /\ Axis!Dot(R[3], u) = Gravity * (g*g + h*h + i*i)
    BY <2>1, <2>2, <2>3, <1>8 DEF Axis!Dot
  <2> QED
    BY <2>0, <2>4, <1>4
<1>10. Axis!WorldAccel(q, u) = <<0, 0, Gravity * (n*n) - Gravity * n>>
  BY <1>3, <1>9 DEF Axis!WorldAccel
<1>11. Gravity * (n*n) - Gravity * n = Gravity * n * (n - 1)
  BY EstimatorAssumption
<1>12. u = [s \in 1 .. 3 |-> Gravity * Axis!Up(q)[s]]
  BY <1>3
<1>13. /\ Axis!WorldAccel(q, [s \in 1 .. 3 |-> Gravity * Axis!Up(q)[s]])[1] = 0
       /\ Axis!WorldAccel(q, [s \in 1 .. 3 |-> Gravity * Axis!Up(q)[s]])[2] = 0
       /\ Axis!WorldAccel(q, [s \in 1 .. 3 |-> Gravity * Axis!Up(q)[s]])[3] = Gravity * n * (n - 1)
  BY <1>10, <1>11, <1>12
<1>14. Axis!Rot(q)[3] = Axis!Up(q)
  BY <1>3
<1>15. \A s \in 1 .. 2 : Axis!WorldAccel(q, [t \in 1 .. 3 |-> Gravity * Axis!Up(q)[t]])[s] = 0
  BY <1>13
<1> QED
  BY <1>3, <1>6, <1>7, <1>13, <1>14, <1>15 DEF Axis!RotationProper

\* The trim is orthogonal to both its arguments, and a rate to its quaternion.
LEMMA TrimOrthogonal ==
    ASSUME NEW g \in Int, NEW h \in Int, NEW i \in Int, NEW s \in Int, NEW t \in Int, NEW u \in Int
    PROVE  /\ (t*i - u*h)*g + (u*g - s*i)*h + (s*h - t*g)*i = 0
           /\ h*i - i*h = 0 /\ i*g - g*i = 0 /\ g*h - h*g = 0
OBVIOUS

\* See TrimOrthogonal.
LEMMA RateOrthogonal ==
    ASSUME NEW w \in Int, NEW x \in Int, NEW y \in Int, NEW z \in Int, NEW s \in Int, NEW t \in Int, NEW u \in Int
    PROVE  /\ w * (-(x*s + y*t + z*u)) + x * (w*s + y*u - z*t) + y * (w*t - x*u + z*s) + z * (w*u + x*t - y*s) = 0
OBVIOUS

\* The accelerometer never corrects the heading.
LEMMA HeadingIsKept == ASSUME TurnTypes PROVE Axis!TrimKeepsHeading
<1>1. PICK w \in Int, x \in Int, y \in Int, z \in Int : w = q[1] /\ x = q[2] /\ y = q[3] /\ z = q[4]
  BY DEF TurnTypes
<1>2. PICK n \in Int : n = w*w + x*x + y*y + z*z
  OBVIOUS
<1>3. PICK g \in Int, h \in Int, i \in Int :
          g = 2*(x*z - w*y) /\ h = 2*(y*z + w*x) /\ i = n - 2*(x*x + y*y)
  OBVIOUS
<1>4. Axis!Rot(q)[3] = <<g, h, i>> /\ Axis!Up(q) = <<g, h, i>>
  BY <1>1, <1>2, <1>3 DEF Axis!Norm, Axis!Rot, Axis!Up
<1>5. PICK s \in Int, t \in Int, u \in Int : s = accel[1] /\ t = accel[2] /\ u = accel[3]
  BY DEF TurnTypes
<1>6. Axis!Trim(q, accel) = <<t*i - u*h, u*g - s*i, s*h - t*g>>
  BY <1>4, <1>5 DEF Axis!Trim
<1>7. Axis!Dot(Axis!Trim(q, accel), Axis!Rot(q)[3]) = 0
  <2>1. Axis!Dot(Axis!Trim(q, accel), Axis!Rot(q)[3]) = (t*i - u*h)*g + (u*g - s*i)*h + (s*h - t*g)*i
    BY <1>4, <1>6 DEF Axis!Dot
  <2> QED
    BY <2>1, TrimOrthogonal
<1>8. Axis!Trim(q, Axis!Rot(q)[3]) = <<0, 0, 0>>
  <2>1. Axis!Trim(q, Axis!Rot(q)[3]) = <<h*i - i*h, i*g - g*i, g*h - h*g>>
    BY <1>4 DEF Axis!Trim
  <2> QED
    BY <2>1, TrimOrthogonal
<1>9. PICK s1 \in Int, t1 \in Int, u1 \in Int : s1 = gyro[1] /\ t1 = gyro[2] /\ u1 = gyro[3]
  BY DEF TurnTypes
<1>10. Axis!Rate(q, gyro) = <<-(x*s1 + y*t1 + z*u1), w*s1 + y*u1 - z*t1, w*t1 - x*u1 + z*s1, w*u1 + x*t1 - y*s1>>
  BY <1>1, <1>9 DEF Axis!Rate
<1>11. q[1] * Axis!Rate(q, gyro)[1] + q[2] * Axis!Rate(q, gyro)[2] + q[3] * Axis!Rate(q, gyro)[3] + q[4] * Axis!Rate(q, gyro)[4] = 0
  <2>1. w * (-(x*s1 + y*t1 + z*u1)) + x * (w*s1 + y*u1 - z*t1) + y * (w*t1 - x*u1 + z*s1) + z * (w*u1 + x*t1 - y*s1) = 0
    BY RateOrthogonal
  <2> QED
    BY <2>1, <1>1, <1>10
<1> QED
  BY <1>7, <1>8, <1>11 DEF Axis!TrimKeepsHeading

\* The types are kept.
LEMMA TurnTypesKept == ASSUME TurnTypes, [Axis!Next]_axisVars PROVE TurnTypes'
<1>1. CASE Axis!Turn
  <2>1. /\ q' = [i \in 1 .. 4 |-> 2 * q[i] + DT * Axis!Rate(q, gyro)[i]] /\ UNCHANGED <<gyro, accel>>
    BY <1>1 DEF Axis!Turn
  <2>2. PICK w \in Int, x \in Int, y \in Int, z \in Int : w = q[1] /\ x = q[2] /\ y = q[3] /\ z = q[4]
    BY DEF TurnTypes
  <2>3. PICK s1 \in Int, t1 \in Int, u1 \in Int : s1 = gyro[1] /\ t1 = gyro[2] /\ u1 = gyro[3]
    BY DEF TurnTypes
  <2>4. Axis!Rate(q, gyro) = <<-(x*s1 + y*t1 + z*u1), w*s1 + y*u1 - z*t1, w*t1 - x*u1 + z*s1, w*u1 + x*t1 - y*s1>>
    BY <2>2, <2>3 DEF Axis!Rate
  <2>5. ASSUME NEW i \in 1 .. 4 PROVE q[i] \in Int /\ Axis!Rate(q, gyro)[i] \in Int
    <3>1. -(x*s1 + y*t1 + z*u1) \in Int /\ w*s1 + y*u1 - z*t1 \in Int /\ w*t1 - x*u1 + z*s1 \in Int /\ w*u1 + x*t1 - y*s1 \in Int
      OBVIOUS
    <3> QED
      BY <3>1, <2>4 DEF TurnTypes
  <2>6. \A i \in 1 .. 4 : 2 * q[i] + DT * Axis!Rate(q, gyro)[i] \in Int
    BY <2>5, EstimatorAssumption
  <2> QED
    BY <2>1, <2>6 DEF TurnTypes
<1>2. CASE UNCHANGED <<q, gyro, accel>>
  BY <1>2 DEF TurnTypes
<1> QED
  BY <1>1, <1>2 DEF Axis!Next, Axis!PredictStep, Axis!NoSample, Axis!EkfCorrect, Axis!ComplementaryCorrect, Axis!FuseWalls, Axis!Report, axisVars

\* They hold at the start.
LEMMA TurnTypesStart == ASSUME Axis!Init PROVE TurnTypes
<1>1. CASE q \in [1 .. 4 -> Component] /\ gyro \in [1 .. 3 -> Component] /\ accel \in [1 .. 3 -> Component]
  BY <1>1, EstimatorAssumption DEF TurnTypes
<1>2. CASE q = <<1, 0, 0, 0>> /\ gyro = <<0, 0, 0>> /\ accel = <<0, 0, 0>>
  BY <1>2 DEF TurnTypes
<1> QED
  BY <1>1, <1>2 DEF Axis!Init

\* Whatever the attitude, the rates and the force: the matrix that MahonyAttitude writes
\* out by hand is a rotation with the trim's up vector in it, and the accelerometer
\* corrects the tilt and never the heading.
THEOREM RotationIsSound == MCSpec => []RotationSound
  <1>. DEFINE RInv == part = "estimator" => TurnTypes
  <1>1. MCInit => RInv
    BY TurnTypesStart DEF MCInit
  <1>2. RInv /\ [MCNext]_mcVars => RInv'
    <2>. SUFFICES ASSUME RInv, [MCNext]_mcVars, part' = "estimator" PROVE TurnTypes'
      OBVIOUS
    <2>1. part = "estimator" /\ [Axis!Next]_axisVars
      BY DEF MCNext, mcVars
    <2>. QED  BY <2>1, TurnTypesKept
  <1>3. RInv => RotationSound
    BY RotationIsProper, HeadingIsKept DEF RotationSound
  <1>. HIDE DEF RInv
  <1>. QED  BY <1>1, <1>2, <1>3, PTL DEF MCSpec

-----------------------------------------------------------------------------
(* Estimator: the filter *)

Row == 1 .. 3

\* The variance of the combination x, y, z of the three states, under a covariance.
Variance(a, b, c, d, e, f, x, y, z) == a*x*x + d*y*y + f*z*z + 2*b*x*y + 2*c*x*z + 2*e*y*z

NoneNegative(a, b, c, d, e, f) == \A x, y, z \in Int : Variance(a, b, c, d, e, f, x, y, z) >= 0

\* A covariance: symmetric, and no combination has a negative variance.
IsCovariance(P) ==
    /\ P \in [Row -> [Row -> Int]]
    /\ P[2][1] = P[1][2] /\ P[3][1] = P[1][3] /\ P[3][2] = P[2][3]
    /\ NoneNegative(P[1][1], P[1][2], P[1][3], P[2][2], P[2][3], P[3][3])

IsFilter(s) ==
    /\ s \in [den : Nat \ {0}, p : Int, v : Int, ba : Int, P : [Row -> [Row -> Int]]]
    /\ IsCovariance(s.P)

\* A square is not negative.
LEMMA SquareNatural == ASSUME NEW x \in Int PROVE x*x \in Int /\ x*x >= 0
OBVIOUS

\* Nor is a product of numbers that are not.
LEMMA ProductNatural == ASSUME NEW x \in Int, NEW y \in Int, x >= 0, y >= 0 PROVE x*y \in Int /\ x*y >= 0
OBVIOUS

\* What the initial covariance gives a combination.
LEMMA FirstVariance ==
    ASSUME NEW a \in Int, NEW b \in Int, NEW c \in Int, NEW x \in Int, NEW y \in Int, NEW z \in Int
    PROVE  Variance(a*a, a*c, 0, c*c + b*b, 0, b*b, x, y, z) >= 0
<1>1. Variance(a*a, a*c, 0, c*c + b*b, 0, b*b, x, y, z) = (a*x + c*y)*(a*x + c*y) + (b*y)*(b*y) + (b*z)*(b*z)
  BY DEF Variance
<1>2. PICK s \in Int, t \in Int, u \in Int : s = a*x + c*y /\ t = b*y /\ u = b*z
  OBVIOUS
<1>3. s*s >= 0 /\ t*t >= 0 /\ u*u >= 0 /\ s*s \in Int /\ t*t \in Int /\ u*u \in Int
  BY SquareNatural
<1> QED
  BY <1>1, <1>2, <1>3

\* The step of the inequality of Cauchy and Schwarz: with g the variance of a state, w
\* that of a combination and m their covariance.
LEMMA Schwarz ==
    ASSUME NEW g \in Int, NEW w \in Int, NEW m \in Int, g >= 0, w >= 0,
           g * (g * w - m * m) >= 0, w + 2 * (-(w + 1) * m) * m + g * ((w + 1) * m) * ((w + 1) * m) >= 0
    PROVE  g * w - m * m >= 0
<1>1. CASE g >= 1
  <2>1. PICK u \in Int : u = g * w - m * m
    OBVIOUS
  <2>2. ASSUME u <= -1 PROVE FALSE
    <3>1. g * u <= g * (-1)
      BY <1>1, <2>2
    <3> QED
      BY <3>1, <2>1, <1>1
  <2> QED
    BY <2>1, <2>2
<1>2. CASE g = 0
  <2>1. w - 2 * ((w + 1) * (m * m)) >= 0
    BY <1>2
  <2>2. PICK u \in Int : u = m * m /\ u >= 0
    BY SquareNatural
  <2>3. ASSUME u >= 1 PROVE FALSE
    <3>1. (w + 1) * u >= (w + 1) * 1
      BY <2>3, <2>2
    <3> QED
      BY <3>1, <2>1, <2>2
  <2> QED
    BY <2>2, <2>3, <1>2
<1> QED
  BY <1>1, <1>2

\* The variances of the states themselves.
LEMMA Diagonal ==
    ASSUME NEW a \in Int, NEW b \in Int, NEW c \in Int, NEW d \in Int, NEW e \in Int, NEW f \in Int,
           NoneNegative(a, b, c, d, e, f)
    PROVE  a >= 0 /\ d >= 0
<1>1. Variance(a, b, c, d, e, f, 1, 0, 0) = a /\ Variance(a, b, c, d, e, f, 0, 1, 0) = d
  BY DEF Variance
<1>2. Variance(a, b, c, d, e, f, 1, 0, 0) >= 0 /\ Variance(a, b, c, d, e, f, 0, 1, 0) >= 0
  BY DEF NoneNegative
<1> QED
  BY <1>1, <1>2

\* The covariance of the first state with a combination.
LEMMA Schwarz1 ==
    ASSUME NEW a \in Int, NEW b \in Int, NEW c \in Int, NEW d \in Int, NEW e \in Int, NEW f \in Int,
           NoneNegative(a, b, c, d, e, f),
           NEW x \in Int, NEW y \in Int, NEW z \in Int
    PROVE  /\ a >= 0 /\ Variance(a, b, c, d, e, f, x, y, z) \in Int
           /\ a * Variance(a, b, c, d, e, f, x, y, z) - (a*x + b*y + c*z) * (a*x + b*y + c*z) >= 0
<1>0. \A x1, y1, z1 \in Int : Variance(a, b, c, d, e, f, x1, y1, z1) >= 0
  BY DEF NoneNegative
<1>1. PICK w \in Int : w = Variance(a, b, c, d, e, f, x, y, z) /\ w >= 0
  <2>1. Variance(a, b, c, d, e, f, x, y, z) \in Int
    BY DEF Variance
  <2> QED
    BY <2>1, <1>0
<1>2. PICK m \in Int : m = a*x + b*y + c*z
  OBVIOUS
<1>3. Variance(a, b, c, d, e, f, 1, 0, 0) = a
  BY DEF Variance
<1>4. a >= 0
  BY <1>0, <1>3
<1>5. a * (a * w - m * m) >= 0
  <2>1. Variance(a, b, c, d, e, f, a*x - m, a*y, a*z) >= 0
    <3>1. a*x - m \in Int /\ a*y \in Int /\ a*z \in Int
      OBVIOUS
    <3> QED
      BY <3>1, <1>0
  <2>2. Variance(a, b, c, d, e, f, a*x - m, a*y, a*z) = a * (a * w - m * m)
    BY <1>1, <1>2 DEF Variance
  <2> QED
    BY <2>1, <2>2
<1>6. w + 2 * (-(w + 1) * m) * m + a * ((w + 1) * m) * ((w + 1) * m) >= 0
  <2>1. Variance(a, b, c, d, e, f, x - (w + 1) * m, y, z) >= 0
    <3>1. x - (w + 1) * m \in Int
      OBVIOUS
    <3> QED
      BY <3>1, <1>0
  <2>2. Variance(a, b, c, d, e, f, x - (w + 1) * m, y, z) = w + 2 * (-(w + 1) * m) * m + a * ((w + 1) * m) * ((w + 1) * m)
    <3>1. PICK t \in Int : t = (w + 1) * m
      OBVIOUS
    <3>2. Variance(a, b, c, d, e, f, x - t, y, z) = Variance(a, b, c, d, e, f, x, y, z) - 2 * t * (a*x + b*y + c*z) + a * t * t
      BY DEF Variance
    <3> QED
      BY <3>1, <3>2, <1>1, <1>2
  <2> QED
    BY <2>1, <2>2
<1>7. a * w - m * m >= 0
  BY <1>1, <1>4, <1>5, <1>6, Schwarz
<1> QED
  BY <1>1, <1>2, <1>4, <1>7

\* The same for the second.
LEMMA Schwarz2 ==
    ASSUME NEW a \in Int, NEW b \in Int, NEW c \in Int, NEW d \in Int, NEW e \in Int, NEW f \in Int,
           NoneNegative(a, b, c, d, e, f),
           NEW x \in Int, NEW y \in Int, NEW z \in Int
    PROVE  /\ d >= 0 /\ Variance(a, b, c, d, e, f, x, y, z) \in Int
           /\ d * Variance(a, b, c, d, e, f, x, y, z) - (b*x + d*y + e*z) * (b*x + d*y + e*z) >= 0
<1>1. \A x1, y1, z1 \in Int : Variance(d, b, e, a, c, f, y1, x1, z1) = Variance(a, b, c, d, e, f, x1, y1, z1)
  BY DEF Variance
<1>2. NoneNegative(d, b, e, a, c, f)
  BY <1>1 DEF NoneNegative
<1>3. /\ d >= 0 /\ Variance(d, b, e, a, c, f, y, x, z) \in Int
      /\ d * Variance(d, b, e, a, c, f, y, x, z) - (d*y + b*x + e*z) * (d*y + b*x + e*z) >= 0
  BY <1>2, Schwarz1
<1>4. d*y + b*x + e*z = b*x + d*y + e*z
  OBVIOUS
<1> QED
  BY <1>1, <1>3, <1>4

\* A measurement of the first state leaves no combination a negative variance.
LEMMA MeasuredFirst ==
    ASSUME NEW a \in Int, NEW b \in Int, NEW c \in Int, NEW d \in Int, NEW e \in Int, NEW f \in Int,
           NoneNegative(a, b, c, d, e, f), NEW S \in Int, S >= a
    PROVE  NoneNegative(a*S - a*a, b*S - a*b, c*S - a*c, d*S - b*b, e*S - b*c, f*S - c*c)
<1>1. ASSUME NEW x \in Int, NEW y \in Int, NEW z \in Int
      PROVE  Variance(a*S - a*a, b*S - a*b, c*S - a*c, d*S - b*b, e*S - b*c, f*S - c*c, x, y, z) >= 0
  <2>1. /\ Variance(a, b, c, d, e, f, x, y, z) \in Int
        /\ a * Variance(a, b, c, d, e, f, x, y, z) - (a*x + b*y + c*z) * (a*x + b*y + c*z) >= 0
    BY Schwarz1
  <2>2. Variance(a, b, c, d, e, f, x, y, z) >= 0
    BY DEF NoneNegative
  <2>3. PICK u \in Int, o1 \in Int : u = Variance(a, b, c, d, e, f, x, y, z) /\ o1 = (a*x + b*y + c*z) * (a*x + b*y + c*z)
    BY <2>1
  <2>4. u >= 0 /\ a * u - o1 >= 0
    BY <2>1, <2>2, <2>3
  <2>5. S * u >= a * u
    BY <2>4
  <2>6. S * u - o1 >= 0
    BY <2>4, <2>5
  <2>7. Variance(a*S - a*a, b*S - a*b, c*S - a*c, d*S - b*b, e*S - b*c, f*S - c*c, x, y, z)
            = S * Variance(a, b, c, d, e, f, x, y, z) - (a*x + b*y + c*z) * (a*x + b*y + c*z)
    BY DEF Variance
  <2> QED
    BY <2>3, <2>6, <2>7
<1> QED
  BY <1>1 DEF NoneNegative

\* Nor does one of the second.
LEMMA MeasuredSecond ==
    ASSUME NEW a \in Int, NEW b \in Int, NEW c \in Int, NEW d \in Int, NEW e \in Int, NEW f \in Int,
           NoneNegative(a, b, c, d, e, f), NEW S \in Int, S >= d
    PROVE  NoneNegative(a*S - b*b, b*S - b*d, c*S - b*e, d*S - d*d, e*S - d*e, f*S - e*e)
<1>1. ASSUME NEW x \in Int, NEW y \in Int, NEW z \in Int
      PROVE  Variance(a*S - b*b, b*S - b*d, c*S - b*e, d*S - d*d, e*S - d*e, f*S - e*e, x, y, z) >= 0
  <2>1. /\ Variance(a, b, c, d, e, f, x, y, z) \in Int
        /\ d * Variance(a, b, c, d, e, f, x, y, z) - (b*x + d*y + e*z) * (b*x + d*y + e*z) >= 0
    BY Schwarz2
  <2>2. Variance(a, b, c, d, e, f, x, y, z) >= 0
    BY DEF NoneNegative
  <2>3. PICK u \in Int, o1 \in Int : u = Variance(a, b, c, d, e, f, x, y, z) /\ o1 = (b*x + d*y + e*z) * (b*x + d*y + e*z)
    BY <2>1
  <2>4. u >= 0 /\ d * u - o1 >= 0
    BY <2>1, <2>2, <2>3
  <2>5. S * u >= d * u
    BY <2>4
  <2>6. S * u - o1 >= 0
    BY <2>4, <2>5
  <2>7. Variance(a*S - b*b, b*S - b*d, c*S - b*e, d*S - d*d, e*S - d*e, f*S - e*e, x, y, z)
            = S * Variance(a, b, c, d, e, f, x, y, z) - (b*x + d*y + e*z) * (b*x + d*y + e*z)
    BY DEF Variance
  <2> QED
    BY <2>3, <2>6, <2>7
<1> QED
  BY <1>1 DEF NoneNegative

\* The entries of a filter's covariance.
LEMMA Entries ==
    ASSUME NEW s, IsFilter(s)
    PROVE  \E a \in Int, b \in Int, c \in Int, d \in Int, e \in Int, f \in Int :
             /\ a = s.P[1][1] /\ b = s.P[1][2] /\ c = s.P[1][3] /\ d = s.P[2][2] /\ e = s.P[2][3] /\ f = s.P[3][3]
             /\ b = s.P[2][1] /\ c = s.P[3][1] /\ e = s.P[3][2]
             /\ NoneNegative(a, b, c, d, e, f)
<1>1. \A j, k1 \in {1, 2, 3} : s.P[j][k1] \in Int
  BY DEF IsFilter, Row
<1>2. s.P[2][1] = s.P[1][2] /\ s.P[3][1] = s.P[1][3] /\ s.P[3][2] = s.P[2][3]
  BY DEF IsFilter, IsCovariance
<1>3. NoneNegative(s.P[1][1], s.P[1][2], s.P[1][3], s.P[2][2], s.P[2][3], s.P[3][3])
  BY DEF IsFilter, IsCovariance
<1>4. PICK a \in Int, b \in Int, c \in Int, d \in Int, e \in Int, f \in Int :
        /\ a = s.P[1][1] /\ b = s.P[1][2] /\ c = s.P[1][3] /\ d = s.P[2][2] /\ e = s.P[2][3] /\ f = s.P[3][3]
  BY <1>1
<1>5. NoneNegative(a, b, c, d, e, f)
  BY <1>3, <1>4
<1> QED
  BY <1>2, <1>4, <1>5

\* The filter after Correct, for the measured state i.
LEMMA CorrectedFilter ==
    ASSUME NEW s, IsFilter(s), NEW i \in {1, 2}, NEW m \in Int, NEW r \in Nat \ {0}
    PROVE  IsFilter(Axis!Correct(s, i, m, r))
<1>1. PICK a \in Int, b \in Int, c \in Int, d \in Int, e \in Int, f \in Int :
          /\ a = s.P[1][1] /\ b = s.P[1][2] /\ c = s.P[1][3] /\ d = s.P[2][2] /\ e = s.P[2][3] /\ f = s.P[3][3]
          /\ b = s.P[2][1] /\ c = s.P[3][1] /\ e = s.P[3][2]
          /\ NoneNegative(a, b, c, d, e, f)
  BY Entries
<1>2. PICK n \in Int, p1 \in Int, v1 \in Int, ba1 \in Int : n = s.den /\ p1 = s.p /\ v1 = s.v /\ ba1 = s.ba /\ n >= 1
  BY DEF IsFilter
<1>3. PICK g \in Int : g = s.P[i][i] /\ g >= 0
  <2>1. a >= 0 /\ d >= 0
    BY <1>1, Diagonal
  <2> QED
    BY <2>1, <1>1
<1>4. PICK S \in Int : S = g + r * n /\ S >= 1 /\ S >= g
  <2>1. r * n \in Int /\ r * n >= 1
    BY <1>2
  <2> QED
    BY <2>1, <1>3
<1>5. PICK res \in Int : res = m * n - (IF i = 1 THEN p1 ELSE v1)
  <2>1. m * n - p1 \in Int /\ m * n - v1 \in Int
    OBVIOUS
  <2> QED
    BY <2>1
<1> DEFINE w == [j \in 1 .. 3 |-> [k1 \in 1 .. 3 |-> s.P[j][k1] * S - s.P[i][j] * s.P[i][k1]]]
<1>6. Axis!Correct(s, i, m, r) =
          [den |-> n * S, p |-> p1 * S + s.P[i][1] * res, v |-> v1 * S + s.P[i][2] * res,
           ba |-> ba1 * S + s.P[i][3] * res, P |-> w]
  BY <1>2, <1>3, <1>4, <1>5 DEF Axis!Correct
<1>7. IsCovariance(w)
  <2>0. \A j, k1 \in Row : w[j][k1] = s.P[j][k1] * S - s.P[i][j] * s.P[i][k1]
    BY DEF Row
  <2>1. ASSUME NEW j \in Row, NEW k1 \in Row PROVE w[j][k1] \in Int
    <3>1. s.P[j][k1] \in Int /\ s.P[i][j] \in Int /\ s.P[i][k1] \in Int
      BY DEF IsFilter, Row
    <3>2. s.P[j][k1] * S - s.P[i][j] * s.P[i][k1] \in Int
      BY <3>1
    <3> QED
      BY <3>2 DEF Row
  <2>2. w \in [Row -> [Row -> Int]]
    BY <2>1 DEF Row
  <2>3. CASE i = 1
    <3>1. /\ w[1][1] = a*S - a*a /\ w[1][2] = b*S - a*b /\ w[1][3] = c*S - a*c
          /\ w[2][2] = d*S - b*b /\ w[2][3] = e*S - b*c /\ w[3][3] = f*S - c*c
          /\ w[2][1] = b*S - b*a /\ w[3][1] = c*S - c*a /\ w[3][2] = e*S - c*b
      <4>1. 1 \in Row /\ 2 \in Row /\ 3 \in Row
        BY DEF Row
      <4> HIDE DEF w
      <4>2. /\ w[1][1] = s.P[1][1]*S - s.P[i][1]*s.P[i][1] /\ w[1][2] = s.P[1][2]*S - s.P[i][1]*s.P[i][2] /\ w[1][3] = s.P[1][3]*S - s.P[i][1]*s.P[i][3]
            /\ w[2][2] = s.P[2][2]*S - s.P[i][2]*s.P[i][2] /\ w[2][3] = s.P[2][3]*S - s.P[i][2]*s.P[i][3] /\ w[3][3] = s.P[3][3]*S - s.P[i][3]*s.P[i][3]
            /\ w[2][1] = s.P[2][1]*S - s.P[i][2]*s.P[i][1] /\ w[3][1] = s.P[3][1]*S - s.P[i][3]*s.P[i][1] /\ w[3][2] = s.P[3][2]*S - s.P[i][3]*s.P[i][2]
        BY <4>1, <2>0, Zenon
      <4> QED
        BY <4>2, <2>3, <1>1, Zenon
    <3>2. w[2][1] = w[1][2] /\ w[3][1] = w[1][3] /\ w[3][2] = w[2][3]
      BY <3>1
    <3> HIDE DEF w
    <3>3. NoneNegative(w[1][1], w[1][2], w[1][3], w[2][2], w[2][3], w[3][3])
      <4>1. S >= a
        BY <2>3, <1>1, <1>3, <1>4
      <4>2. NoneNegative(a*S - a*a, b*S - a*b, c*S - a*c, d*S - b*b, e*S - b*c, f*S - c*c)
        BY <4>1, <1>1, MeasuredFirst
      <4> QED
        BY <4>2, <3>1, Zenon
    <3> QED
      BY <2>2, <3>2, <3>3 DEF IsCovariance
  <2>4. CASE i = 2
    <3>1. /\ w[1][1] = a*S - b*b /\ w[1][2] = b*S - b*d /\ w[1][3] = c*S - b*e
          /\ w[2][2] = d*S - d*d /\ w[2][3] = e*S - d*e /\ w[3][3] = f*S - e*e
          /\ w[2][1] = b*S - d*b /\ w[3][1] = c*S - e*b /\ w[3][2] = e*S - e*d
      <4>1. 1 \in Row /\ 2 \in Row /\ 3 \in Row
        BY DEF Row
      <4> HIDE DEF w
      <4>2. /\ w[1][1] = s.P[1][1]*S - s.P[i][1]*s.P[i][1] /\ w[1][2] = s.P[1][2]*S - s.P[i][1]*s.P[i][2] /\ w[1][3] = s.P[1][3]*S - s.P[i][1]*s.P[i][3]
            /\ w[2][2] = s.P[2][2]*S - s.P[i][2]*s.P[i][2] /\ w[2][3] = s.P[2][3]*S - s.P[i][2]*s.P[i][3] /\ w[3][3] = s.P[3][3]*S - s.P[i][3]*s.P[i][3]
            /\ w[2][1] = s.P[2][1]*S - s.P[i][2]*s.P[i][1] /\ w[3][1] = s.P[3][1]*S - s.P[i][3]*s.P[i][1] /\ w[3][2] = s.P[3][2]*S - s.P[i][3]*s.P[i][2]
        BY <4>1, <2>0, Zenon
      <4> QED
        BY <4>2, <2>4, <1>1, Zenon
    <3>2. w[2][1] = w[1][2] /\ w[3][1] = w[1][3] /\ w[3][2] = w[2][3]
      BY <3>1
    <3> HIDE DEF w
    <3>3. NoneNegative(w[1][1], w[1][2], w[1][3], w[2][2], w[2][3], w[3][3])
      <4>1. S >= d
        BY <2>4, <1>1, <1>3, <1>4
      <4>2. NoneNegative(a*S - b*b, b*S - b*d, c*S - b*e, d*S - d*d, e*S - d*e, f*S - e*e)
        BY <4>1, <1>1, MeasuredSecond
      <4> QED
        BY <4>2, <3>1, Zenon
    <3> QED
      BY <2>2, <3>2, <3>3 DEF IsCovariance
  <2> QED
    BY <2>3, <2>4
<1>8. n * S \in Nat \ {0}
  BY <1>2, <1>4
<1>9. /\ s.P[i][1] \in Int /\ s.P[i][2] \in Int /\ s.P[i][3] \in Int
  BY DEF IsFilter, Row
<1>10. /\ p1 * S + s.P[i][1] * res \in Int /\ v1 * S + s.P[i][2] * res \in Int /\ ba1 * S + s.P[i][3] * res \in Int
  BY <1>9
<1> HIDE DEF w
<1>11. w \in [Row -> [Row -> Int]]
  BY <1>7 DEF IsCovariance
<1> QED
  BY <1>6, <1>7, <1>8, <1>10, <1>11 DEF IsFilter

\* The filter after Predict.
LEMMA PredictedFilter ==
    ASSUME NEW s, IsFilter(s), NEW u \in Int
    PROVE  /\ IsFilter(Axis!Predict(s, u, Axis!SIGMA_A2, Axis!SIGMA_BA2))
           /\ Axis!Predict(s, u, Axis!SIGMA_A2, Axis!SIGMA_BA2).P = Axis!FPFtQ(s.P, s.den)
<1>1. PICK a \in Int, b \in Int, c \in Int, d \in Int, e \in Int, f \in Int :
          /\ a = s.P[1][1] /\ b = s.P[1][2] /\ c = s.P[1][3] /\ d = s.P[2][2] /\ e = s.P[2][3] /\ f = s.P[3][3]
          /\ b = s.P[2][1] /\ c = s.P[3][1] /\ e = s.P[3][2]
          /\ NoneNegative(a, b, c, d, e, f)
  BY Entries
<1>2. PICK n \in Int, p1 \in Int, v1 \in Int, ba1 \in Int : n = s.den /\ p1 = s.p /\ v1 = s.v /\ ba1 = s.ba /\ n >= 1
  BY DEF IsFilter
<1>3. PICK t \in Int, h \in Int : t = DT /\ h = Axis!H2
  <2>1. DT * DT \in Nat
    BY EstimatorAssumption
  <2>2. (DT * DT) \div 2 \in Int
    BY <2>1
  <2> QED
    BY <2>2, EstimatorAssumption DEF Axis!H2
<1>4. PICK a00 \in Int, a01 \in Int, a02 \in Int, a11 \in Int, a12 \in Int :
          /\ a00 = a + t * b - h * c /\ a01 = b + t * d - h * e /\ a02 = c + t * e - h * f
          /\ a11 = d - t * e /\ a12 = e - t * f
  OBVIOUS
<1>5. PICK c1 \in Int, c2 \in Int, c4 \in Int, c6 \in Int :
          /\ c1 = a00 + a01 * t - a02 * h + n * 1 * h * h /\ c2 = a01 - a02 * t + n * 1 * h * t
          /\ c4 = a11 - a12 * t + n * 1 * t * t /\ c6 = f + n * 1 * t * t
  OBVIOUS
<1> DEFINE w == << <<c1, c2, a02>>, <<c2, c4, a12>>, <<a02, a12, c6>> >>
<1>6. Axis!Predict(s, u, Axis!SIGMA_A2, Axis!SIGMA_BA2) =
          [s EXCEPT !.p = p1 + v1 * t + h * (u * n - ba1), !.v = v1 + (u * n - ba1) * t, !.P = w]
  BY <1>1, <1>2, <1>3, <1>4, <1>5 DEF Axis!Predict, Axis!Sym, Axis!SIGMA_A2, Axis!SIGMA_BA2, IsFilter
<1>7. w \in [Row -> [Row -> Int]] /\ w[2][1] = w[1][2] /\ w[3][1] = w[1][3] /\ w[3][2] = w[2][3]
  BY DEF Row
<1>8. NoneNegative(c1, c2, a02, c4, a12, c6)
  <2>1. n >= 0
    BY <1>2
  <2>2. NoneNegative(a, b, c, d, e, f)
    BY <1>1
  <2>3. /\ a00 = a + t * b - h * c /\ a01 = b + t * d - h * e /\ a02 = c + t * e - h * f
        /\ a11 = d - t * e /\ a12 = e - t * f
    BY <1>4
  <2>4. /\ c1 = a00 + a01 * t - a02 * h + n * 1 * h * h /\ c2 = a01 - a02 * t + n * 1 * h * t
        /\ c4 = a11 - a12 * t + n * 1 * t * t /\ c6 = f + n * 1 * t * t
    BY <1>5
  <2>5. ASSUME NEW x \in Int, NEW y \in Int, NEW z \in Int PROVE Variance(c1, c2, a02, c4, a12, c6, x, y, z) >= 0
    <3>1. PICK y1 \in Int, z1 \in Int : y1 = t*x + y /\ z1 = z - h*x - t*y
      OBVIOUS
    <3>2. PICK k1 \in Int, k2 \in Int : k1 = h*x + t*y /\ k2 = t*z
      OBVIOUS
    <3>3. Variance(c1, c2, a02, c4, a12, c6, x, y, z) = Variance(a, b, c, d, e, f, x, y1, z1) + n * (k1 * k1) + n * (k2 * k2)
      BY <2>3, <2>4, <3>1, <3>2 DEF Variance
    <3>4. k1 * k1 \in Int /\ k1 * k1 >= 0 /\ k2 * k2 \in Int /\ k2 * k2 >= 0
      BY SquareNatural
    <3>5. n * (k1 * k1) \in Int /\ n * (k1 * k1) >= 0 /\ n * (k2 * k2) \in Int /\ n * (k2 * k2) >= 0
      BY <2>1, <3>4, ProductNatural
    <3>6. Variance(a, b, c, d, e, f, x, y1, z1) >= 0
      BY <2>2 DEF NoneNegative
    <3>7. Variance(a, b, c, d, e, f, x, y1, z1) \in Int
      BY DEF Variance
    <3> QED
      BY <3>3, <3>5, <3>6, <3>7
  <2> QED
    BY <2>5 DEF NoneNegative
<1>9. IsCovariance(w)
  BY <1>7, <1>8 DEF IsCovariance
<1>10. p1 + v1 * t + h * (u * n - ba1) \in Int /\ v1 + (u * n - ba1) * t \in Int
  OBVIOUS
<1> HIDE DEF w
<1>11. IsFilter(Axis!Predict(s, u, Axis!SIGMA_A2, Axis!SIGMA_BA2))
  BY <1>6, <1>7, <1>9, <1>10 DEF IsFilter
<1>12. Axis!Predict(s, u, Axis!SIGMA_A2, Axis!SIGMA_BA2).P = w
  BY <1>6 DEF IsFilter
<1>13. Axis!FPFtQ(s.P, s.den) = w
  <2>1. s.P = << <<a, b, c>>, <<b, d, e>>, <<c, e, f>> >>
    <3>1. s.P = <<s.P[1], s.P[2], s.P[3]>>
      BY DEF IsFilter, Row
    <3>2. ASSUME NEW g \in [Row -> Int] PROVE g = <<g[1], g[2], g[3]>>
      BY DEF Row
    <3>3. s.P[1] \in [Row -> Int] /\ s.P[2] \in [Row -> Int] /\ s.P[3] \in [Row -> Int]
      BY DEF IsFilter, Row
    <3>4. s.P[1] = <<a, b, c>>
      BY <3>2, <3>3, <1>1, Zenon
    <3>5. s.P[2] = <<b, d, e>>
      BY <3>2, <3>3, <1>1, Zenon
    <3>6. s.P[3] = <<c, e, f>>
      BY <3>2, <3>3, <1>1, Zenon
    <3> QED
      BY <3>1, <3>4, <3>5, <3>6, Zenon
  <2>2. Axis!F = << <<1, t, -h>>, <<0, 1, -t>>, <<0, 0, 1>> >>
    BY <1>3 DEF Axis!F
  <2>3. Axis!Q = << <<h * h * 1, h * t * 1, 0>>, <<h * t * 1, t * t * 1, 0>>, <<0, 0, t * t * 1>> >>
    BY <1>3 DEF Axis!Q, Axis!SIGMA_A2, Axis!SIGMA_BA2
  <2>4. ASSUME NEW j \in Row
        PROVE  [k1 \in 1 .. 3 |-> Axis!Dot(s.P[k1], Axis!F[j])] =
                 << a * Axis!F[j][1] + b * Axis!F[j][2] + c * Axis!F[j][3],
                    b * Axis!F[j][1] + d * Axis!F[j][2] + e * Axis!F[j][3],
                    c * Axis!F[j][1] + e * Axis!F[j][2] + f * Axis!F[j][3] >>
    BY <2>1 DEF Axis!Dot
  <2> DEFINE E(i, j) == s.den * Axis!Q[i][j] + Axis!Dot(Axis!F[i], [k1 \in 1 .. 3 |-> Axis!Dot(s.P[k1], Axis!F[j])])
  <2>5. 1 \in Row /\ 2 \in Row /\ 3 \in Row
    BY DEF Row
  <2> DEFINE C(j) == [k1 \in 1 .. 3 |-> Axis!Dot(s.P[k1], Axis!F[j])]
  <2>f1. Axis!F[1] = <<1, t, -h>> /\ Axis!F[1][1] = 1 /\ Axis!F[1][2] = t /\ Axis!F[1][3] = -h
    BY <2>2
  <2>f2. Axis!F[2] = <<0, 1, -t>> /\ Axis!F[2][1] = 0 /\ Axis!F[2][2] = 1 /\ Axis!F[2][3] = -t
    BY <2>2
  <2>f3. Axis!F[3] = <<0, 0, 1>> /\ Axis!F[3][1] = 0 /\ Axis!F[3][2] = 0 /\ Axis!F[3][3] = 1
    BY <2>2
  <2>6. C(1) = <<a00, a01, a02>>
    <3>1. a * 1 + b * t + c * (-h) = a00 /\ b * 1 + d * t + e * (-h) = a01 /\ c * 1 + e * t + f * (-h) = a02
      BY <1>4
    <3>2. C(1) = << a * Axis!F[1][1] + b * Axis!F[1][2] + c * Axis!F[1][3],
                    b * Axis!F[1][1] + d * Axis!F[1][2] + e * Axis!F[1][3],
                    c * Axis!F[1][1] + e * Axis!F[1][2] + f * Axis!F[1][3] >>
      BY <2>4, <2>5
    <3> QED
      BY <3>1, <3>2, <2>f1, Zenon
  <2>7. C(2) = <<b - c * t, a11, a12>>
    <3>1. a * 0 + b * 1 + c * (-t) = b - c * t /\ b * 0 + d * 1 + e * (-t) = a11 /\ c * 0 + e * 1 + f * (-t) = a12
      BY <1>4
    <3>2. C(2) = << a * Axis!F[2][1] + b * Axis!F[2][2] + c * Axis!F[2][3],
                    b * Axis!F[2][1] + d * Axis!F[2][2] + e * Axis!F[2][3],
                    c * Axis!F[2][1] + e * Axis!F[2][2] + f * Axis!F[2][3] >>
      BY <2>4, <2>5
    <3> QED
      BY <3>1, <3>2, <2>f2, Zenon
  <2>8. C(3) = <<c, e, f>>
    <3>1. a * 0 + b * 0 + c * 1 = c /\ b * 0 + d * 0 + e * 1 = e /\ c * 0 + e * 0 + f * 1 = f
      OBVIOUS
    <3>2. C(3) = << a * Axis!F[3][1] + b * Axis!F[3][2] + c * Axis!F[3][3],
                    b * Axis!F[3][1] + d * Axis!F[3][2] + e * Axis!F[3][3],
                    c * Axis!F[3][1] + e * Axis!F[3][2] + f * Axis!F[3][3] >>
      BY <2>4, <2>5
    <3> QED
      BY <3>1, <3>2, <2>f3, Zenon
  <2>9. ASSUME NEW j \in Row, NEW k1 \in Row
        PROVE  E(j, k1) = n * Axis!Q[j][k1] +
                   (Axis!F[j][1] * C(k1)[1] + Axis!F[j][2] * C(k1)[2] + Axis!F[j][3] * C(k1)[3])
    BY <1>2, Zenon DEF Axis!Dot
  <2>c. /\ C(1)[1] = a00 /\ C(1)[2] = a01 /\ C(1)[3] = a02
        /\ C(2)[1] = b - c * t /\ C(2)[2] = a11 /\ C(2)[3] = a12
        /\ C(3)[1] = c /\ C(3)[2] = e /\ C(3)[3] = f
    <3> HIDE DEF C
    <3> QED
      BY <2>6, <2>7, <2>8
  <2>q. /\ Axis!Q[1][1] = h * h * 1 /\ Axis!Q[1][2] = h * t * 1 /\ Axis!Q[1][3] = 0
        /\ Axis!Q[2][1] = h * t * 1 /\ Axis!Q[2][2] = t * t * 1 /\ Axis!Q[2][3] = 0
        /\ Axis!Q[3][1] = 0 /\ Axis!Q[3][2] = 0 /\ Axis!Q[3][3] = t * t * 1
    BY <2>3
  <2> HIDE DEF C, E
  <2>e11. E(1, 1) = c1
    <3>1. E(1, 1) = n * (h * h * 1) + (1 * a00 + t * a01 + (-h) * a02)
      BY <2>9, <2>5, <2>c, <2>q, <2>f1, Zenon
    <3> QED
      BY <3>1, <1>5
  <2>e12. E(1, 2) = c2
    <3>1. E(1, 2) = n * (h * t * 1) + (1 * (b - c * t) + t * a11 + (-h) * a12)
      BY <2>9, <2>5, <2>c, <2>q, <2>f1, Zenon
    <3> QED
      BY <3>1, <1>4, <1>5
  <2>e13. E(1, 3) = a02
    <3>1. E(1, 3) = n * 0 + (1 * c + t * e + (-h) * f)
      BY <2>9, <2>5, <2>c, <2>q, <2>f1, Zenon
    <3> QED
      BY <3>1, <1>4
  <2>e21. E(2, 1) = c2
    <3>1. E(2, 1) = n * (h * t * 1) + (0 * a00 + 1 * a01 + (-t) * a02)
      BY <2>9, <2>5, <2>c, <2>q, <2>f2, Zenon
    <3> QED
      BY <3>1, <1>5
  <2>e22. E(2, 2) = c4
    <3>1. E(2, 2) = n * (t * t * 1) + (0 * (b - c * t) + 1 * a11 + (-t) * a12)
      BY <2>9, <2>5, <2>c, <2>q, <2>f2, Zenon
    <3> QED
      BY <3>1, <1>5
  <2>e23. E(2, 3) = a12
    <3>1. E(2, 3) = n * 0 + (0 * c + 1 * e + (-t) * f)
      BY <2>9, <2>5, <2>c, <2>q, <2>f2, Zenon
    <3> QED
      BY <3>1, <1>4
  <2>e31. E(3, 1) = a02
    <3>1. E(3, 1) = n * 0 + (0 * a00 + 0 * a01 + 1 * a02)
      BY <2>9, <2>5, <2>c, <2>q, <2>f3, Zenon
    <3> QED
      BY <3>1
  <2>e32. E(3, 2) = a12
    <3>1. E(3, 2) = n * 0 + (0 * (b - c * t) + 0 * a11 + 1 * a12)
      BY <2>9, <2>5, <2>c, <2>q, <2>f3, Zenon
    <3> QED
      BY <3>1
  <2>e33. E(3, 3) = c6
    <3>1. E(3, 3) = n * (t * t * 1) + (0 * c + 0 * e + 1 * f)
      BY <2>9, <2>5, <2>c, <2>q, <2>f3, Zenon
    <3> QED
      BY <3>1, <1>5
  <2>10. Axis!FPFtQ(s.P, s.den) = [i \in 1 .. 3 |-> [j \in 1 .. 3 |-> E(i, j)]]
    BY DEF Axis!FPFtQ, E
  <2>11. [i \in 1 .. 3 |-> [j \in 1 .. 3 |-> E(i, j)]] = w
    BY <2>e11, <2>e12, <2>e13, <2>e21, <2>e22, <2>e23, <2>e31, <2>e32, <2>e33 DEF w
  <2> QED
    BY <2>10, <2>11
<1> QED
  BY <1>11, <1>12, <1>13

\* A quotient of a product.
LEMMA Quotient == ASSUME NEW n \in Nat \ {0}, NEW k1 \in Int PROVE (n * k1) \div n = k1
OBVIOUS

\* The filters an estimator starts with.
LEMMA FirstFilter ==
    ASSUME NEW p0 \in Int, NEW v0 \in Int, NEW b0 \in Int, NEW a \in Int, NEW b \in Int, NEW c \in Int
    PROVE  IsFilter(Axis!Filter(p0, v0, b0, Axis!Covariance(<<a, b, c>>)))
<1>1. PICK g \in Int, h \in Int, i \in Int, j \in Int : g = a*a /\ h = a*c /\ i = c*c + b*b /\ j = b*b
  OBVIOUS
<1> DEFINE w == << <<g, h, 0>>, <<h, i, 0>>, <<0, 0, j>> >>
<1>2. Axis!Covariance(<<a, b, c>>) = w
  BY <1>1 DEF Axis!Covariance, Axis!Sym
<1>3. w \in [Row -> [Row -> Int]] /\ w[2][1] = w[1][2] /\ w[3][1] = w[1][3] /\ w[3][2] = w[2][3]
  BY DEF Row
<1>4. ASSUME NEW x \in Int, NEW y \in Int, NEW z \in Int PROVE Variance(g, h, 0, i, 0, j, x, y, z) >= 0
  <2>1. Variance(a*a, a*c, 0, c*c + b*b, 0, b*b, x, y, z) >= 0
    BY FirstVariance
  <2> QED
    BY <2>1, <1>1, Zenon
<1>5. NoneNegative(g, h, 0, i, 0, j)
  BY <1>4 DEF NoneNegative
<1>6. IsCovariance(w)
  BY <1>3, <1>5 DEF IsCovariance
<1> HIDE DEF w
<1>7. Axis!Filter(p0, v0, b0, Axis!Covariance(<<a, b, c>>)) = [den |-> 1, p |-> p0, v |-> v0, ba |-> b0, P |-> w]
  BY <1>2 DEF Axis!Filter
<1>8. PICK s : s = [den |-> 1, p |-> p0, v |-> v0, ba |-> b0, P |-> w]
  OBVIOUS
<1>9. s \in [den : Nat \ {0}, p : Int, v : Int, ba : Int, P : [Row -> [Row -> Int]]]
  BY <1>3, <1>8
<1>10. s.P = w
  BY <1>8
<1>11. IsFilter(s)
  BY <1>6, <1>9, <1>10, Zenon DEF IsFilter
<1> QED
  BY <1>7, <1>8, <1>11, Zenon

\* A covariance gives no combination of the states a negative variance.
LEMMA QuadraticNatural ==
    ASSUME NEW s, IsFilter(s), NEW x \in [1 .. 3 -> -1 .. 1]
    PROVE  Axis!Quadratic(s.P, x) >= 0
<1>1. PICK a \in Int, b \in Int, c \in Int, d \in Int, e \in Int, f \in Int :
          /\ a = s.P[1][1] /\ b = s.P[1][2] /\ c = s.P[1][3] /\ d = s.P[2][2] /\ e = s.P[2][3] /\ f = s.P[3][3]
          /\ b = s.P[2][1] /\ c = s.P[3][1] /\ e = s.P[3][2]
          /\ NoneNegative(a, b, c, d, e, f)
  BY Entries
<1>2. PICK x1 \in Int, y1 \in Int, z1 \in Int : x1 = x[1] /\ y1 = x[2] /\ z1 = x[3]
  OBVIOUS
<1> DEFINE D == [i \in 1 .. 3 |-> Axis!Dot(s.P[i], x)]
<1>3. D[1] = Axis!Dot(s.P[1], x) /\ D[2] = Axis!Dot(s.P[2], x) /\ D[3] = Axis!Dot(s.P[3], x)
  OBVIOUS
<1> HIDE DEF D
<1>4. D[1] = a*x1 + b*y1 + c*z1 /\ D[2] = b*x1 + d*y1 + e*z1 /\ D[3] = c*x1 + e*y1 + f*z1
  BY <1>1, <1>2, <1>3, Zenon DEF Axis!Dot
<1>5. Axis!Quadratic(s.P, x) = x1 * (a*x1 + b*y1 + c*z1) + y1 * (b*x1 + d*y1 + e*z1) + z1 * (c*x1 + e*y1 + f*z1)
  <2>1. Axis!Quadratic(s.P, x) = x[1] * D[1] + x[2] * D[2] + x[3] * D[3]
    BY Zenon DEF Axis!Quadratic, Axis!Dot, D
  <2> QED
    BY <2>1, <1>2, <1>4, Zenon
<1>6. Variance(a, b, c, d, e, f, x1, y1, z1) >= 0
  BY <1>1 DEF NoneNegative
<1>7. x1 * (a*x1 + b*y1 + c*z1) + y1 * (b*x1 + d*y1 + e*z1) + z1 * (c*x1 + e*y1 + f*z1) = Variance(a, b, c, d, e, f, x1, y1, z1)
  BY DEF Variance
<1> QED
  BY <1>5, <1>6, <1>7

\* The measured state lies between what it was and the measurement: was and left are the
\* distances before and after, over one denominator.
Between(was, left) == (was >= 0 /\ 0 <= left /\ left <= was) \/ (was <= 0 /\ was <= left /\ left <= 0)

\* A distance that shrinks by a factor g of S.
LEMMA Shrunk ==
    ASSUME NEW res \in Int, NEW g \in Int, NEW S \in Int, 0 <= g, g <= S
    PROVE  Between(res * S, res * g)
<1>1. CASE res >= 0
  <2>1. res * g >= 0 /\ res * S >= 0
    BY <1>1
  <2>2. res * (S - g) >= 0
    BY <1>1
  <2> QED
    BY <2>1, <2>2 DEF Between
<1>2. CASE res <= 0
  <2>1. (-res) * g >= 0 /\ (-res) * S >= 0
    BY <1>2
  <2>2. (-res) * (S - g) >= 0
    BY <1>2
  <2> QED
    BY <2>1, <2>2 DEF Between
<1> QED
  BY <1>1, <1>2

\* A measurement makes no state less certain and draws the measured one towards itself.
LEMMA Corrected ==
    ASSUME NEW s, IsFilter(s), NEW i \in {1, 2}, NEW m \in Int, NEW r \in Nat \ {0},
           NEW o, o = Axis!Correct(s, i, m, r)
    PROVE  /\ \A j \in Row : o.P[j][j] <= s.P[j][j] * (o.den \div s.den)
           /\ LET x(u) == IF i = 1 THEN u.p ELSE u.v
              IN  Between((m * s.den - x(s)) * (o.den \div s.den), m * o.den - x(o))
<1>1. PICK n \in Int, p1 \in Int, v1 \in Int, ba1 \in Int : n = s.den /\ p1 = s.p /\ v1 = s.v /\ ba1 = s.ba /\ n >= 1
  BY DEF IsFilter
<1>2. PICK g \in Int : g = s.P[i][i] /\ g >= 0
  <2>1. PICK a \in Int, b \in Int, c \in Int, d \in Int, e \in Int, f \in Int :
          /\ a = s.P[1][1] /\ d = s.P[2][2] /\ NoneNegative(a, b, c, d, e, f)
    BY Entries
  <2>2. a >= 0 /\ d >= 0
    BY <2>1, Diagonal
  <2> QED
    BY <2>1, <2>2
<1>3. PICK t \in Int : t = r * n /\ t >= 0
  BY <1>1
<1>4. PICK S \in Int : S = g + t
  OBVIOUS
<1>5. PICK x1 \in Int : x1 = IF i = 1 THEN p1 ELSE v1
  OBVIOUS
<1>6. PICK res \in Int : res = m * n - x1
  OBVIOUS
<1>7. /\ o.den = n * S /\ o.p = p1 * S + s.P[i][1] * res /\ o.v = v1 * S + s.P[i][2] * res
      /\ o.P = [j \in 1 .. 3 |-> [k1 \in 1 .. 3 |-> s.P[j][k1] * S - s.P[i][j] * s.P[i][k1]]]
  BY <1>1, <1>2, <1>3, <1>4, <1>5, <1>6 DEF Axis!Correct
<1>8. o.den \div s.den = S
  <2>1. (n * S) \div n = S
    BY <1>1, Quotient
  <2> QED
    BY <2>1, <1>1, <1>7, Zenon
<1>9. ASSUME NEW j \in Row PROVE o.P[j][j] <= s.P[j][j] * (o.den \div s.den)
  <2>1. o.P[j][j] = s.P[j][j] * S - s.P[i][j] * s.P[i][j]
    BY <1>7 DEF Row
  <2>2. PICK y \in Int, z \in Int : y = s.P[j][j] /\ z = s.P[i][j]
    BY DEF IsFilter, Row
  <2>3. z * z >= 0
    BY SquareNatural
  <2>4. y * S - z * z <= y * S
    BY <2>3
  <2> QED
    BY <2>1, <2>2, <2>4, <1>8, Zenon
<1> DEFINE x(u) == IF i = 1 THEN u.p ELSE u.v
<1>10. x(s) = x1 /\ x(o) = x1 * S + g * res
  <2>1. CASE i = 1
    BY <2>1, <1>1, <1>2, <1>5, <1>7, Zenon
  <2>2. CASE i = 2
    <3>1. i # 1
      BY <2>2
    <3> QED
      BY <3>1, <2>2, <1>1, <1>2, <1>5, <1>7, Zenon
  <2> QED
    BY <2>1, <2>2
<1> HIDE DEF x
<1>11. m * o.den - x(o) = res * t
  <2>1. m * (n * S) - (x1 * S + g * res) = res * t
    BY <1>4, <1>6
  <2> QED
    BY <2>1, <1>7, <1>10, Zenon
<1>12. Between(res * S, res * t)
  <2>1. 0 <= t /\ t <= S
    BY <1>2, <1>3, <1>4
  <2> QED
    BY <2>1, Shrunk
<1>13. (m * s.den - x(s)) * (o.den \div s.den) = res * S
  BY <1>1, <1>6, <1>8, <1>10, Zenon
<1>14. Between((m * s.den - x(s)) * (o.den \div s.den), m * o.den - x(o))
  BY <1>11, <1>12, <1>13, Zenon
<1> QED
  BY <1>9, <1>14 DEF x

\* The inductive invariant: the filter is one, and what the properties say of it.
FilterSound ==
    /\ IsFilter(kf) /\ aw \in Int /\ filter \in {"ekf", "complementary"} /\ axis \in {"x", "z"}
    /\ stage # "end" => lead = <<0, 0>>
    /\ Axis!CovarianceSound /\ Axis!DrawnToMeasurement /\ Axis!LeadIsPrediction

\* A step that lets in no measurement, other than Report and Turn.
LEMMA NothingMeasured ==
    ASSUME FilterSound, IsFilter(kf)', aw' \in Int, meas' = Axis!NoMeas, UNCHANGED <<filter, axis, lead>>,
           stage # "end", stage' # "end", stage' = "correct" /\ filter = "ekf" => (kf.P = Axis!FPFtQ(before.P, before.den))'
    PROVE  FilterSound'
<1>1. meas'.row = 0
  BY DEF Axis!NoMeas
<1>2. (\A x \in [1 .. 3 -> -1 .. 1] : Axis!Quadratic(kf.P, x) >= 0)'
  BY QuadraticNatural
<1>3. Axis!CovarianceSound'
  BY <1>1, <1>2 DEF Axis!CovarianceSound
<1>4. Axis!DrawnToMeasurement'
  BY <1>1 DEF Axis!DrawnToMeasurement
<1>5. Axis!LeadIsPrediction'
  BY DEF Axis!LeadIsPrediction
<1> QED
  BY <1>3, <1>4, <1>5 DEF FilterSound

\* A step that lets in a measurement.
LEMMA OneMeasured ==
    ASSUME FilterSound, IsFilter(kf)', aw' \in Int, UNCHANGED <<filter, axis, lead>>,
           stage # "end", stage' # "end", stage' # "correct",
           filter = "ekf" => (\A i \in Row : kf.P[i][i] <= before.P[i][i] * (kf.den \div before.den))',
           Axis!DrawnToMeasurement'
    PROVE  FilterSound'
<1>1. (\A x \in [1 .. 3 -> -1 .. 1] : Axis!Quadratic(kf.P, x) >= 0)'
  BY QuadraticNatural
<1>2. Axis!CovarianceSound'
  BY <1>1 DEF Axis!CovarianceSound, Row
<1>3. Axis!LeadIsPrediction'
  BY DEF Axis!LeadIsPrediction
<1> QED
  BY <1>2, <1>3 DEF FilterSound

\* At the start.
LEMMA FilterSoundStart == ASSUME Axis!Init PROVE FilterSound
<1>1. IsFilter(kf)
  <2>1. CASE kf = Axis!Filter(0, 0, 0, Axis!Covariance(<<1, 1, 0>>))
    BY <2>1, FirstFilter
  <2>2. CASE \E p0, v0, b0 \in Readings, l \in Axis!Squares : kf = Axis!Filter(p0, v0, b0, Axis!Covariance(l))
    <3>1. PICK p0 \in Readings, v0 \in Readings, b0 \in Readings, l \in Axis!Squares : kf = Axis!Filter(p0, v0, b0, Axis!Covariance(l))
      BY <2>2
    <3>2. PICK a \in Variances, b \in Variances, c \in {0, 1} : l = <<a, b, c>>
      BY DEF Axis!Squares
    <3>3. p0 \in Int /\ v0 \in Int /\ b0 \in Int /\ a \in Int /\ b \in Int /\ c \in Int
      BY <3>1, <3>2, EstimatorAssumption
    <3>4. IsFilter(Axis!Filter(p0, v0, b0, Axis!Covariance(<<a, b, c>>)))
      BY <3>3, FirstFilter
    <3> QED
      BY <3>1, <3>2, <3>4
  <2> QED
    BY <2>1, <2>2 DEF Axis!Init
<1>2. /\ aw = 0 /\ meas = Axis!NoMeas /\ lead = <<0, 0>> /\ stage \in {"attitude", "predict"}
      /\ filter \in {"ekf", "complementary"} /\ axis \in {"x", "z"}
  BY DEF Axis!Init
<1>3. meas.row = 0
  BY <1>2 DEF Axis!NoMeas
<1>4. \A x \in [1 .. 3 -> -1 .. 1] : Axis!Quadratic(kf.P, x) >= 0
  BY <1>1, QuadraticNatural
<1>5. stage # "correct" /\ stage # "end"
  BY <1>2
<1> QED
  BY <1>1, <1>2, <1>3, <1>4, <1>5 DEF FilterSound, Axis!CovarianceSound, Axis!DrawnToMeasurement, Axis!LeadIsPrediction

\* The complementary filter's steps leave a filter.
LEMMA ChangedFilter ==
    ASSUME NEW s, IsFilter(s), NEW n \in Nat \ {0}, NEW x \in Int, NEW y \in Int, NEW z \in Int
    PROVE  IsFilter([s EXCEPT !.den = n, !.p = x, !.v = y, !.ba = z])
<1>1. PICK o : o = [s EXCEPT !.den = n, !.p = x, !.v = y, !.ba = z]
  OBVIOUS
<1>2. o = [den |-> n, p |-> x, v |-> y, ba |-> z, P |-> s.P]
  BY <1>1 DEF IsFilter
<1>3. o \in [den : Nat \ {0}, p : Int, v : Int, ba : Int, P : [Row -> [Row -> Int]]] /\ o.P = s.P
  BY <1>2 DEF IsFilter
<1>4. IsFilter(o)
  BY <1>3, Zenon DEF IsFilter
<1> QED
  BY <1>1, <1>4, Zenon

\* PredictStep.
LEMMA PredictKept == ASSUME FilterSound, Axis!PredictStep PROVE FilterSound'
<1>1. PICK a \in Readings :
        /\ aw' = a
        /\ kf' = IF filter = "ekf" THEN Axis!Predict(kf, a, Axis!SIGMA_A2, Axis!SIGMA_BA2)
                 ELSE [kf EXCEPT !.v = @ + a * DT, !.ba = 0]
  BY DEF Axis!PredictStep
<1>2. /\ stage = "predict" /\ stage' = "correct" /\ before' = kf /\ meas' = Axis!NoMeas
      /\ UNCHANGED <<filter, axis, lead>>
  BY DEF Axis!PredictStep
<1>3. a \in Int /\ DT \in Int /\ IsFilter(kf)
  BY EstimatorAssumption DEF FilterSound
<1>4. CASE filter = "ekf"
  <2>1. kf' = Axis!Predict(kf, a, Axis!SIGMA_A2, Axis!SIGMA_BA2)
    BY <1>1, <1>4
  <2>2. IsFilter(kf') /\ kf'.P = Axis!FPFtQ(kf.P, kf.den)
    BY <2>1, <1>3, PredictedFilter
  <2>3. kf'.P = Axis!FPFtQ(before'.P, before'.den)
    BY <2>2, <1>2
  <2>4. stage # "end" /\ stage' # "end" /\ aw' \in Int
    BY <1>1, <1>2, <1>3
  <2> QED
    BY <2>2, <2>3, <2>4, <1>2, NothingMeasured
<1>5. CASE filter # "ekf"
  <2>1. kf' = [kf EXCEPT !.v = @ + a * DT, !.ba = 0]
    BY <1>1, <1>5
  <2>2. PICK n \in Nat \ {0}, x \in Int, y \in Int : n = kf.den /\ x = kf.p /\ y = kf.v
    BY <1>3 DEF IsFilter
  <2>3. kf' = [kf EXCEPT !.den = n, !.p = x, !.v = y + a * DT, !.ba = 0]
    BY <2>1, <2>2, <1>3 DEF IsFilter
  <2>4. y + a * DT \in Int
    BY <1>3
  <2>5. IsFilter(kf')
    <3>1. PICK z \in Int, y1 \in Int : z = 0 /\ y1 = y + a * DT
      BY <2>4
    <3>2. IsFilter([kf EXCEPT !.den = n, !.p = x, !.v = y1, !.ba = z])
      BY <1>3, ChangedFilter
    <3> QED
      BY <3>1, <3>2, <2>3, Zenon
  <2>6. stage # "end" /\ stage' # "end" /\ aw' \in Int
    BY <1>1, <1>2, <1>3
  <2> QED
    BY <2>5, <2>6, <1>2, <1>5, NothingMeasured
<1> QED
  BY <1>4, <1>5

\* NoSample.
LEMMA NoSampleKept == ASSUME FilterSound, Axis!NoSample PROVE FilterSound'
<1>1. /\ stage = "correct" /\ stage' = "walls" /\ meas' = Axis!NoMeas /\ UNCHANGED <<filter, axis, lead, aw>>
      /\ kf' = IF filter = "ekf" THEN kf ELSE [kf EXCEPT !.p = @ + kf.v * DT]
  BY DEF Axis!NoSample
<1>2. DT \in Int /\ IsFilter(kf) /\ aw \in Int
  BY EstimatorAssumption DEF FilterSound
<1>3. PICK n \in Nat \ {0}, x \in Int, y \in Int, z \in Int : n = kf.den /\ x = kf.p /\ y = kf.v /\ z = kf.ba
  BY <1>2 DEF IsFilter
<1>4. IsFilter([kf EXCEPT !.den = n, !.p = x + y * DT, !.v = y, !.ba = z])
  <2>1. x + y * DT \in Int
    BY <1>2
  <2> QED
    BY <2>1, <1>2, ChangedFilter
<1>5. [kf EXCEPT !.den = n, !.p = x + y * DT, !.v = y, !.ba = z] = [kf EXCEPT !.p = @ + kf.v * DT]
  BY <1>2, <1>3 DEF IsFilter
<1>6. IsFilter(kf')
  BY <1>1, <1>2, <1>4, <1>5
<1>7. stage # "end" /\ stage' # "end" /\ stage' # "correct"
  BY <1>1
<1> QED
  BY <1>1, <1>2, <1>6, <1>7, NothingMeasured

\* A correction of the Kalman filter with a measurement of state i.
LEMMA CorrectKept ==
    ASSUME FilterSound, NEW i \in {1, 2}, NEW m \in Readings, NEW r \in Variances \ {0},
           kf' = Axis!Correct(kf, i, m, r), meas' = [row |-> i, at |-> m], before' = kf,
           UNCHANGED <<filter, axis, lead, aw>>, stage # "end", stage' # "end", stage' # "correct"
    PROVE  FilterSound'
<1>1. m \in Int /\ r \in Nat \ {0} /\ IsFilter(kf) /\ aw \in Int
  BY EstimatorAssumption DEF FilterSound
<1>2. IsFilter(kf')
  BY <1>1, CorrectedFilter
<1> DEFINE x(u) == IF i = 1 THEN u.p ELSE u.v
<1>3. /\ \A j \in Row : kf'.P[j][j] <= kf.P[j][j] * (kf'.den \div kf.den)
      /\ Between((m * kf.den - x(kf)) * (kf'.den \div kf.den), m * kf'.den - x(kf'))
  BY <1>1, Corrected
<1>4. meas'.row = i /\ meas'.at = m
  OBVIOUS
<1>5. Axis!DrawnToMeasurement'
  BY <1>3, <1>4, Zenon DEF Axis!DrawnToMeasurement, Between
<1>6. (\A j \in Row : kf.P[j][j] <= before.P[j][j] * (kf.den \div before.den))'
  BY <1>3, Zenon
<1> QED
  BY <1>1, <1>2, <1>5, <1>6, OneMeasured

\* EkfCorrect.
LEMMA EkfCorrectKept == ASSUME FilterSound, Axis!EkfCorrect PROVE FilterSound'
<1>1. /\ stage = "correct" /\ stage' = "walls" /\ before' = kf /\ UNCHANGED <<filter, axis, lead, aw>>
  BY DEF Axis!EkfCorrect
<1>2. IsFilter(kf) /\ aw \in Int /\ stage # "end" /\ stage' # "end" /\ stage' # "correct"
  BY <1>1 DEF FilterSound
<1>3. CASE kf' = kf /\ meas' = Axis!NoMeas
  BY <1>1, <1>2, <1>3, NothingMeasured
<1>4. CASE \E i \in {1, 2}, m \in Readings, r \in Variances \ {0} : kf' = Axis!Correct(kf, i, m, r) /\ meas' = [row |-> i, at |-> m]
  BY <1>1, <1>2, <1>4, CorrectKept
<1> QED
  <2>1. PICK m \in Readings, r \in Variances \ {0} :
          \/ kf' = kf /\ meas' = Axis!NoMeas
          \/ \E i \in {1, 2} : kf' = Axis!Correct(kf, i, m, r) /\ meas' = [row |-> i, at |-> m]
    BY DEF Axis!EkfCorrect
  <2> QED
    BY <2>1, <1>3, <1>4

\* FuseWalls.
LEMMA FuseWallsKept == ASSUME FilterSound, Axis!FuseWalls PROVE FilterSound'
<1>1. /\ stage = "walls" /\ stage' = "report" /\ before' = kf /\ UNCHANGED <<filter, axis, lead, aw>>
  BY DEF Axis!FuseWalls
<1>2. IsFilter(kf) /\ aw \in Int /\ stage # "end" /\ stage' # "end" /\ stage' # "correct"
  BY <1>1 DEF FilterSound
<1>3. CASE kf' = kf /\ meas' = Axis!NoMeas
  BY <1>1, <1>2, <1>3, NothingMeasured
<1>4. CASE \E m \in Readings, r \in Variances \ {0} : kf' = Axis!Correct(kf, 1, m, r) /\ meas' = [row |-> 1, at |-> m]
  BY <1>1, <1>2, <1>4, CorrectKept
<1> QED
  BY <1>3, <1>4 DEF Axis!FuseWalls

\* Report.
LEMMA ReportKept == ASSUME FilterSound, Axis!Report PROVE FilterSound'
<1>1. /\ stage = "report" /\ stage' = "end" /\ lead' = Axis!Lead(kf, aw) /\ meas' = Axis!NoMeas
      /\ UNCHANGED <<filter, axis, kf, aw>>
  BY DEF Axis!Report
<1>2. meas'.row = 0
  BY <1>1 DEF Axis!NoMeas
<1>3. (\A x \in [1 .. 3 -> -1 .. 1] : Axis!Quadratic(kf.P, x) >= 0)'
  BY <1>1, QuadraticNatural DEF FilterSound
<1>4. Axis!CovarianceSound' /\ Axis!DrawnToMeasurement'
  BY <1>1, <1>2, <1>3 DEF Axis!CovarianceSound, Axis!DrawnToMeasurement
<1>5. Axis!LeadIsPrediction'
  <2>1. SUFFICES ASSUME filter = "ekf"
        PROVE  lead' = <<Axis!Predict(kf, aw, Axis!SIGMA_A2, Axis!SIGMA_BA2).p, Axis!Predict(kf, aw, Axis!SIGMA_A2, Axis!SIGMA_BA2).v>>
    BY <1>1 DEF Axis!LeadIsPrediction
  <2>2. lead' = <<kf.p + kf.v * DT + Axis!H2 * (aw * kf.den - kf.ba), kf.v + (aw * kf.den - kf.ba) * DT>>
    BY <1>1, <2>1 DEF Axis!Lead
  <2>3. /\ Axis!Predict(kf, aw, Axis!SIGMA_A2, Axis!SIGMA_BA2).p = kf.p + kf.v * DT + Axis!H2 * (aw * kf.den - kf.ba)
        /\ Axis!Predict(kf, aw, Axis!SIGMA_A2, Axis!SIGMA_BA2).v = kf.v + (aw * kf.den - kf.ba) * DT
    BY DEF Axis!Predict, FilterSound, IsFilter
  <2> QED
    BY <2>2, <2>3
<1> QED
  BY <1>1, <1>4, <1>5 DEF FilterSound

\* Turn.
LEMMA TurnKept == ASSUME FilterSound, Axis!Turn PROVE FilterSound'
<1>1. stage = "attitude" /\ stage' = "end" /\ lead = <<0, 0>> /\ UNCHANGED <<filter, axis, kf, before, aw, meas, lead>>
  BY DEF Axis!Turn, FilterSound
<1>2. Axis!CovarianceSound' /\ Axis!DrawnToMeasurement'
  BY <1>1 DEF FilterSound, Axis!CovarianceSound, Axis!DrawnToMeasurement
<1>3. Axis!LeadIsPrediction'
  BY <1>1 DEF Axis!LeadIsPrediction
<1> QED
  BY <1>1, <1>2, <1>3 DEF FilterSound

\* ComplementaryCorrect.
LEMMA ComplementaryKept == ASSUME FilterSound, Axis!ComplementaryCorrect PROVE FilterSound'
<1>1. /\ stage = "correct" /\ stage' = "walls" /\ filter = "complementary" /\ UNCHANGED <<filter, axis, lead, aw>>
  BY DEF Axis!ComplementaryCorrect
<1>2. DT \in Int /\ IsFilter(kf) /\ aw \in Int /\ stage # "end" /\ stage' # "end" /\ stage' # "correct" /\ filter # "ekf"
  BY <1>1, EstimatorAssumption DEF FilterSound
<1>3. PICK m \in Readings :
        /\ meas' = [row |-> IF axis = "x" THEN 2 ELSE 1, at |-> m]
        /\ IF axis = "x"
           THEN before' = kf /\ kf' = [kf EXCEPT !.v = m * kf.den, !.p = @ + m * kf.den * DT]
           ELSE before' = [kf EXCEPT !.p = @ + kf.v * DT] /\ kf' = Axis!BlendZ(before', m)
  BY DEF Axis!ComplementaryCorrect
<1>4. m \in Int
  BY EstimatorAssumption
<1>5. PICK n \in Nat \ {0}, x \in Int, y \in Int, z \in Int : n = kf.den /\ x = kf.p /\ y = kf.v /\ z = kf.ba
  BY <1>2 DEF IsFilter
<1>6. CASE axis = "x"
  <2>1. /\ meas'.row = 2 /\ meas'.at = m /\ before' = kf
        /\ kf' = [kf EXCEPT !.v = m * kf.den, !.p = @ + m * kf.den * DT]
    BY <1>3, <1>6
  <2>2. kf' = [kf EXCEPT !.den = n, !.p = x + m * n * DT, !.v = m * n, !.ba = z]
    BY <2>1, <1>2, <1>5 DEF IsFilter
  <2>3. m * n \in Int /\ x + m * n * DT \in Int
    BY <1>2, <1>4
  <2>4. IsFilter(kf')
    BY <2>2, <2>3, <1>2, ChangedFilter
  <2>5. kf'.den = n /\ kf'.v = m * n /\ before'.den = n /\ before'.v = y
    BY <2>1, <2>2, <1>2, <1>5 DEF IsFilter
  <2>6. kf'.den \div before'.den = 1
    <3>1. (n * 1) \div n = 1 /\ n * 1 = n
      BY Quotient
    <3> QED
      BY <3>1, <2>5, Zenon
  <2>7. Between((m * n - y) * 1, m * n - m * n)
    <3>1. PICK res \in Int : res = m * n - y
      BY <1>4
    <3>2. Between(res * 1, res * 0)
      <4>1. PICK g \in Int, S \in Int : g = 0 /\ S = 1 /\ 0 <= g /\ g <= S
        OBVIOUS
      <4>2. Between(res * S, res * g)
        BY <4>1, Shrunk
      <4> QED
        BY <4>1, <4>2, Zenon
    <3>3. res * 0 = m * n - m * n
      BY <1>4
    <3> QED
      BY <3>1, <3>2, <3>3, Zenon
  <2>8. Between((meas'.at * before'.den - before'.v) * (kf'.den \div before'.den), meas'.at * kf'.den - kf'.v)
    BY <2>1, <2>5, <2>6, <2>7, Zenon
  <2>9. meas'.row # 1
    BY <2>1
  <2>10. Axis!DrawnToMeasurement'
    BY <2>8, <2>9, Zenon DEF Axis!DrawnToMeasurement, Between
  <2> QED
    BY <2>4, <2>10, <1>1, <1>2, OneMeasured
<1>7. CASE axis # "x"
  <2>1. /\ meas'.row = 1 /\ meas'.at = m /\ before' = [kf EXCEPT !.p = @ + kf.v * DT] /\ kf' = Axis!BlendZ(before', m)
    BY <1>3, <1>7
  <2>2. PICK x2 \in Int : x2 = x + y * DT
    BY <1>2
  <2>3. PICK rz \in Int : rz = m * n - x2
    BY <1>4
  <2>4. before' = [kf EXCEPT !.p = x2] /\ before'.den = n /\ before'.p = x2
    BY <2>1, <2>2, <1>2, <1>5 DEF IsFilter
  <2>5. kf' = [kf EXCEPT !.den = 10 * n, !.p = 10 * x2 + 5 * rz, !.v = 10 * y + 3 * rz, !.ba = z]
    BY <2>1, <2>3, <2>4, <1>2, <1>5 DEF IsFilter, Axis!BlendZ
  <2>6. 10 * n \in Nat \ {0} /\ 10 * x2 + 5 * rz \in Int /\ 10 * y + 3 * rz \in Int
    OBVIOUS
  <2>7. IsFilter(kf')
    BY <2>5, <2>6, <1>2, ChangedFilter
  <2>8. kf'.den = 10 * n /\ kf'.p = 10 * x2 + 5 * rz
    BY <2>5, <1>2 DEF IsFilter
  <2>9. kf'.den \div before'.den = 10
    <3>1. (n * 10) \div n = 10 /\ n * 10 = 10 * n
      BY Quotient
    <3> QED
      BY <3>1, <2>4, <2>8, Zenon
  <2>10. m * (10 * n) - (10 * x2 + 5 * rz) = rz * 5
    BY <2>3, <1>4
  <2>11. Between((m * n - x2) * 10, m * (10 * n) - (10 * x2 + 5 * rz))
    <3>1. Between(rz * 10, rz * 5)
      BY Shrunk
    <3> QED
      BY <3>1, <2>3, <2>10, Zenon
  <2>12. Between((meas'.at * before'.den - before'.p) * (kf'.den \div before'.den), meas'.at * kf'.den - kf'.p)
    BY <2>1, <2>4, <2>8, <2>9, <2>11, Zenon
  <2>13. Axis!DrawnToMeasurement'
    <3>1. meas'.row = 1
      BY <2>1
    <3> QED
      BY <3>1, <2>12, Zenon DEF Axis!DrawnToMeasurement, Between
  <2> QED
    BY <2>7, <2>13, <1>1, <1>2, OneMeasured
<1> QED
  BY <1>6, <1>7

\* Whatever the period, the covariance at the start, the noises and the measurements:
\* Kf3's covariance is F P F^T + Q after predict and stays a covariance, a measurement
\* draws the state towards itself and never past itself in either filter, and get_state
\* reports the Kalman filter's own prediction.
THEOREM KalmanIsSound == MCSpec => []KalmanSound
  <1>. DEFINE KInv == part = "estimator" => FilterSound
  <1>1. MCInit => KInv
    BY FilterSoundStart DEF MCInit
  <1>2. KInv /\ [MCNext]_mcVars => KInv'
    <2>. SUFFICES ASSUME KInv, [MCNext]_mcVars, part' = "estimator" PROVE FilterSound'
      OBVIOUS
    <2>1. part = "estimator" /\ [Axis!Next]_axisVars
      BY DEF MCNext, mcVars
    <2>2. FilterSound
      BY <2>1
    <2>3. CASE UNCHANGED <<kf, before, aw, filter, axis, stage, lead, meas>>
      BY <2>2, <2>3 DEF FilterSound, Axis!CovarianceSound, Axis!DrawnToMeasurement, Axis!LeadIsPrediction
    <2>4. CASE Axis!Next
      BY <2>2, <2>4, TurnKept, PredictKept, NoSampleKept, EkfCorrectKept, ComplementaryKept, FuseWallsKept, ReportKept
         DEF Axis!Next
    <2>. QED  BY <2>1, <2>3, <2>4 DEF axisVars
  <1>3. KInv => KalmanSound
    BY DEF FilterSound, KalmanSound
  <1>. HIDE DEF KInv
  <1>. QED  BY <1>1, <1>2, <1>3, PTL DEF MCSpec

-----------------------------------------------------------------------------
(* NavControl: the inductive invariant. *)

Frames == [1 .. 2 -> Nat]

\* ctrl_block counts at most one overrun and one capture in an iteration.
Counted ==
    /\ iter \in Nat /\ overruns \in Nat /\ captures \in Nat
    /\ IF cpc = "end" THEN iter = CTRL_ITERS ELSE iter < CTRL_ITERS
    /\ overruns <= IF cpc \in {"tick", "overrun", "end"} THEN iter ELSE iter + 1
    /\ captures <= IF cpc \in {"tick", "overrun", "read", "enqueue", "end"}
                   THEN iter ELSE iter + 1

\* Frames hold two halves, each from a capture that was started.
FramesTyped ==
    /\ g_cam_frame \in Frames /\ tensor \in Frames /\ g_cam_out \in Frames
    /\ \A h \in 1 .. 2 : /\ g_cam_frame[h] <= captures
                         /\ tensor[h] <= captures
                         /\ g_cam_out[h] <= captures

States ==
    /\ sem_tick \in 0 .. 1 /\ vision_busy \in 0 .. 1 /\ sem_vision \in 0 .. 1
    /\ cpc \in {"tick", "overrun", "read", "enqueue", "dequeue", "busy", "kick", "lock",
                "collision", "send", "end"}
    /\ mtx_vision \in {"free", "ctrl", "vision"}
    /\ vpc \in {"wait", "preproc", "second", "model", "lock", "collision", "release"}
    /\ g_vision \in [steer : Frames \cup {Neutral}, collision : Frames \cup {Neutral},
                     valid : BOOLEAN]
    /\ cmd \in [steer : Frames \cup {Neutral}, collision : Frames \cup {Neutral}]

\* Whose the camera buffer is: ctrl_block writes it only while vision_busy is 0
\* and vision_block waits with nothing to take; while vision_busy is 1, the frame
\* is announced by exactly one of ctrl_block, the semaphore and vision_block.
BufferOwned ==
    /\ vision_busy = 0 => vpc = "wait" /\ sem_vision = 0 /\ cpc # "kick"
    /\ cpc \in {"enqueue", "dequeue", "busy"} => vision_busy = 0
    /\ cpc = "kick" => vpc = "wait" /\ sem_vision = 0
    /\ sem_vision = 1 => vpc = "wait"
    /\ BusyMeansWork

\* A frame that is announced is whole, and so is what is made of it.
FrameWhole ==
    /\ vision_busy = 1 \/ cpc = "busy" => g_cam_frame[1] = g_cam_frame[2]
    /\ cpc = "dequeue" => g_cam_frame[1] = captures
    /\ vpc = "second" => tensor[1] = g_cam_frame[1]
    /\ vpc = "model" => tensor[1] = tensor[2]
    /\ g_cam_out[1] = g_cam_out[2]

\* mtx_vision covers the halves of an update and the halves of a read.
UpdateWhole ==
    /\ mtx_vision = "ctrl" <=> cpc = "collision"
    /\ mtx_vision = "vision" <=> vpc = "collision"
    /\ vpc = "collision" => g_vision.steer = g_cam_out
    /\ vpc # "collision" => g_vision.steer = g_vision.collision
    /\ Whole(g_vision.steer) /\ Whole(g_vision.collision)
    /\ cpc = "collision" => cmd.steer = g_vision.steer
    /\ CommandWhole

NavInv == Counted /\ FramesTyped /\ States /\ BufferOwned /\ FrameWhole /\ UpdateWhole

-----------------------------------------------------------------------------
(* Frames. *)

\* The halves are naturals.
LEMMA HalfType == ASSUME NEW x \in Frames PROVE x[1] \in Nat /\ x[2] \in Nat
BY DEF Frames

-----------------------------------------------------------------------------
(* Every step keeps each part of it. *)

\* No iteration counts a second overrun or starts a second capture.
LEMMA CountedStep == NavInv /\ [Next]_vars => Counted'
<1> SUFFICES ASSUME NavInv, [Next]_vars PROVE Counted'
  OBVIOUS
<1> USE NavAssumption DEF NavInv, Counted, States
<1>1. CASE ctrl_timer_fn
  BY <1>1 DEF ctrl_timer_fn, timing, camera, vision
<1>2. CASE TakeTick
  BY <1>2 DEF TakeTick, timing, camera, vision
<1>3. CASE CheckOverrun
  BY <1>3 DEF CheckOverrun, timing, camera, vision
<1>4. CASE ReadError
  BY <1>4 DEF ReadError, NextIteration, timing, camera, vision
<1>5. CASE ReadFrame
  BY <1>5 DEF ReadFrame, timing, camera, vision
<1>6. CASE Enqueue
  BY <1>6 DEF Enqueue, timing, camera, vision
<1>7. CASE Dequeue
  BY <1>7 DEF Dequeue, timing, camera, vision
<1>8. CASE CaptureError
  BY <1>8 DEF CaptureError, timing, camera, vision
<1>9. CASE KickVision
  BY <1>9 DEF KickVision, timing, camera, vision
<1>10. CASE ReadSteer
  BY <1>10 DEF ReadSteer, timing, camera, vision
<1>11. CASE ReadCollision
  BY <1>11 DEF ReadCollision, timing, camera, vision
<1>12. CASE SendControl
  BY <1>12 DEF SendControl, NextIteration, timing, camera, vision
<1>13. CASE TakeVision
  BY <1>13 DEF TakeVision, timing, camera, vision
<1>14. CASE Preprocess
  BY <1>14 DEF Preprocess, timing, camera, vision
<1>15. CASE RunModel
  BY <1>15 DEF RunModel, timing, camera, vision
<1>16. CASE PreprocessError
  BY <1>16 DEF PreprocessError, timing, camera, vision
<1>17. CASE PublishSteer
  BY <1>17 DEF PublishSteer, timing, camera, vision
<1>18. CASE PublishCollision
  BY <1>18 DEF PublishCollision, timing, camera, vision
<1>19. CASE Release
  BY <1>19 DEF Release, timing, camera, vision
<1>20. CASE UNCHANGED vars
  BY <1>20 DEF vars, timing, camera, vision
<1> QED
  BY <1>1, <1>2, <1>3, <1>4, <1>5, <1>6, <1>7, <1>8, <1>9, <1>10,
     <1>11, <1>12, <1>13, <1>14, <1>15, <1>16, <1>17, <1>18, <1>19, <1>20
  DEF Next, ctrl_block, vision_block

\* The program counters, semaphores, flags and commands keep their types.
LEMMA StatesStep == NavInv /\ [Next]_vars => States'
<1> SUFFICES ASSUME NavInv, [Next]_vars PROVE States'
  OBVIOUS
<1> USE NavAssumption DEF NavInv, States, FramesTyped, Frames, Neutral
<1>1. CASE ctrl_timer_fn
  BY <1>1 DEF ctrl_timer_fn, timing, camera, vision
<1>2. CASE TakeTick
  BY <1>2 DEF TakeTick, timing, camera, vision
<1>3. CASE CheckOverrun
  BY <1>3 DEF CheckOverrun, timing, camera, vision
<1>4. CASE ReadError
  BY <1>4 DEF ReadError, NextIteration, timing, camera, vision
<1>5. CASE ReadFrame
  BY <1>5 DEF ReadFrame, timing, camera, vision
<1>6. CASE Enqueue
  BY <1>6 DEF Enqueue, timing, camera, vision
<1>7. CASE Dequeue
  BY <1>7 DEF Dequeue, timing, camera, vision
<1>8. CASE CaptureError
  BY <1>8 DEF CaptureError, timing, camera, vision
<1>9. CASE KickVision
  BY <1>9 DEF KickVision, timing, camera, vision
<1>10. CASE ReadSteer
  BY <1>10 DEF ReadSteer, timing, camera, vision
<1>11. CASE ReadCollision
  BY <1>11 DEF ReadCollision, timing, camera, vision
<1>12. CASE SendControl
  BY <1>12 DEF SendControl, NextIteration, timing, camera, vision
<1>13. CASE TakeVision
  BY <1>13 DEF TakeVision, timing, camera, vision
<1>14. CASE Preprocess
  BY <1>14 DEF Preprocess, timing, camera, vision
<1>15. CASE RunModel
  BY <1>15 DEF RunModel, timing, camera, vision
<1>16. CASE PreprocessError
  BY <1>16 DEF PreprocessError, timing, camera, vision
<1>17. CASE PublishSteer
  BY <1>17 DEF PublishSteer, timing, camera, vision
<1>18. CASE PublishCollision
  BY <1>18 DEF PublishCollision, timing, camera, vision
<1>19. CASE Release
  BY <1>19 DEF Release, timing, camera, vision
<1>20. CASE UNCHANGED vars
  BY <1>20 DEF vars, timing, camera, vision
<1> QED
  BY <1>1, <1>2, <1>3, <1>4, <1>5, <1>6, <1>7, <1>8, <1>9, <1>10,
     <1>11, <1>12, <1>13, <1>14, <1>15, <1>16, <1>17, <1>18, <1>19, <1>20
  DEF Next, ctrl_block, vision_block

\* A half of a frame is only ever written with the number of a capture.
LEMMA FramesTypedStep == NavInv /\ [Next]_vars => FramesTyped'
<1> SUFFICES ASSUME NavInv, [Next]_vars PROVE FramesTyped'
  OBVIOUS
<1> USE NavAssumption DEF NavInv, Counted, States, FramesTyped
<1>1. CASE ctrl_timer_fn
  BY <1>1 DEF ctrl_timer_fn, timing, camera, vision
<1>2. CASE TakeTick
  BY <1>2 DEF TakeTick, timing, camera, vision
<1>3. CASE CheckOverrun
  BY <1>3 DEF CheckOverrun, timing, camera, vision
<1>4. CASE ReadError
  BY <1>4 DEF ReadError, NextIteration, timing, camera, vision
<1>5. CASE ReadFrame
  BY <1>5 DEF ReadFrame, timing, camera, vision
<1>6. CASE Enqueue
  <2>1. captures' = captures + 1 /\ g_cam_frame' = [g_cam_frame EXCEPT ![1] = captures + 1]
    BY <1>6 DEF Enqueue
  <2>2. /\ g_cam_frame' \in Frames
        /\ \A i \in 1 .. 2 : g_cam_frame'[i] = IF i = 1 THEN captures + 1 ELSE g_cam_frame[i]
    <3>1. 1 \in 1 .. 2 /\ captures + 1 \in Nat /\ g_cam_frame \in Frames
      OBVIOUS
    <3> QED
      BY ONLY <2>1, <3>1 DEF Frames
  <2>3. UNCHANGED <<tensor, g_cam_out>>
    BY <1>6 DEF Enqueue, vision
  <2> QED
    BY <2>1, <2>2, <2>3 DEF Frames
<1>7. CASE Dequeue
  <2>1. g_cam_frame' = [g_cam_frame EXCEPT ![2] = captures] /\ UNCHANGED <<captures, tensor, g_cam_out>>
    BY <1>7 DEF Dequeue, vision
  <2>2. /\ g_cam_frame' \in Frames
        /\ \A i \in 1 .. 2 : g_cam_frame'[i] = IF i = 2 THEN captures ELSE g_cam_frame[i]
    <3>1. 2 \in 1 .. 2 /\ captures \in Nat /\ g_cam_frame \in Frames
      OBVIOUS
    <3> QED
      BY ONLY <2>1, <3>1 DEF Frames
  <2> QED
    BY <2>1, <2>2
<1>8. CASE CaptureError
  BY <1>8 DEF CaptureError, timing, camera, vision
<1>9. CASE KickVision
  BY <1>9 DEF KickVision, timing, camera, vision
<1>10. CASE ReadSteer
  BY <1>10 DEF ReadSteer, timing, camera, vision
<1>11. CASE ReadCollision
  BY <1>11 DEF ReadCollision, timing, camera, vision
<1>12. CASE SendControl
  BY <1>12 DEF SendControl, NextIteration, timing, camera, vision
<1>13. CASE TakeVision
  BY <1>13 DEF TakeVision, timing, camera, vision
<1>14. CASE Preprocess
  BY <1>14, HalfType DEF Preprocess, camera, Frames
<1>15. CASE RunModel
  BY <1>15 DEF RunModel, timing, camera, vision
<1>16. CASE PreprocessError
  BY <1>16 DEF PreprocessError, timing, camera, vision
<1>17. CASE PublishSteer
  BY <1>17 DEF PublishSteer, timing, camera, vision
<1>18. CASE PublishCollision
  BY <1>18 DEF PublishCollision, timing, camera, vision
<1>19. CASE Release
  BY <1>19 DEF Release, timing, camera, vision
<1>20. CASE UNCHANGED vars
  BY <1>20 DEF vars, timing, camera, vision
<1> QED
  BY <1>1, <1>2, <1>3, <1>4, <1>5, <1>6, <1>7, <1>8, <1>9, <1>10,
     <1>11, <1>12, <1>13, <1>14, <1>15, <1>16, <1>17, <1>18, <1>19, <1>20
  DEF Next, ctrl_block, vision_block

\* The buffer changes hands only through vision_busy and sem_vision.
LEMMA BufferOwnedStep == NavInv /\ [Next]_vars => BufferOwned'
<1> SUFFICES ASSUME NavInv, [Next]_vars PROVE BufferOwned'
  OBVIOUS
<1> USE NavAssumption DEF NavInv, States, BufferOwned, BusyMeansWork
<1>1. CASE ctrl_timer_fn
  BY <1>1 DEF ctrl_timer_fn, timing, camera, vision
<1>2. CASE TakeTick
  BY <1>2 DEF TakeTick, timing, camera, vision
<1>3. CASE CheckOverrun
  BY <1>3 DEF CheckOverrun, timing, camera, vision
<1>4. CASE ReadError
  BY <1>4 DEF ReadError, NextIteration, timing, camera, vision
<1>5. CASE ReadFrame
  BY <1>5 DEF ReadFrame, timing, camera, vision
<1>6. CASE Enqueue
  BY <1>6 DEF Enqueue, timing, camera, vision
<1>7. CASE Dequeue
  BY <1>7 DEF Dequeue, timing, camera, vision
<1>8. CASE CaptureError
  BY <1>8 DEF CaptureError, timing, camera, vision
<1>9. CASE KickVision
  BY <1>9 DEF KickVision, timing, camera, vision
<1>10. CASE ReadSteer
  BY <1>10 DEF ReadSteer, timing, camera, vision
<1>11. CASE ReadCollision
  BY <1>11 DEF ReadCollision, timing, camera, vision
<1>12. CASE SendControl
  BY <1>12 DEF SendControl, NextIteration, timing, camera, vision
<1>13. CASE TakeVision
  BY <1>13 DEF TakeVision, timing, camera, vision
<1>14. CASE Preprocess
  BY <1>14 DEF Preprocess, timing, camera, vision
<1>15. CASE RunModel
  BY <1>15 DEF RunModel, timing, camera, vision
<1>16. CASE PreprocessError
  BY <1>16 DEF PreprocessError, timing, camera, vision
<1>17. CASE PublishSteer
  BY <1>17 DEF PublishSteer, timing, camera, vision
<1>18. CASE PublishCollision
  BY <1>18 DEF PublishCollision, timing, camera, vision
<1>19. CASE Release
  BY <1>19 DEF Release, timing, camera, vision
<1>20. CASE UNCHANGED vars
  BY <1>20 DEF vars, timing, camera, vision
<1> QED
  BY <1>1, <1>2, <1>3, <1>4, <1>5, <1>6, <1>7, <1>8, <1>9, <1>10,
     <1>11, <1>12, <1>13, <1>14, <1>15, <1>16, <1>17, <1>18, <1>19, <1>20
  DEF Next, ctrl_block, vision_block

\* Nobody writes a frame that is announced, and a frame is announced whole.
LEMMA FrameWholeStep == NavInv /\ [Next]_vars => FrameWhole'
<1> SUFFICES ASSUME NavInv, [Next]_vars PROVE FrameWhole'
  OBVIOUS
<1> USE NavAssumption DEF NavInv, FramesTyped, Frames, States, BufferOwned, BusyMeansWork, FrameWhole
<1>1. CASE ctrl_timer_fn
  BY <1>1 DEF ctrl_timer_fn, timing, camera, vision
<1>2. CASE TakeTick
  BY <1>2 DEF TakeTick, timing, camera, vision
<1>3. CASE CheckOverrun
  BY <1>3 DEF CheckOverrun, timing, camera, vision
<1>4. CASE ReadError
  BY <1>4 DEF ReadError, NextIteration, timing, camera, vision
<1>5. CASE ReadFrame
  BY <1>5 DEF ReadFrame, timing, camera, vision
<1>6. CASE Enqueue
  BY <1>6 DEF Enqueue, timing, camera, vision
<1>7. CASE Dequeue
  BY <1>7 DEF Dequeue, timing, camera, vision
<1>8. CASE CaptureError
  BY <1>8 DEF CaptureError, timing, camera, vision
<1>9. CASE KickVision
  BY <1>9 DEF KickVision, timing, camera, vision
<1>10. CASE ReadSteer
  BY <1>10 DEF ReadSteer, timing, camera, vision
<1>11. CASE ReadCollision
  BY <1>11 DEF ReadCollision, timing, camera, vision
<1>12. CASE SendControl
  BY <1>12 DEF SendControl, NextIteration, timing, camera, vision
<1>13. CASE TakeVision
  BY <1>13 DEF TakeVision, timing, camera, vision
<1>14. CASE Preprocess
  BY <1>14 DEF Preprocess, timing, camera, vision
<1>15. CASE RunModel
  BY <1>15 DEF RunModel, timing, camera, vision
<1>16. CASE PreprocessError
  BY <1>16 DEF PreprocessError, timing, camera, vision
<1>17. CASE PublishSteer
  BY <1>17 DEF PublishSteer, timing, camera, vision
<1>18. CASE PublishCollision
  BY <1>18 DEF PublishCollision, timing, camera, vision
<1>19. CASE Release
  BY <1>19 DEF Release, timing, camera, vision
<1>20. CASE UNCHANGED vars
  BY <1>20 DEF vars, timing, camera, vision
<1> QED
  BY <1>1, <1>2, <1>3, <1>4, <1>5, <1>6, <1>7, <1>8, <1>9, <1>10,
     <1>11, <1>12, <1>13, <1>14, <1>15, <1>16, <1>17, <1>18, <1>19, <1>20
  DEF Next, ctrl_block, vision_block

\* Neither block reads or writes half of g_vision while the other is at it.
LEMMA UpdateWholeStep == NavInv /\ [Next]_vars => UpdateWhole'
<1> SUFFICES ASSUME NavInv, [Next]_vars PROVE UpdateWhole'
  OBVIOUS
<1> USE NavAssumption DEF NavInv, States, FrameWhole, UpdateWhole, CommandWhole, Whole
<1>1. CASE ctrl_timer_fn
  BY <1>1 DEF ctrl_timer_fn, timing, camera, vision
<1>2. CASE TakeTick
  BY <1>2 DEF TakeTick, timing, camera, vision
<1>3. CASE CheckOverrun
  BY <1>3 DEF CheckOverrun, timing, camera, vision
<1>4. CASE ReadError
  BY <1>4 DEF ReadError, NextIteration, timing, camera, vision
<1>5. CASE ReadFrame
  BY <1>5 DEF ReadFrame, timing, camera, vision
<1>6. CASE Enqueue
  BY <1>6 DEF Enqueue, timing, camera, vision
<1>7. CASE Dequeue
  BY <1>7 DEF Dequeue, timing, camera, vision
<1>8. CASE CaptureError
  BY <1>8 DEF CaptureError, timing, camera, vision
<1>9. CASE KickVision
  BY <1>9 DEF KickVision, timing, camera, vision
<1>10. CASE ReadSteer
  BY <1>10 DEF ReadSteer, timing, camera, vision
<1>11. CASE ReadCollision
  BY <1>11 DEF ReadCollision, timing, camera, vision
<1>12. CASE SendControl
  BY <1>12 DEF SendControl, NextIteration, timing, camera, vision
<1>13. CASE TakeVision
  BY <1>13 DEF TakeVision, timing, camera, vision
<1>14. CASE Preprocess
  BY <1>14 DEF Preprocess, timing, camera, vision
<1>15. CASE RunModel
  BY <1>15 DEF RunModel, timing, camera, vision
<1>16. CASE PreprocessError
  BY <1>16 DEF PreprocessError, timing, camera, vision
<1>17. CASE PublishSteer
  BY <1>17 DEF PublishSteer, timing, camera, vision
<1>18. CASE PublishCollision
  BY <1>18 DEF PublishCollision, timing, camera, vision
<1>19. CASE Release
  BY <1>19 DEF Release, timing, camera, vision
<1>20. CASE UNCHANGED vars
  BY <1>20 DEF vars, timing, camera, vision
<1> QED
  BY <1>1, <1>2, <1>3, <1>4, <1>5, <1>6, <1>7, <1>8, <1>9, <1>10,
     <1>11, <1>12, <1>13, <1>14, <1>15, <1>16, <1>17, <1>18, <1>19, <1>20
  DEF Next, ctrl_block, vision_block

-----------------------------------------------------------------------------
(* The theorem. *)

\* NavInv is inductive, and says more than VisionHandover.
LEMMA NavInvInductive ==
    /\ Init => NavInv
    /\ NavInv /\ [Next]_vars => NavInv'
    /\ NavInv => VisionHandover
<1>1. Init => NavInv
  BY NavAssumption
  DEF Init, NavInv, Counted, FramesTyped, States, BufferOwned, BusyMeansWork, FrameWhole,
      UpdateWhole, CommandWhole, Whole, Frames, Zeros, Neutral
<1>2. NavInv /\ [Next]_vars => NavInv'
  BY CountedStep, StatesStep, FramesTypedStep, BufferOwnedStep, FrameWholeStep, UpdateWholeStep
  DEF NavInv
<1>3. ASSUME NavInv PROVE VisionHandover
  <2>1. \A x \in Frames : Len(x) = 2
    BY DEF Frames
  <2>2. TypeOK
    BY <1>3, <2>1, HalfType, NavAssumption DEF NavInv, Counted, FramesTyped, States, TypeOK
  <2> QED
    BY <1>3, <2>2 DEF NavInv, BufferOwned, UpdateWhole, VisionHandover
<1> QED
  BY <1>1, <1>2, <1>3

\* For every CTRL_ITERS and VISION_DIV, every command ctrl_block solves from is of one
\* whole frame and of one update, although capture, preprocessing and publishing overlap
\* it without a lock on the camera buffer; and a set vision_busy always has a frame on
\* its way through vision_block that will clear it.
THEOREM VisionHandedOver == Spec => []VisionHandover
<1>1. Init /\ [][Next]_vars => []NavInv
  BY NavInvInductive, PTL
<1> QED
  BY <1>1, NavInvInductive, PTL DEF Spec
===============================================================================
