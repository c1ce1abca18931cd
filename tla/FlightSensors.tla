---------------------------- MODULE FlightSensors ----------------------------
(***************************************************************************)
(* The downward ToF sensor of samples/rose_flight_controller/src/main.cpp  *)
(* on the real board: board_sensor_init powers it through the ADS7128      *)
(* expander before main asks the driver to boot it, and read_sensor_frame  *)
(* polls it at its own rate and holds the last height in between.          *)
(*                                                                         *)
(* The processor may be reset at any time (MAX_RESETS bounds how often).   *)
(* The expander and the sensor keep their power then, and their state.     *)
(* The sensor is external: its reset line is low or high when the expander *)
(* drives it, it boots when the line goes from low to high, and a boot of  *)
(* the processor finds it with what the boot before left in it.            *)
(***************************************************************************)
EXTENDS Naturals

CONSTANTS CTRL_ITERS, TOF_FETCH_PERIOD_MS, MAX_TICK, MAX_RESETS

XSHUT == 6
Channels == {XSHUT, 7}       \* 7 stands for the expander's other pins
Regs == {"PIN_CFG", "GPIO_CFG", "GPO_DRIVE_CFG", "GPO_VALUE"}
Config == Regs \ {"GPO_VALUE"}

VARIABLES
    resets, bpc,
    regs, tofdev,             \* the expander's registers; the sensor
    todo, done, rc,           \* board_sensor_init: bits to configure; it got to its end; errors
    fiter, now_ms, tof_next_ms, tof_last_h, tof_have,
    frame,                    \* what the estimator is given
    measuredAt, fetchedAt     \* history: the newest measurement, the last two fetches

board  == <<regs, tofdev>>
hold   == <<tof_next_ms, tof_last_h, tof_have>>
hist   == <<measuredAt, fetchedAt>>
sensorVars == <<resets, bpc, board, todo, done, rc, fiter, now_ms, hold, frame, hist>>

Never == 0
START_Z == Never              \* the placeholder, as a height that was measured at no time
NoFrame == [height |-> START_Z, tof_valid |-> FALSE, read |-> Never]

Boot ==
    /\ bpc' = "bus" /\ todo' = Config /\ done' = FALSE /\ rc' = 0
    /\ fiter' = 0 /\ now_ms' = 1 /\ tof_next_ms' = 0 /\ tof_last_h' = Never /\ tof_have' = FALSE
    /\ frame' = NoFrame /\ measuredAt' = Never /\ fetchedAt' = <<Never, Never>>

Init ==
    /\ resets = 0
    /\ regs \in [Regs -> {{}, {7}}] /\ tofdev = "off"
    /\ bpc = "bus" /\ todo = Config /\ done = FALSE /\ rc = 0
    /\ fiter = 0 /\ now_ms = 1 /\ tof_next_ms = 0 /\ tof_last_h = Never /\ tof_have = FALSE
    /\ frame = NoFrame /\ measuredAt = Never /\ fetchedAt = <<Never, Never>>

\* The EN pin.
WarmReset ==
    /\ resets < MAX_RESETS
    /\ resets' = resets + 1
    /\ tofdev' = IF tofdev \in {"booted", "ranging"} THEN "stale" ELSE tofdev
    /\ UNCHANGED regs
    /\ Boot

-----------------------------------------------------------------------------
(* board_sensor_init *)

Driven(r) == \A reg \in Config : XSHUT \in r[reg]

\* What the sensor does when the registers change to r.
SensorFollows(r) ==
    IF ~Driven(r) THEN tofdev
    ELSE IF XSHUT \notin r["GPO_VALUE"] THEN "reset"
    ELSE IF tofdev = "reset" THEN "booted" ELSE tofdev

BusNotReady ==
    /\ bpc = "bus" /\ bpc' = "main"
    /\ UNCHANGED <<resets, board, todo, done, rc, fiter, now_ms, hold, frame, hist>>

BusReady ==
    /\ bpc = "bus" /\ bpc' = "config"
    /\ UNCHANGED <<resets, board, todo, done, rc, fiter, now_ms, hold, frame, hist>>

\* ads7128_wr
WriteBit(reg, bits) ==
    /\ regs' = [regs EXCEPT ![reg] = bits]
    /\ tofdev' = SensorFollows(regs')

\* ads7128_set_bit or ads7128_clr_bit: read, then write; either may fail.
UpdateBit(reg, bits) ==
    \/ WriteBit(reg, bits) /\ UNCHANGED rc
    \/ rc' = 1 /\ UNCHANGED board

\* Three operands of one |: the compiler may call them in any order.
Configure ==
    /\ bpc = "config"
    /\ \E reg \in todo :
          /\ UpdateBit(reg, regs[reg] \union {XSHUT})
          /\ todo' = todo \ {reg}
          /\ bpc' = IF todo = {reg} THEN "low" ELSE "config"
    /\ UNCHANGED <<resets, done, fiter, now_ms, hold, frame, hist>>

\* Mutant of XshutLow: the line is raised without a reset.
XshutLowSkipped ==
    /\ bpc = "low" /\ bpc' = "high"
    /\ UNCHANGED <<resets, board, todo, done, rc, fiter, now_ms, hold, frame, hist>>

XshutLow ==
    /\ bpc = "low" /\ bpc' = "high"
    /\ UpdateBit("GPO_VALUE", regs["GPO_VALUE"] \ {XSHUT})
    /\ UNCHANGED <<resets, todo, done, fiter, now_ms, hold, frame, hist>>

XshutHigh ==
    /\ bpc = "high" /\ bpc' = "main"
    /\ UpdateBit("GPO_VALUE", regs["GPO_VALUE"] \union {XSHUT})
    /\ done' = TRUE
    /\ UNCHANGED <<resets, todo, fiter, now_ms, hold, frame, hist>>

ImuNotReady ==
    /\ bpc = "main" /\ bpc' = "end"
    /\ UNCHANGED <<resets, board, todo, done, rc, fiter, now_ms, hold, frame, hist>>

\* main: vl53l1x_reinit, which a sensor with stale state refuses.
Reinit ==
    /\ bpc = "main" /\ bpc' = "read"
    /\ \/ tofdev = "booted" /\ tofdev' = "ranging"
       \/ UNCHANGED tofdev
    /\ UNCHANGED <<resets, regs, todo, done, rc, fiter, now_ms, hold, frame, hist>>

-----------------------------------------------------------------------------
(* read_sensor_frame, once per iteration *)

NextTick ==
    /\ fiter' = fiter + 1
    /\ \E d \in 1 .. MAX_TICK : now_ms' = now_ms + d
    /\ bpc' = IF fiter + 1 < CTRL_ITERS THEN "read" ELSE "end"

\* The IMU cannot be fetched: the ToF is not looked at.
ImuError ==
    /\ bpc = "read"
    /\ NextTick
    /\ UNCHANGED <<resets, board, todo, done, rc, hold, frame, hist>>

\* The sensor's turn has come.
FetchTof(ok) ==
    /\ tof_next_ms' = now_ms + TOF_FETCH_PERIOD_MS
    /\ fetchedAt' = <<fetchedAt[2], now_ms>>
    /\ ok => tofdev = "ranging"
    /\ tof_last_h' = IF ok THEN now_ms ELSE tof_last_h
    /\ tof_have' = (ok \/ tof_have)
    /\ measuredAt' = IF ok THEN now_ms ELSE measuredAt

ReadSensorFrame ==
    /\ bpc = "read"
    /\ \/ now_ms >= tof_next_ms /\ \E ok \in BOOLEAN : FetchTof(ok)
       \/ now_ms < tof_next_ms /\ UNCHANGED <<hold, hist>>
    /\ frame' = [height |-> IF tof_have' THEN tof_last_h' ELSE START_Z,
                 tof_valid |-> tof_have', read |-> now_ms]
    /\ NextTick
    /\ UNCHANGED <<resets, board, todo, done, rc>>

Next ==
    \/ WarmReset \/ BusNotReady \/ BusReady \/ Configure \/ XshutLow \/ XshutHigh
    \/ ImuNotReady \/ Reinit \/ ImuError \/ ReadSensorFrame

\* For a check of this module alone.
Spec == Init /\ [][Next]_sensorVars

-----------------------------------------------------------------------------
\* When board_sensor_init reports that the sensor is powered, it has been reset in
\* this boot: whatever an earlier boot left in it, and wherever that boot was cut
\* off, is gone.
CleanBoot == done /\ rc = 0 => tofdev \notin {"off", "stale", "reset"}

\* The expander's other pins are left as they are: the writes are read-modify-write.
OtherPinsStep == \A reg \in Regs : regs'[reg] \ {XSHUT} = regs[reg] \ {XSHUT}

\* The sensor is asked at most once in a ranging period, also while it does not
\* answer: it shares its bus.
PolledAtItsRate ==
    fetchedAt[1] # Never => fetchedAt[2] - fetchedAt[1] >= TOF_FETCH_PERIOD_MS

\* A height that is passed on as valid is the newest one measured in this boot, and
\* never the placeholder.
HeightMeasured ==
    frame.tof_valid => frame.height = measuredAt /\ measuredAt # Never
=============================================================================
