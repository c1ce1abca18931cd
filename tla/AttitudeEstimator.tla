--------------------------- MODULE AttitudeEstimator ---------------------------
(***************************************************************************)
(* samples/flight_controller/src/attitude_estimator.c: a thread that reads *)
(* the IMU, integrates the gyroscope over the time since its last round    *)
(* and blends in the accelerometer, and the calls that start it, stop it   *)
(* and read the attitude.  main.c initialises, starts and then only reads; *)
(* here the caller stops and starts it again too.                          *)
(*                                                                         *)
(* The angles are named by the round that wrote them.  The gyroscope turns *)
(* at rate one, so that the yaw is the time that has been integrated.      *)
(* MAX_TIME bounds the clock.                                              *)
(***************************************************************************)
EXTENDS Naturals

CONSTANTS PERIOD, MAX_TIME

VARIABLES
    apc, epc,                \* the caller, the estimator's thread
    estimator_running, attitude_mutex,
    clock, last_time, dt, wake,
    round, current_attitude, got,
    yaw, lost, alive         \* history: time integrated, time of rounds without a reading, time the thread ran

estVars == <<apc, epc, estimator_running, attitude_mutex, clock, last_time, dt, wake,
             round, current_attitude, got, yaw, lost, alive>>

Axes == <<"roll", "pitch", "yaw">>
Flat(n) == [a \in {"roll", "pitch", "yaw"} |-> n]

Init ==
    /\ apc = "init" /\ epc = "none"
    /\ estimator_running = FALSE /\ attitude_mutex = "free"
    /\ clock = 0 /\ last_time = 0 /\ dt = 0 /\ wake = 0
    /\ round = 0 /\ current_attitude = Flat(0) /\ got = Flat(0)
    /\ yaw = 0 /\ lost = 0 /\ alive = 0

Tick ==
    /\ clock < MAX_TIME /\ clock' = clock + 1
    /\ alive' = IF epc \in {"none", "enter"} THEN alive ELSE alive + 1
    /\ UNCHANGED <<apc, epc, estimator_running, attitude_mutex, last_time, dt, wake, round, current_attitude, got, yaw, lost>>

-----------------------------------------------------------------------------
(* The calls *)

CallerLeaves == <<clock, last_time, dt, wake, round, current_attitude, yaw, lost, alive>>

InitFails ==
    /\ apc = "init" /\ apc' = "end"
    /\ UNCHANGED <<epc, estimator_running, attitude_mutex, got, CallerLeaves>>

InitOk ==
    /\ apc = "init" /\ apc' = "idle"
    /\ UNCHANGED <<epc, estimator_running, attitude_mutex, got, CallerLeaves>>

\* attitude_estimator_start: nothing when it runs already
Start ==
    /\ apc = "idle" /\ ~estimator_running
    /\ estimator_running' = TRUE
    /\ epc' = "enter"
    /\ UNCHANGED <<apc, attitude_mutex, got, CallerLeaves>>

\* attitude_estimator_stop, up to k_thread_join
Stop ==
    /\ apc = "idle" /\ estimator_running
    /\ estimator_running' = FALSE /\ apc' = "join"
    /\ UNCHANGED <<epc, attitude_mutex, got, CallerLeaves>>

Join ==
    /\ apc = "join" /\ epc = "none"
    /\ apc' = "idle"
    /\ UNCHANGED <<epc, estimator_running, attitude_mutex, got, CallerLeaves>>

\* attitude_estimator_get
GetLock ==
    /\ apc = "idle" /\ attitude_mutex = "free"
    /\ attitude_mutex' = "caller" /\ apc' = "copy 1"
    /\ UNCHANGED <<epc, estimator_running, got, CallerLeaves>>

\* Mutant of Copy: the mutex is given back before the structure is copied.
CopyUnlocked(i) ==
    /\ apc = <<"copy 1", "copy 2", "copy 3">>[i]
    /\ apc' = <<"copy 2", "copy 3", "idle">>[i]
    /\ got' = [got EXCEPT ![Axes[i]] = current_attitude[Axes[i]]]
    /\ attitude_mutex' = IF i = 1 THEN "free" ELSE attitude_mutex
    /\ UNCHANGED <<epc, estimator_running, CallerLeaves>>

Copy(i) ==
    /\ apc = <<"copy 1", "copy 2", "copy 3">>[i]
    /\ apc' = <<"copy 2", "copy 3", "idle">>[i]
    /\ got' = [got EXCEPT ![Axes[i]] = current_attitude[Axes[i]]]
    /\ attitude_mutex' = IF i = 3 THEN "free" ELSE attitude_mutex
    /\ UNCHANGED <<epc, estimator_running, CallerLeaves>>

\* The program around it.  main.c initialises, starts, and then gets in a loop.
Caller ==
    \/ InitFails \/ InitOk \/ Start \/ Stop \/ Join \/ GetLock
    \/ \E i \in 1 .. 3 : Copy(i)

-----------------------------------------------------------------------------
(* attitude_estimator_thread *)

ThreadLeaves == <<apc, estimator_running, clock, got, alive>>

Enter ==
    /\ epc = "enter" /\ epc' = "check"
    /\ last_time' = clock
    /\ UNCHANGED <<ThreadLeaves, attitude_mutex, dt, wake, round, current_attitude, yaw, lost>>

\* The loop's condition, and the time of this round
Check ==
    /\ epc = "check"
    /\ IF estimator_running
       THEN /\ epc' = "read" /\ dt' = clock - last_time /\ last_time' = clock
            /\ UNCHANGED lost
       ELSE /\ epc' = "none" /\ lost' = lost + (clock - last_time)
            /\ UNCHANGED <<dt, last_time>>
    /\ UNCHANGED <<ThreadLeaves, attitude_mutex, wake, round, current_attitude, yaw>>

\* One of the four reads fails: the round's time is not made up for.
ReadFails ==
    /\ epc = "read" /\ epc' = "sleep"
    /\ wake' = clock + PERIOD /\ lost' = lost + dt
    /\ UNCHANGED <<ThreadLeaves, attitude_mutex, last_time, dt, round, current_attitude, yaw>>

ReadOk ==
    /\ epc = "read" /\ attitude_mutex = "free"
    /\ epc' = "filter 1" /\ attitude_mutex' = "estimator" /\ round' = round + 1
    /\ UNCHANGED <<ThreadLeaves, last_time, dt, wake, current_attitude, yaw, lost>>

\* complementary_filter writes the three angles, under the mutex.
Filter(i) ==
    /\ epc = <<"filter 1", "filter 2", "filter 3">>[i]
    /\ epc' = <<"filter 2", "filter 3", "sleep">>[i]
    /\ current_attitude' = [current_attitude EXCEPT ![Axes[i]] = round]
    /\ yaw' = IF i = 3 THEN yaw + dt ELSE yaw
    /\ attitude_mutex' = IF i = 3 THEN "free" ELSE attitude_mutex
    /\ wake' = clock + PERIOD
    /\ UNCHANGED <<ThreadLeaves, last_time, dt, round, lost>>

Wake ==
    /\ epc = "sleep" /\ clock >= wake
    /\ epc' = "check"
    /\ UNCHANGED <<ThreadLeaves, attitude_mutex, last_time, dt, wake, round, current_attitude, yaw, lost>>

Next ==
    \/ Tick \/ Caller
    \/ Enter \/ Check \/ ReadFails \/ ReadOk \/ Wake
    \/ \E i \in 1 .. 3 : Filter(i)

\* For a check of this module alone.
Spec == Init /\ [][Next]_estVars

-----------------------------------------------------------------------------
\* An attitude that is read is one the filter computed: its three angles are of the
\* same round, whenever the reader comes in between.
AttitudeWhole == apc = "idle" => \A a \in DOMAIN got : got[a] = got["roll"]

\* The estimator is started only when no thread of it is left: the thread's stack is
\* never given to a second one.
OneThreadStep == epc' = "enter" => epc \in {"none", "enter"}

\* At the head of the loop all the time the thread has run is accounted for: it has
\* been integrated once, or belongs to a round whose reading failed, or is the time
\* since the last round.  The time between a stop and the next start is not.
TimeAccounted == epc = "check" => yaw + lost + (clock - last_time) = alive
=============================================================================
