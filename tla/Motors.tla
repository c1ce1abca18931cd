------------------------------- MODULE Motors -------------------------------
(***************************************************************************)
(* The programs that turn the motors of the riskybird board:               *)
(*   "fixed"  riskybird/motor_1 .. motor_3: all motors at one duty         *)
(*   "uart"   riskybird/motor_4: the throttle comes over a UART            *)
(*   "spin"   samples/riskybird/actuator_bringup: one motor after another  *)
(*                                                                         *)
(* The motors are set one by one, and setting one may fail (MAX_FAULTS).   *)
(* A character is a digit, or the name of the command it stands for: "s"   *)
(* starts, "x" stops, "nl" is any other one.  MAX_CHARS bounds the input.  *)
(***************************************************************************)
EXTENDS Naturals, Sequences

CONSTANTS Digits,            \* the digits that are typed
          MOTORS,            \* 4
          MAX_CHARS, MAX_FAULTS,
          SPIN_DUTY_PCT, HIGH_DUTY_PCT

THROTTLE_BUF_LEN == 4

VARIABLES
    mprog, mpc, motors,        \* the motors this program has
    duty,                      \* the pulse of each PWM channel, in percent
    k, target, after,          \* set_throttle: the motor it is at, the duty, what comes next
    throttle_pct, throttle_buf,
    motorFaults, chars,
    typed,                     \* history: the digits since the last other character: how many,
                               \* the first one, and the number they are
    setOk                      \* history: the last set_throttle set every motor

motorVars == <<mprog, mpc, motors, duty, k, target, after, throttle_pct, throttle_buf,
               motorFaults, chars, typed, setOk>>

NothingTyped == [count |-> 0, first |-> 0, number |-> 0]

Init ==
    /\ mprog \in {"fixed", "uart", "spin"} /\ mpc = "start"
    /\ motors \in (IF mprog = "fixed" THEN 1 .. 3 ELSE {MOTORS})
    /\ duty \in {[m \in 1 .. MOTORS |-> d] : d \in {0, HIGH_DUTY_PCT}}
    /\ k = 1 /\ target = 0 /\ after = "none"
    /\ throttle_pct = 10 /\ throttle_buf = <<>>
    /\ motorFaults = 0 /\ chars = 0 /\ typed = NothingTyped /\ setOk = FALSE

\* pwm_set of motor m: either it is set, or it fails and keeps its pulse.
PwmSet(m, pct) ==
    \/ duty' = [duty EXCEPT ![m] = pct] /\ UNCHANGED motorFaults
    \/ motorFaults < MAX_FAULTS /\ motorFaults' = motorFaults + 1 /\ UNCHANGED duty

Failed == motorFaults' # motorFaults

\* set_throttle(pct), and then next
Call(pct, next) == mpc' = "set" /\ k' = 1 /\ target' = pct /\ after' = next /\ setOk' = FALSE

\* A PWM channel or the UART is not ready.
NotReady ==
    /\ mpc = "start" /\ mpc' = "not ready"
    /\ UNCHANGED <<mprog, motors, duty, k, target, after, throttle_pct, throttle_buf, motorFaults, chars, typed, setOk>>

Ready ==
    /\ mpc = "start"
    /\ \/ mprog = "fixed" /\ Call(IF motors = 1 THEN 100 ELSE HIGH_DUTY_PCT, "end")
       \/ mprog = "uart" /\ Call(0, "poll")
       \/ mprog = "spin" /\ mpc' = "off" /\ UNCHANGED <<k, target, after, setOk>>
    /\ UNCHANGED <<mprog, motors, duty, throttle_pct, throttle_buf, motorFaults, chars, typed>>

\* Mutant of SetThrottle: a failure does not end it, and the rest succeeds.
SetThrottleOn ==
    /\ mpc = "set"
    /\ PwmSet(k, target)
    /\ IF k < motors
       THEN k' = k + 1 /\ UNCHANGED <<mpc, throttle_pct, setOk>>
       ELSE mpc' = after /\ throttle_pct' = target /\ setOk' = TRUE /\ UNCHANGED k
    /\ UNCHANGED <<mprog, motors, target, after, throttle_buf, chars, typed>>

\* One motor of set_throttle; the first failure ends it, and the percentage is kept.
SetThrottle ==
    /\ mpc = "set"
    /\ PwmSet(k, target)
    /\ IF Failed THEN mpc' = after /\ UNCHANGED <<k, throttle_pct, setOk>>
       ELSE IF k < motors THEN k' = k + 1 /\ UNCHANGED <<mpc, throttle_pct, setOk>>
       ELSE mpc' = after /\ throttle_pct' = target /\ setOk' = TRUE /\ UNCHANGED k
    /\ UNCHANGED <<mprog, motors, target, after, throttle_buf, chars, typed>>

-----------------------------------------------------------------------------
(* motor_4: process_uart_byte *)

\* strtoul of throttle_buf, which holds at most three digits.
Value(s) ==
    LET Place(i) == IF i <= Len(s) THEN s[Len(s) + 1 - i] ELSE 0
    IN  Place(1) + 10 * Place(2) + 100 * Place(3)
Clamp(n) == IF n > 100 THEN 100 ELSE n

\* Digits beyond the third are dropped.
Digit ==
    /\ mpc = "poll" /\ chars < MAX_CHARS /\ chars' = chars + 1
    /\ \E d \in Digits :
          /\ throttle_buf' = IF Len(throttle_buf) < THROTTLE_BUF_LEN - 1 THEN Append(throttle_buf, d) ELSE throttle_buf
          /\ typed' = [count  |-> typed.count + 1,
                       first  |-> IF typed.count = 0 THEN d ELSE typed.first,
                       number |-> 10 * typed.number + d]
    /\ UNCHANGED <<mprog, mpc, motors, duty, k, target, after, throttle_pct, motorFaults, setOk>>

\* Another character: apply_throttle_number first, then the command.
Command ==
    /\ mpc = "poll" /\ chars < MAX_CHARS /\ chars' = chars + 1
    /\ \E c \in {"s", "x", "nl"} :
          IF throttle_buf = <<>>
          THEN mpc' = c /\ UNCHANGED <<k, target, after, setOk>>
          ELSE Call(Clamp(Value(throttle_buf)), c)
    /\ throttle_buf' = <<>>
    /\ UNCHANGED <<mprog, motors, duty, throttle_pct, motorFaults, typed>>

DoCommand ==
    /\ \/ mpc = "s" /\ Call(throttle_pct, "poll")
       \/ mpc = "x" /\ Call(0, "poll")
       \/ mpc = "nl" /\ mpc' = "poll" /\ UNCHANGED <<k, target, after, setOk>>
    /\ typed' = NothingTyped
    /\ UNCHANGED <<mprog, motors, duty, throttle_pct, throttle_buf, motorFaults, chars>>

-----------------------------------------------------------------------------
(* actuator_bringup *)

AllOff ==
    /\ mpc = "off"
    /\ PwmSet(k, 0)
    /\ k' = IF k < motors THEN k + 1 ELSE 1
    /\ mpc' = IF k < motors THEN "off" ELSE "on"
    /\ UNCHANGED <<mprog, motors, target, after, throttle_pct, throttle_buf, chars, typed, setOk>>

SpinOn ==
    /\ mpc = "on" /\ mpc' = "stop"
    /\ PwmSet(k, SPIN_DUTY_PCT)
    /\ UNCHANGED <<mprog, motors, k, target, after, throttle_pct, throttle_buf, chars, typed, setOk>>

SpinOff ==
    /\ mpc = "stop"
    /\ PwmSet(k, 0)
    /\ k' = IF k < motors THEN k + 1 ELSE k
    /\ mpc' = IF k < motors THEN "on" ELSE "end"
    /\ UNCHANGED <<mprog, motors, target, after, throttle_pct, throttle_buf, chars, typed, setOk>>

Next ==
    \/ NotReady \/ Ready \/ SetThrottle \/ Digit \/ Command \/ DoCommand
    \/ AllOff \/ SpinOn \/ SpinOff

\* For a check of this module alone.
Spec == Init /\ [][Next]_motorVars

-----------------------------------------------------------------------------
\* Between commands the motors turn at one duty, the remembered percentage, unless
\* the last command failed part of the way.
MotorsAgree ==
    mprog = "uart" /\ mpc = "poll" /\ setOk => \A m \in 1 .. motors : duty[m] = throttle_pct

\* The number that is applied is the number that was typed, at most 100, however many
\* digits it has, unless it is written with leading zeros into more than three digits.
NumberAsTyped ==
    /\ mprog = "uart" /\ mpc = "set" /\ after # "poll" /\ typed.count > 0
    /\ typed.first # 0 \/ typed.count <= THROTTLE_BUF_LEN - 1
    => target = Clamp(typed.number)

\* The bring-up turns one motor at a time, and none once it is done, as long as no
\* motor failed to be set.
OneMotorAtATime ==
    mprog = "spin" /\ mpc \in {"on", "stop", "end"} /\ motorFaults = 0 =>
        {m \in 1 .. motors : duty[m] # 0} \subseteq (IF mpc = "stop" THEN {k} ELSE {})
=============================================================================
