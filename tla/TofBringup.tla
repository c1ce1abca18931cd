------------------------------ MODULE TofBringup ------------------------------
(***************************************************************************)
(* Bringing up the time-of-flight sensors of the riskybird board, which    *)
(* all leave the factory with the same I2C address and are told apart by   *)
(* enabling one at a time through the ADS7128 expander:                    *)
(*   "l5"     samples/riskybird/vl35l5cx_test: N VL53L5CX on channels      *)
(*            1 .. N get the addresses BASE, BASE+1, ...                   *)
(*   "l1"     samples/riskybird/sensor_bringup: the VL53L1X on channel 6   *)
(*            is moved away, then the first VL53L5CX is enabled            *)
(*   "toggle" samples/riskybird/ads7128_test: channel 1 is toggled         *)
(*                                                                         *)
(* A transfer on the bus may fail (MAX_FAULTS per boot), with or without   *)
(* having had its effect, and the processor may be reset at any time: the  *)
(* expander and the sensors keep their state then.  The sensors and the    *)
(* expander are external.  A VL53L1X that is disabled forgets its address; *)
(* whether a VL53L5CX does depends on how the board wires its enable       *)
(* (keeps).  The sleeps, the scans, the waiting for a first answer and the *)
(* register reads that are only printed change nothing and are left out.   *)
(***************************************************************************)
EXTENDS Naturals, Sequences

CONSTANTS N,               \* VL53L5_SENSOR_COUNT
          ATTEMPTS,        \* attempts at a new address (5)
          MAX_ERRORS,      \* MAX_CONSECUTIVE_ERRORS (10)
          MAX_FAULTS, MAX_RESETS

L1 == 6
L5 == 1 .. N
Chans == L5 \union {L1}
Regs == <<"PIN_CFG", "GPIO_CFG", "GPO_DRIVE_CFG">>
RegSet == {Regs[k] : k \in 1 .. 3}

DEFAULT == 41               \* 0x29
L1_NEW  == 48               \* 0x30
BASE    == 49               \* 0x31
NewAddr(s) == BASE + (s - 1)

VARIABLES
    bprog, tpc,
    cfg, gpo, floating,       \* the expander; how an input pin that is not driven is pulled
    addr, inited, keeps,      \* the sensors: address, firmware loaded
    idx, attempt, errors, gpio_state,
    faults, resets,
    answered                  \* which driver was last answered, and by which sensors

expander == <<cfg, gpo, floating>>
sensors  == <<addr, inited, keeps>>
locals   == <<idx, attempt, errors, gpio_state>>
tofVars  == <<bprog, tpc, expander, sensors, locals, faults, resets, answered>>

Nobody == [driver |-> 0, by |-> {}]

Init ==
    /\ bprog \in {"l5", "l1", "toggle"} /\ tpc = "start"
    /\ floating \in BOOLEAN /\ keeps \in BOOLEAN
    /\ cfg \in {[r \in RegSet |-> {}], [r \in RegSet |-> Chans]}
    /\ gpo \in SUBSET Chans
    /\ addr \in [Chans -> {DEFAULT}] \union (IF keeps THEN {[s \in Chans |-> IF s = L1 THEN DEFAULT ELSE NewAddr(s)]} ELSE {})
    /\ inited = {}
    /\ idx = 1 /\ attempt = 1 /\ errors = 0 /\ gpio_state = 0
    /\ faults = 0 /\ resets = 0 /\ answered = Nobody

-----------------------------------------------------------------------------
(* The bus *)

Driven(c) == {s \in Chans : \A r \in RegSet : s \in c[r]}
Awake(c, g) == {s \in Chans : IF s \in Driven(c) THEN s \in g ELSE floating}

\* What the sensors remember when only those in `on' are enabled.
Remembers(s, on) == s \in on \/ (s # L1 /\ keeps)
Follow(on) ==
    /\ addr' = [s \in Chans |-> IF Remembers(s, on) THEN addr[s] ELSE DEFAULT]
    /\ inited' = {s \in inited : Remembers(s, on)}

\* The sensors that hear a transfer to address a.
Hears(a) == {s \in Awake(cfg, gpo) : addr[s] = a}

Fault == faults < MAX_FAULTS /\ faults' = faults + 1

\* The expander's registers get the values c and g.
Expander(c, g) == cfg' = c /\ gpo' = g /\ Follow(Awake(c, g))

\* ads7128_config_gpio_output of the channels chs, in order: the first n bits are set.
Configured(chs, n) ==
    [r \in RegSet |-> cfg[r] \union {chs[1 + (k \div 3)] : k \in {j \in 0 .. n - 1 : Regs[1 + (j % 3)] = r}}]

\* A read or a write failed in between.
ConfigFails(chs) ==
    /\ Fault
    /\ \E n \in 0 .. 3 * Len(chs) : Expander(Configured(chs, n), gpo)
    /\ tpc' = "failed"

Stay == UNCHANGED <<bprog, floating, keeps, resets, answered>>

\* The processor is reset; the program starts again.
WarmReset ==
    /\ resets < MAX_RESETS /\ resets' = resets + 1
    /\ tpc' = "start" /\ faults' = 0 /\ answered' = Nobody
    /\ idx' = 1 /\ attempt' = 1 /\ errors' = 0 /\ gpio_state' = 0
    /\ UNCHANGED <<bprog, expander, sensors>>

\* A device that the program needs is not ready.
NotReady ==
    /\ tpc = "start" /\ tpc' = "end"
    /\ Stay /\ UNCHANGED <<cfg, gpo, addr, inited, locals, faults>>

Ready ==
    /\ tpc = "start" /\ tpc' = [l5 |-> "low", l1 |-> "config", toggle |-> "tests"][bprog]
    /\ Stay /\ UNCHANGED <<cfg, gpo, addr, inited, locals, faults>>

-----------------------------------------------------------------------------
(* vl35l5cx_test *)

AllChans == [k \in 1 .. N + 1 |-> IF k <= N THEN k ELSE L1]

\* The VL53L5CX that answer when their identity is asked for at address a.
Identified(a) == Hears(a) \ {L1}

\* ads7128_force_low_set in main
ForceLow ==
    /\ tpc = "low"
    /\ \/ Expander(Configured(AllChans, 3 * (N + 1)), {})
          /\ tpc' = "program" /\ UNCHANGED faults
       \/ ConfigFails(AllChans)
       \/ Fault /\ Expander(Configured(AllChans, 3 * (N + 1)), {}) /\ tpc' = "failed"
    /\ Stay /\ UNCHANGED <<idx, attempt, errors, gpio_state>>

AfterEnable == [program |-> "probe", init |-> "reinit", poll |-> "fetch"]

\* enable_one_sensor: everything low, then this sensor's channel high.  The shadow of
\* the output register is cleared first, so only this channel is in what is written.
EnableOne ==
    /\ tpc \in DOMAIN AfterEnable
    /\ \/ /\ cfg' = Configured(AllChans, 3 * (N + 1)) /\ gpo' = {idx} /\ Follow({})
          /\ tpc' = AfterEnable[tpc] /\ UNCHANGED faults
       \/ ConfigFails(AllChans)
       \/ /\ Fault
          /\ cfg' = Configured(AllChans, 3 * (N + 1)) /\ gpo' \in {{}, {idx}} /\ Follow({})
          /\ tpc' = "failed"
    /\ Stay /\ UNCHANGED <<idx, attempt, errors, gpio_state>>

\* To the next sensor, or to the first one of the next step.
Advance(again, step) ==
    /\ idx' = IF idx < N THEN idx + 1 ELSE 1
    /\ tpc' = IF idx < N THEN again ELSE step

\* Mutant of ProbeTarget: a sensor is always taken to be at the default address.
ProbeTargetSkipped ==
    /\ tpc = "probe" /\ tpc' = "default"
    /\ Stay /\ UNCHANGED <<cfg, gpo, addr, inited, locals, faults>>

\* program_one_sensor_address: is it at its address already?
ProbeTarget ==
    /\ tpc = "probe"
    /\ \/ /\ Identified(NewAddr(idx)) # {}
          /\ Advance("program", "init") /\ UNCHANGED faults
       \/ /\ IF Identified(NewAddr(idx)) = {} THEN UNCHANGED faults ELSE Fault
          /\ tpc' = "default" /\ UNCHANGED idx
    /\ Stay /\ UNCHANGED <<cfg, gpo, addr, inited, attempt, errors, gpio_state>>

\* Otherwise it must be at the default address.
ProbeDefault ==
    /\ tpc = "default"
    /\ attempt' = 1
    /\ \/ Identified(DEFAULT) # {} /\ tpc' = "readdress" /\ UNCHANGED faults
       \/ /\ IF Identified(DEFAULT) = {} THEN UNCHANGED faults ELSE Fault
          /\ tpc' = "failed"
    /\ Stay /\ UNCHANGED <<cfg, gpo, addr, inited, idx, errors, gpio_state>>

Move(from, to) == addr' = [s \in Chans |-> IF s \in Hears(from) THEN to ELSE addr[s]]

\* An attempt at vl53l5cx_readdress_bootstrap.  One that fails may have moved the
\* sensor: the next one then finds nothing at the default address.
Readdress ==
    /\ tpc = "readdress"
    /\ \/ /\ Hears(DEFAULT) # {}
          /\ Move(DEFAULT, NewAddr(idx))
          /\ Advance("program", "init") /\ UNCHANGED <<attempt, faults>>
       \/ /\ \/ Hears(DEFAULT) = {} /\ UNCHANGED <<addr, faults>>
             \/ Fault /\ (UNCHANGED addr \/ Move(DEFAULT, NewAddr(idx)))
          /\ attempt' = attempt + 1
          /\ tpc' = IF attempt < ATTEMPTS THEN "readdress" ELSE "failed"
          /\ UNCHANGED idx
    /\ Stay /\ UNCHANGED <<cfg, gpo, inited, errors, gpio_state>>

\* vl53l5cx_reinit of driver idx
Reinit ==
    /\ tpc = "reinit"
    /\ \/ /\ Hears(NewAddr(idx)) # {}
          /\ inited' = inited \union Hears(NewAddr(idx))
          /\ Advance("init", "poll") /\ UNCHANGED faults
       \/ /\ IF Hears(NewAddr(idx)) = {} THEN UNCHANGED faults ELSE Fault
          /\ tpc' = "failed" /\ UNCHANGED <<inited, idx>>
    /\ Stay /\ UNCHANGED <<cfg, gpo, addr, attempt, errors, gpio_state>>

\* sensor_sample_fetch; when it fails one reinit and one more fetch.
Fetch ==
    /\ tpc \in {"fetch", "refetch"}
    /\ LET who == Hears(NewAddr(idx)) IN
       \/ /\ who # {} /\ who \subseteq inited
          /\ answered' = [driver |-> idx, by |-> who]
          /\ Advance("poll", "poll") /\ UNCHANGED faults
       \/ /\ IF who # {} /\ who \subseteq inited THEN Fault ELSE UNCHANGED faults
          /\ UNCHANGED answered
          /\ IF tpc = "fetch" THEN tpc' = "retry" /\ UNCHANGED idx ELSE Advance("poll", "poll")
    /\ UNCHANGED <<bprog, floating, keeps, resets, cfg, gpo, addr, inited, attempt, errors, gpio_state>>

RetryReinit ==
    /\ tpc = "retry"
    /\ LET who == Hears(NewAddr(idx)) IN
       \/ /\ who # {} /\ inited' = inited \union who
          /\ tpc' = "refetch" /\ UNCHANGED <<idx, faults>>
       \/ /\ IF who = {} THEN UNCHANGED faults ELSE Fault
          /\ Advance("poll", "poll") /\ UNCHANGED inited
    /\ Stay /\ UNCHANGED <<cfg, gpo, addr, attempt, errors, gpio_state>>

-----------------------------------------------------------------------------
(* sensor_bringup, and the toggling of ads7128_test *)

\* ads7128_test asks for the expander's answer and reads five registers first.
RegisterTests ==
    /\ tpc = "tests"
    /\ \/ tpc' = "config" /\ UNCHANGED faults
       \/ tpc' = "failed" /\ Fault
    /\ Stay /\ UNCHANGED <<cfg, gpo, addr, inited, locals>>

Outputs == IF bprog = "l1" THEN AllChans ELSE <<1>>

Configure ==
    /\ tpc = "config"
    /\ \/ /\ Expander(Configured(Outputs, 3 * Len(Outputs)), gpo)
          /\ tpc' = (IF bprog = "l1" THEN "lower" ELSE "toggle") /\ UNCHANGED faults
       \/ ConfigFails(Outputs)
    /\ Stay /\ UNCHANGED locals

\* The other channels are as they are read from the expander.
GpoWith(ch, value) == IF value = 1 THEN gpo \union {ch} ELSE gpo \ {ch}

\* ads7128_write_gpio
WriteGpio(ch, value) ==
    /\ Expander(cfg, GpoWith(ch, value))
    /\ UNCHANGED faults

WriteGpioFails(ch, value) ==
    /\ Fault
    /\ Expander(cfg, gpo) \/ Expander(cfg, GpoWith(ch, value))

\* The enables are put low one by one.
Lower ==
    /\ tpc = "lower"
    /\ \/ /\ WriteGpio(AllChans[idx], 0)
          /\ idx' = IF idx <= N THEN idx + 1 ELSE 1
          /\ tpc' = IF idx <= N THEN "lower" ELSE "raise"
       \/ WriteGpioFails(AllChans[idx], 0) /\ tpc' = "failed" /\ UNCHANGED idx
    /\ Stay /\ UNCHANGED <<attempt, errors, gpio_state>>

\* The VL53L1X is enabled, and once it is set up the first VL53L5CX.
Raise ==
    /\ tpc \in {"raise", "enable"}
    /\ LET ch == IF tpc = "raise" THEN L1 ELSE 1 IN
       \/ WriteGpio(ch, 1) /\ tpc' = IF tpc = "raise" THEN "rename" ELSE "measure"
       \/ WriteGpioFails(ch, 1) /\ tpc' = "failed"
    /\ Stay /\ UNCHANGED locals

\* vl53l1x_change_address, whose failure is not heeded
ChangeAddress ==
    /\ tpc = "rename" /\ tpc' = "reinit1"
    /\ \/ Move(DEFAULT, L1_NEW) /\ UNCHANGED faults
       \/ Fault /\ (UNCHANGED addr \/ Move(DEFAULT, L1_NEW))
    /\ Stay /\ UNCHANGED <<cfg, gpo, inited, locals>>

\* vl53l1x_reinit: the driver knows the sensor by the new address.
ReinitL1 ==
    /\ tpc = "reinit1"
    /\ \/ /\ Hears(L1_NEW) # {} /\ inited' = inited \union Hears(L1_NEW)
          /\ tpc' = "enable" /\ UNCHANGED faults
       \/ /\ IF Hears(L1_NEW) = {} THEN UNCHANGED faults ELSE Fault
          /\ tpc' = "failed" /\ UNCHANGED inited
    /\ Stay /\ UNCHANGED <<cfg, gpo, addr, locals>>

Measure ==
    /\ tpc = "measure"
    /\ LET who == Hears(L1_NEW) IN
       \/ /\ who # {} /\ who \subseteq inited
          /\ answered' = [driver |-> L1, by |-> who]
          /\ errors' = 0 /\ UNCHANGED <<tpc, faults>>
       \/ /\ IF who # {} /\ who \subseteq inited THEN Fault ELSE UNCHANGED faults
          /\ errors' = errors + 1
          /\ tpc' = IF errors + 1 = MAX_ERRORS THEN "failed" ELSE "measure"
          /\ UNCHANGED answered
    /\ UNCHANGED <<bprog, floating, keeps, resets, cfg, gpo, addr, inited, idx, attempt, gpio_state>>

\* The state is toggled first, also when the write then fails.
Toggle ==
    /\ tpc = "toggle"
    /\ gpio_state' = 1 - gpio_state
    /\ \/ WriteGpio(1, gpio_state') /\ tpc' = "read back"
       \/ WriteGpioFails(1, gpio_state') /\ UNCHANGED tpc
    /\ Stay /\ UNCHANGED <<idx, attempt, errors>>

\* ads7128_read_gpio; the outcome is printed.
ReadBack ==
    /\ tpc = "read back" /\ tpc' = "toggle"
    /\ UNCHANGED faults \/ Fault
    /\ Stay /\ UNCHANGED <<cfg, gpo, addr, inited, locals>>

Next ==
    \/ WarmReset \/ NotReady \/ Ready
    \/ ForceLow \/ EnableOne \/ ProbeTarget \/ ProbeDefault \/ Readdress \/ Reinit \/ Fetch \/ RetryReinit
    \/ Configure \/ Lower \/ Raise \/ ChangeAddress \/ ReinitL1 \/ Measure
    \/ RegisterTests \/ Toggle \/ ReadBack

\* For a check of this module alone.
Spec == Init /\ [][Next]_tofVars

-----------------------------------------------------------------------------
\* Whatever fails, and wherever a boot is cut off, a sensor is at the default address
\* or at its own: a later boot can find it, no two that have been moved clash, and a
\* driver is answered by its own sensor alone.
Findable ==
    /\ \A s \in L5 : addr[s] \in {DEFAULT, NewAddr(s)}
    /\ addr[L1] \in {DEFAULT, L1_NEW}
    /\ answered.by \subseteq {answered.driver}

\* A boot in which no transfer fails gets through, whatever the boots before it left
\* in the expander and in the sensors, if the sensors keep their addresses.
CleanBootWorks == keeps /\ faults = 0 => tpc # "failed"

\* Writing one enable leaves the others as they are, also in the first write after a
\* reset (in the programs that read the register back).
OneEnableStep ==
    tpc \in {"toggle", "raise", "enable"} /\ resets' = resets =>
        \E ch \in Chans : gpo' \ {ch} = gpo \ {ch}
=============================================================================
