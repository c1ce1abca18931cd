# TLA+ models of zephyr-chipyard-sw

The repository is a collection of Zephyr programs for Chipyard SoCs.  Most of
it is samples that run once and print.  The parts with state, threads and
protocols of their own are

* the target-resident micro-ROS agent in `lib/microros_local`,
* the HTIF transport of `samples/micro_ros_multinode` with its host-side tools
  in `tools/microros`, and the micro-ROS applications,
* the RoSE flight, navigation and fused controllers with their sensors and
  estimators,
* drone control over a serial line,
* the multithreaded kernels and the vector library, and
* the sensor, motor and inference bring-ups, which are sequential but have
  failing transfers, resets and lifetimes to get right.

These models are about those parts.  Every definition is translated from the
source; `PROJECT.json` maps it to the lines it stands for.

Contents: [inventory](#inventory) · [modules](#modules-and-the-code) ·
[runs](#runs) · [bounds](#bounds) · [fairness](#fairness) ·
[proofs](#what-is-proved) · [disagreements](#where-comments-and-code-disagree) ·
[not modelled](#what-is-not-modelled) · [plan](#plan)

## Inventory

### Loopback transport (`lib/microros_local/src/transport_loopback.c`)

*State.* For each session a queue from the client to the broker and one back,
each of `LOOPBACK_DEPTH` slots.

*Operations.* The client's hooks `loopback_open` (purges both queues),
`loopback_write` (waits at most 50 ms for room), `loopback_read`,
`loopback_close` (does nothing); the broker's `loopback_broker_recv_any` (a
`k_poll` over all queues, then a scan of the marked ones) and
`loopback_broker_send` (waits at most 50 ms).

*Interactions.* Client threads and the broker thread share the queues and
nothing else.

*Hard.* Bounded queues on both sides of a thread that must not hang; a purge
while the other side waits for room; a poll result that is stale when the scan
gets to it; a scan that always begins at index 0.

*Correct when* the broker always comes back to `k_poll`, no queue exceeds its
depth, and nobody but lower-numbered sessions can keep a session from being
served.

### XRCE broker (`lib/microros_local/src/broker.c`)

*State.* A session record for each queue pair (id, key, a counter for each
stream), tables of topics, datawriters and datareaders, the header of the
message in hand, and the flag `broker_quiet`.

*Operations.* A handler for each submessage: `CREATE_CLIENT`, `CREATE`,
`GET_INFO`, `DELETE`, `WRITE_DATA`, `HEARTBEAT`; `READ_DATA`, `ACKNACK` and
unknown ones are skipped.  A message on a reliable stream is acknowledged
before it is looked at.  `WRITE_DATA` is written to the topic log and fanned
out, as `DATA`, to every datareader whose topic has the same name.
`broker_quiesce` is called from a fault handler on another hart.

*Interactions.* It sits on the loopback transport; it shares `htif_lock` with
every thread that prints.

*Hard.* A handler blocks, and may fail, in the middle (a full queue) and
ignores that; a client reopens its transport while replies to its former life
are on the way; object ids are the same in every session and mean different
things; sequence counters are shared between replies to a session's own
requests and other sessions' writes; nothing is ever released.

*Correct when* each object is in one slot, `DATA` goes to the session and the
reader that subscribed and only with what was published on its topic, numbers
on a reliable stream grow, a client that believes its session exists is right or
has the handshake that makes it right in front of all else it has sent, an
acknowledgement never runs ahead of the client and is never taken back.

### HTIF transport and proxy (`samples/micro_ros_multinode/src/transport_htif.c`, `tools/microros/htif_proxy.py`)

*State.* On the target the byte parser (state, buffer), and the payload that is
staged for the next read; in the proxy a parser, a lock on spike's stdin, the
pipes and the agent's pty.

*Operations.* `htif_transport_open`, `_write`, `_read` with a deadline; in the
proxy the threads `spike_to_proxy`, `agent_to_spike` and `heartbeat_to_spike`.

*Interactions.* Bytes on the HTIF console carry text and HDLC frames; the
target's GETC blocks on an empty stdin, so the proxy sends a zero byte every
millisecond.

*Hard.* Two writers on one pipe; a pipe that is full while the lock is held; a
deadline that is only looked at between two blocking reads; a parser whose
state survives a timeout, but not an open; frames longer than the buffer; text
that looks like a frame.

*Correct when* frames arrive whole, in order and once, reads return, and a
frame waiting for the lock is written.

### Topic log and decoder (`broker.c: log_topic_emit`, `tools/microros/topic_log_decoder.py`)

*State.* `htif_lock`, the decoder's parser.  *Operations.* One frame for each
topic write, with the lock held; printing threads, which take it byte by byte;
the decoder's parser and `decode_frame`.  *Hard.* Text with flag bytes between
frames.  *Correct when* the records decoded are the records logged.

### Matrix thread pool (`samples/tiled_matmul_mt_pool`) and matrix threads (`samples/tiled_matmul_mt`)

*State.* A task, two semaphores and two time stamps for each worker, the
matrix; in the other sample, thread objects that are created anew for each run.
*Operations.* `execute_task` and `worker_thread`; create, join, validate.
*Hard.* Stamps read before the worker has taken them; a warm-up run whose
values are still there; threads that are not joined.  *Correct when* the result
is complete and of this run when main looks at it, and the report is too.

### Flight controller (`samples/rose_flight_controller`)

*State.* `g_frame`, `g_state`, `g_ctrl` behind mutexes, three semaphores, the
estimator, the loop counter and the divider's tick.  *Operations.* `io_block`,
`est_block`, `ctrl_block`, and the single loop of the other build.  *Hard.* A
handover through semaphores that forget a second give, with a divider that
skips solves and fetch errors that skip frames.  *Correct when* the threaded
build does what the single loop does.

### Navigation controller (`samples/rose_nav_controller`)

*State.* `sem_tick`, the camera frame and `vision_busy`, `g_vision` behind
`mtx_vision`.  *Operations.* The timer, `ctrl_block`, `vision_block`.  *Hard.*
A frame buffer without a lock, handed over with a flag and a semaphore; capture
and preprocessing can fail.  *Correct when* no command comes from a torn frame
or from half an update, and vision is never locked out.

*Also* the single-loop build: main's set-up with a first range measurement that
may fail, four kinds of reference, iterations that are given up, the longest
gap between two commands.  *Correct when* the hover target is where the
estimator started, a command is from this iteration's frame, and the reference
moves no faster than the iterations.

### Fused controllers (`samples/rose_fused_mpc`, `samples/rose_fused_nav`)

*State.* The three inputs of the fused model (camera frame, ToF distances,
state vector), its held outputs `g_yr`, `g_fwd` and the bearing `g_misalign`.
*Operations.* The loop's iteration: read each input, run the model every so
often, solve, send.  *Hard.* The camera's rows share a channel with the ToF
answers; each input may fail after others were read; outputs and bearing are
written at different times; an answer that is given up half-way leaves its
other words in its channel, and nothing reads them off.  *Correct when* the model
runs on inputs of one iteration, except for those of a channel that is out of
step, and a command mixes no two runs.

### Sensors and estimators of the flight controllers

*State.* The expander's registers, the ToF sensor and the last height
(`rose_flight_controller/src/main.cpp`); a quaternion and three filters of
three states each (`attitude_mahony.hpp`, `estimator_ekf.*`,
`estimator_complementary.cpp`); the attitude behind a mutex, a thread and its
flag (`flight_controller/src/attitude_estimator.c`).  *Hard.* A processor reset
that does not reset the board; matrices written out by hand; time that must be
integrated once, also over a stop and a start.

### Drone control over a serial line (`samples/drone_control`)

*State.* A task for each drone (`obs`, a flag or a semaphore), the receiver's
place in a packet, the UART mutex; on the host the state sent and the action
awaited.  *Operations.* `main` receives and stores states, `drone_worker` copies,
solves and answers, the scripts send and read.  *Hard.* States are stored and
copied without a lock; bytes get lost and data may look like a header; responses
of several harts share a line; neither side of the text protocol repeats a line.
*Correct when* each drone is answered for its last state, a lost byte costs a
bounded number of packets, and neither side takes an old or a mixed state for
the last one: a worker of the binary protocol that copied parts of two states
solves and answers them, and must then be told of the second; in the text
protocol only a damaged line that still parses may bring that about.  Ten
programs also fill the solver's matrices by hand, and the copies must agree.

### Bring-up programs (`samples/riskybird`, `riskybird`)

*State.* Registers of the ADS7128 expander, addresses of sensors, the pages and
delta registers of the PMW3901, the motors' duties.  *Hard.* Identical addresses
that are told apart by enabling one sensor at a time; a transfer that took
effect and is reported as failed; resets at any point; results nobody looks at;
three of four motors set.  *Correct when* every boot can find every sensor, no
motion is counted twice, and the motors do what was typed.

### micro-ROS applications (`samples/micro_ros_local`, `micro_ros_multinode`)

*State.* A session, an executor and message buffers for each node.  *Hard.* Two
threads set up transports in a library with global defaults; any call may fail,
and main joins both threads.  *Correct when* each session is on its own queue,
pongs answer pings, and the image ends.

### Inference runners (`samples/executorch`, `iree`, `xnnpack`, `muriscv-nn`)

*State.* A static pool and planned inputs; reference-counted objects.  *Hard.*
Errors that are logged and ignored; inputs allocated anew for each iteration;
the order of releases.  *Correct when* a quiet execution ran on fresh inputs
and nothing is used after it was released.

### Other threads and the vector library (`test_mt_rvv`, `hello_pthread`, `tiled_eigen_mt`)

*State.* Threads and their ids, a vector register for each hart, tiles of a
result; in the library the strip in hand.  *Hard.* Arguments passed by address,
several threads on one register, strip lengths that the hardware chooses, tiles
at the edge.  *Correct when* main reports after all threads, and every operation
computes its definition.

### The rest

`PROJECT.json` lists the other components with the reason why they are not
modelled; see [below](#what-is-not-modelled).

## Modules and the code

| module | models | built on |
|---|---|---|
| `LoopbackTransport` | `transport_loopback.c`, as operations on the queues | |
| `LoopbackService` | the transport under clients that never stop, with the broker's loop reduced to receive and answer | `LoopbackTransport` |
| `Broker` | `broker.c` as the program of its thread, with clients | `LoopbackTransport` |
| `MCBroker` | two small instances of `Broker` | `Broker` |
| `BrokerProofs` | proofs about `Broker`: types, tables, routing | `Broker`, `TLAPS` |
| `BrokerClientProofs` | its clients' lives, acknowledgements, what subscribers get, and the order of replies | `BrokerProofs` |
| `Hdlc` | CRC, byte stuffing, the three parsers | |
| `HtifDownlink`, `MCHtifDownlink` | agent to target | `Hdlc` |
| `HtifProofs` | proofs about `HtifDownlink` | `HtifDownlink`, `TLAPS` |
| `HtifUplink` | target to agent | `Hdlc` |
| `TopicLog` | broker's log, printing threads, decoder | `Hdlc` |
| `MCHtif` | the three ways, one in use | `HtifDownlink`, `HtifUplink`, `TopicLog` |
| `FlightLoop` | the single loop: what the flight controller promises | |
| `FlightPipeline` | the threaded build, refines `FlightLoop` | `FlightLoop` (INSTANCE) |
| `FlightProofs` | proofs about `FlightPipeline` | `FlightPipeline`, `TLAPS` |
| `NavControl` | the threaded build of the navigation controller with DroNet | |
| `NavLoop` | its single-loop build | |
| `FusedLoop` | the loops of `rose_fused_mpc` and `rose_fused_nav` | |
| `FlightSensors` | the ToF sensor's power-up and polling on the board | |
| `Estimator` | Mahony attitude, Kalman and complementary filters, in exact arithmetic | |
| `AttitudeEstimator` | the estimator thread of `flight_controller` | |
| `MCControllers` | the six above from `NavControl` on, one running | all six |
| `ControllerProofs` | proofs about the six | `MCControllers`, `TLAPS` |
| `SerialHil`, `MCSerialHil` | the binary protocol of `drone_control` | |
| `SerialText` | its text protocol | |
| `SolverSetup` | filling in TinyMPC, and the loops that run by themselves | |
| `MCSerial` | the three, one running | all three |
| `SerialProofs` | proofs about the three | `MCSerial`, `TLAPS` |
| `ThreadPool` | `tiled_matmul_mt_pool` | |
| `PoolProofs` | proofs about `ThreadPool` | `ThreadPool`, `TLAPS` |
| `TiledMatmul` | `tiled_matmul_mt` | |
| `ThreadSamples` | `test_mt_rvv`, `hello_pthread`, `tiled_eigen_mt` | |
| `StripMine` | `matlib_rvv.h` | |
| `TofBringup` | `vl35l5cx_test`, `sensor_bringup`, `ads7128_test` | |
| `FlowSensor` | the PMW3901 driver and its two users | |
| `Motors` | `motor_1` to `motor_4`, `actuator_bringup` | |
| `ExecutorRunner` | the ExecuTorch runner | |
| `InferenceRunners` | the IREE, XNNPACK and muRISCV-NN samples | |
| `MicroRosApps` | `micro_ros_local`, `micro_ros_multinode` | |
| `MCSamples` | `ThreadPool` and the eight from `ThreadSamples` on, one running | all nine |
| `SampleProofs` | proofs about `ThreadSamples`, `ExecutorRunner`, `MicroRosApps`, `FlowSensor`, `TofBringup` and `Motors` | `MCSamples`, `TLAPS` |

The modules `MCHtif`, `MCControllers`, `MCSerial` and `MCSamples` are sums: a
board runs one program, so an instance picks one in its initial state and the
variables of the others stand still.  Their properties are guarded by the
program they are about.  The component modules have `Spec`s of their own.

**Broker.**  The broker thread is a program with a counter: `poll` and `scan`
are `recv_any`, `sub` is the submessage loop, `send` is
`loopback_broker_send`, `emit` is `log_topic_emit` with the lock held, `fan` is
the fan-out loop of `handle_write_data`.  A handler builds its reply, advances
the counters and goes to `send`, where it may wait, succeed or time out while
clients run.  The static variables `cur_session_idx`, `cur_session_id`,
`cur_in_stream_id` and `cur_key` are the record `cur`.  Tables are functions
from slots; a slot number is a pointer.  The fan-out's set of readers is
computed when it starts: the tables and the flags `active` change only in this
thread, so it is what the loop finds as it goes.  Session id, key and counter
of a reader's session are read when its `DATA` is built.  A message is a header
and the submessages that the parser reaches; topic names are what
`read_cdr_string` stores.  Request ids are echoed and left out.

The clients are rmw_microxrcedds, which is not in the repository.  They are
modelled from how `broker.c` serves them: open, `CREATE_CLIENT` until
`STATUS_AGENT` comes, then whatever the constant `ClientBody` allows, at most
`History` unacknowledged messages on the reliable stream, heartbeats, pings.  A
transport that was opened for a ping alone is opened again before there is a
session on it.  A client may read or not, and may open its transport again at any
time.  Its session id is a constant: 129 in the runs, the unkeyed 0x81 that
`broker.c:112` speaks of, whose headers carry no key.  A `STATUS_AGENT` made for
the client's previous life then looks like one for this life, and the client is
up before the broker has seen its new `CREATE_CLIENT`; the models have that.

Whether the board has the log's device is the constant `LogDevice`: without one,
and once it is quiesced, `log_topic_emit` returns without a record, and
`DeliveredAsPublished` then says nothing of the log.

**Hdlc.**  Bytes are numbers and frames are real frames: the CRC is computed
bit by bit and is checked against the published check value of CRC16-CCITT.
The three parsers differ in the limit of the buffer (target) and in the state
after a good frame (decoder), and share `Gather`.

**Matrices.**  A tile's value is the list of the products that have been added
up in it, each named by its run and its place in the inner dimension: a lost, a
doubled and a stale product can be told apart.  Time stamps are named by run and
worker; that the pool's report takes each worker's stamps in turn follows from
`timing_cycles_get`, an unsigned difference that is positive whenever its
arguments differ.

**Flight and navigation.**  A frame is its number, an estimate or a command is
the frames that it is computed from.  Semaphores have limit 1, so a give can be
lost.  A copy under a mutex is one step in `FlightPipeline`; in `NavControl`
the reading and writing of `g_vision` are two steps each under an explicit
mutex, and the camera frame has two halves, because it has no lock.

**Other controllers.**  Readings, estimates and commands are named by their
iteration, so that mixing two is visible.  `Estimator` computes: quaternions and
filters are integers over a common denominator, and the rotation and the
covariance are compared with their textbook definitions.  `AttitudeEstimator`
turns at rate one, so its yaw is the time that was integrated; its caller also
stops and starts the thread again, which the interface offers and `main.c` does
not do.

In `FusedLoop` the two request channels are in step or not.  A camera row that
fails and a ToF or state answer that is short leave theirs out of step for good:
what is read from it afterwards is `Garbage`, for the program looks at lengths
alone.

**Serial.**  A byte is named by the packet, the drone and the place it belongs
to; the last byte of a packet may look like the first of the header.  A byte that
is taken for the count may be any number up to `MAX_COUNT`.  The worker copies a
state word by word and the receiver stores it word by word, without a lock, as
`memcpy` does.  Workers are on the harts that `spawn_drone_workers` pins them to;
one on main's hart never runs.

A damaged line of text is one that has too few words, or that parses with another
id, a negative one included, another state or both, or one that is read together
with the next.  The host's `readline` may end in the middle of a line, of which it
then makes an action, nothing or an exception.  The history variable `misread`
says what has been taken for something it was not; main is not followed beyond a
state stored in front of the array.

**Bring-up.**  A transfer may fail with or without its effect; a reset keeps the
expander's and the sensors' state.  Whether a disabled VL53L5CX keeps its
address depends on the board, so the model has both, and the property is stated
for boards that keep it.

**Samples.**  In `ExecutorRunner` whatever `load_method` takes out of the pool is
any number of allocations that fit, each with an alignment of its own (`Aligns`).
`InferenceRunners` writes a program as the sequence of its calls,
each with the objects it needs, gets and gives back.  `StripMine` leaves the
strip length to the hardware within what `vsetvl` allows, and the unused lanes
of a register too.

Definitions that begin with *Mutant of* are the altered forms with which
`PROJECT.json` checks that each property can fail.

## Runs

| run | shows |
|---|---|
| `loopback_service` | With three clients that write, purge and read as they like, the broker always comes back to `k_poll` (`BrokerComesBack`); a waiting message is taken once the lower-numbered sessions are silent (`ServedWhenLowerSilent`). |
| `broker_pubsub` | A publisher that subscribes to itself and a subscriber that uses the same object ids for other topics: one slot for each object (`UniqueEntities`), `DATA` only to the session that has the reader (`RoutedToOwner`), only from its topic and, on this board with a log, logged before it is delivered (`DeliveredAsPublished`), numbers on the reliable stream grow (`ReliableInOrder`). |
| `broker_reopen` | A subscriber with an unkeyed session id (129) opens its transport a second time, at any point of the broker's program: while a client believes in its session the broker has the session of this life, or makes it before it looks at anything else the client has sent (`LivesApart`); acknowledgements are neither ahead of the client (`AckNotAhead`) nor taken back (`AckNeverRetracted`). Meanwhile the other client publishes to it, or sends every other kind of submessage, on every kind of stream, and fills the tables: every state is well typed (`TypeOK`, the statement of the theorem `TypeCorrect`). |
| `htif` | Downlink: what the client reads is what the proxy framed, in order, and nothing that fits is lost but what an open interrupts (`FramesDelivered`), reads return and frames get the lock (`DownlinkLive`). Uplink: every message reaches the agent once, unchanged and in order, and the user never sees a byte of one (`UplinkSound`). Log: the decoder finds exactly the records logged (`RecordsDecoded`). |
| `flight_pipeline` | The three blocks implement the single loop, safety and liveness (`ImplementsLoop`); every frame is fused once and in order (`FusedInOrder`); `Handover` is the inductive invariant of the proof. |
| `controllers` | `NavControl`: commands come from whole frames and whole updates, and `vision_busy` is set only while vision has work (`VisionHandover`); it is cleared, and all iterations are done (`NavLive`). `NavLoop`: `LoopSound`. `FusedLoop`: inputs are of one iteration while their channel is in step, and commands of one run (`NothingMixed`). `FlightSensors` over a warm reset: `TofTrusted`. `Estimator`: the covariance stays one, measurements draw and never overshoot, the lead is the prediction (`KalmanSound`), the matrix is a rotation and the trim leaves the heading alone (`RotationSound`). `AttitudeEstimator`: whole attitudes, all time integrated once, one thread (`AttitudeAccounted`). |
| `serial` | Binary: no stored state is overlooked and responses are read whole (`LineSound`); the receiver is back in step after a lost byte once as many packets have come as the largest misread count makes it skip (`BackInStep`); every drone whose worker has a hart to itself is answered for its last state (`Answered`). Text: states are whole and actions current until a damaged line or a cut action passes for a good one, and a stall needs a damaged or cut line (`TextSound`). Set-up: copies agree, errors are of one step, statistics cover all runs (`SetupSound`). |
| `samples` | The pool's result and report are of this run (`PoolSound`); the pool's program and the micro-ROS images end (`ProgramsEnd`); ToF sensors are found again after any cut-off boot (`Recovers`); `MotorsAsTold`; motion is counted once (`FlowTrusted`); quiet executions ran on fresh inputs (`ExecSound`); `LifetimesSound`; sessions apart and pongs after pings (`AppsSound`); `ThreadsSound`; the vector library computes its definitions (`MatlibMatches`). |
| `htif_coalesce` | *Violated.* `agent_to_spike` makes one frame of all that is in the pty, up to 4096 bytes; the target drops frames of more than 1024.  Messages that wait together, three of 512 bytes for instance, are lost together. |
| `tiled_result` | *Violated.* `tile_thread_function` passes `k%nHalf`, always 0, so a tile is the first product computed twice; and the last thread is not joined.  main's validation, which expects the full product, meets neither. |
| `hil_responses` | *Violated.* `send_response` appends the solve time, four bytes that its comment and `pybullet_hil_mt_binary.py` do not know: a host that reads what the comment says loses its place and skips responses, with no byte lost. |
| `exec_count` | *Violated.* The ExecuTorch runner's `used_` is not in sync with what `MemoryAllocator::allocate` has handed out: it adds padding for a size that is no multiple of the alignment, the allocator for an address that is none. |

## Bounds

*Broker.*  Two sessions and queues of two slots are enough for a full queue, a
timeout in the middle of a fan-out, and two sessions that use one id; each
client's calls of `loopback_write` are bounded by `MaxWrites`, its opens by
`MaxOpens`.  Set-up requests travel as one message, which the broker handles one
submessage at a time, so every point between two submessages is still reached.
`SeqMod` (65536 in the code) is larger than the number of messages: the wrap of
the counters is not reached by TLC.  The proofs of `TypeOK`, of the tables, of
routing and of `DeliveredAsPublished` hold for every modulus; those about
acknowledgements have the same bound as a hypothesis (`NoWrap`), that of
`ReliableInOrder` is about a run in which no counter comes to its end
(`NumbersLeft`).  `LoopbackService` needs no bound: its messages have no content.

All runs use the session id 129, which is unkeyed.  `broker_reopen` has no log
device, `broker_pubsub` has one; the theorems are about either.

`broker_pubsub` has clients that open once.  `ReliableInOrder` is not claimed for
a client that reopens (`OpensOnce`): a reply to the previous life that blocks over
the purges is followed by replies of this life with lower numbers, and under an
unkeyed id nothing tells them apart.  Nor would a key help: a repeated
`CREATE_CLIENT` starts the numbers over while the broker keeps the client's
readers, so a `DATA` that goes out between two of them is followed by one with the
same key and a lower number.

*HTIF.*  `MaxPayload` is 3, so the target's buffer holds 5 bytes, and the
agent's messages are of 1 and 3 bytes, with bytes that need stuffing: two of
them fit or do not fit together.  The pipe holds 2 or 3 bytes, less than a
frame, so that writers block in the middle of frames.  Three messages and one
reopening are enough for a frame lost to an open between two that are not.
`TopicLog` has two printing threads, three texts and two records.  Its texts
have flag bytes but no `}`; see below.

*Controllers.*  `FlightPipeline` runs ten iterations with a solve every third
frame, so that the divider wraps three times; the proof covers all other values.
`NavControl` runs four iterations with two vision slots: vision may be busy at
the second.  `NavLoop` runs five, one to settle and two of ramp, so that the
ramp begins, ends and is cut off, and an iteration may be given up in each part.
`FusedLoop` reads camera frames of three words in one or two rows.
`FlightSensors` has one reset, anywhere, and time steps up to the ranging
period.  `Estimator` is checked for every quaternion and gyroscope reading with
components in -1 .. 1 (`Component`), a few measurements (`Readings`) and variances
up to 2, for one predict and one correction of each kind: a statement about
formulas, not about convergence.  The proofs are for all integers.
`AttitudeEstimator` runs for six ticks with a period of two: three rounds, or a
stop and a start between them.

*Serial.*  Two drones with states of two words, four packets, one byte lost.  A
misread count is at most `MAX_COUNT`, here 4: twice the drones there are, so that
the bytes of more than one packet are skipped.  `RESYNC`, computed from it, is how
many packets the receiver may then need: three in the run, and 232 with the code's
numbers and one drone, where a count of 255 makes it skip 12240 bytes.  Two and four harts:
with two, one worker is on main's.  The host that looks for the header is checked
with headers of two bytes and actions of one; `HilResponses.cfg` has the real
sizes of header and action.  The text protocol has two states for each drone and
one line damaged or cut.  Two line ends in a row are not lost: three lines do not
fit into the board's buffer of 256 bytes.

*Samples.*  The pool runs with the code's four workers and two runs.  Two
VL53L5CX and the VL53L1X, two failing transfers in a boot, two resets; four
motors, five typed characters, so that a number may have more digits than the
buffer; a PMW3901 with byte size 2, so that counts wrap (the proof covers every size); a pool of 24
with alignment 4, or 1 and 4 in what `load_method` takes, and three iterations, so
that the last may not find room; two models with up to two inputs; three executor
passes and queues of two, so that a pong may be dropped; four threads on two harts; matrices of 1, 4 and 5 rows and
columns, registers of four lanes and tiles of 3 and 4, so that strips and tiles
are short at the edges of some products and all are full in others, where sums
are checked whatever the hardware does with unused lanes.

## Fairness

* *Broker, LoopbackService*: weak fairness of the broker thread only.  It has a
  hart of its own (`broker_start_pinned`) and all of its waits but `k_poll` end
  after 50 ms.  Nothing is assumed of the clients.
* *HtifDownlink*: weak fairness of the heartbeat thread, of the frame's writer
  and of the target's read loop; strong fairness of the frame's acquisition of
  the lock (the heartbeat sleeps without it for a millisecond at a time) and of
  the deadline (the clock is looked at again and again, and advances).  Nothing
  is assumed of the agent or of the client's next call.
* *ThreadPool*: weak fairness of every thread, for workers are pinned and main
  waits without spinning; strong fairness of taking `print_mutex`, which Zephyr
  hands to a waiter when it is released.
* *FlightPipeline*: weak fairness of each block; each blocks on its semaphore
  and leaves the processor to the others.
* *NavControl*: weak fairness of the timer and of both tasks; strong fairness of
  taking `mtx_vision`.  The vision task has the lower priority; it runs because
  the control task waits for ticks, and it inherits the priority of a waiter.
* *SerialHil*: weak fairness of main, which polls the UART on hart 0 and never
  blocks, and of each worker that has a hart to itself.  The workers spin without
  yielding, so one that shares its hart with another worker is promised nothing,
  and one that is pinned to main's, whose priority is better, never runs.  The
  pinning `(i+5) % CPUS` brings that about: with the code's four drones and four
  or eight harts, the worker of drone 3 is on main's.
* *MicroRosApps*: weak fairness of main and of each node's thread, and that the
  agent answers in the end: `micro_ros_multinode` pings it without a limit.

In the sums each of these is guarded by the program it belongs to; nothing is
assumed of the others, which have safety properties only.

`CHECK_DEADLOCK FALSE` is in the configurations of systems that really stop:
clients out of calls, programs that reach their end.

## What is proved

`BrokerProofs` proves, for any number of sessions, queue depth, table sizes,
sequence modulus and client behaviour,

* `TypeCorrect`: `TypeOK` always holds.  It is not inductive: `loopback_broker_send`
  needs a complete message and the fan-out a registered slot.  `SendOK` (at `send`
  there is a reply) and `FanOK` (slots still to be served are registered and
  there is a payload) are proved with it.
* `EntitiesUnique`: `UniqueEntities`.  `RegisterSlot` shows what `Register` does
  to a table: one slot changes, and only to an entry with the same session and
  id or from a free slot when there is no such entry.
* `DataRouted`: `RoutedToOwner`.  The strengthening `RouteInv` says it of the
  queue and of the reply in hand separately; registered readers are never
  released (`ReadersStay`), replies in a queue only come from `send`
  (`RepliesStep`), and `send_data` takes queue and id from one slot
  (`SentIsOwned`).

`FlightProofs` proves, for every number of iterations and every
`ROSE_CTRL_DIV`,

* `PipelineInvariant`: `TypeOK` and `Handover`, which are inductive together.
  `Handover` says that exactly one block or semaphore has the frame, and what the
  buffers, the estimator and the tick are at each point of its way.
* `FramesFused`: `FusedInOrder`.
* `StepsOfTheLoop`: every behaviour of the three blocks starts as the loop does
  and each of its steps is a step of the loop or a stutter, the safety half of
  `ImplementsLoop`.

`BrokerClientProofs` goes on from `TypeCorrect` and `DataRouted`, again for any
number of sessions, depth, table sizes and any number of reopenings:

* `LivesKeptApart`: `LivesApart`, whatever the session id.  It is not inductive:
  what the broker does with a client depends on messages that were sent before the
  client opened its transport again.  `LifeInv` says that the session record is
  never of a later life than the client, that nothing waits for the broker before
  the client's first message, and that once this was the handshake the record is of
  this life or the handshake is what comes next (`SessionInv`, `JoinsNext`); a
  handshake that waits is of the present life and travels alone (`QueuedInv`); the
  one in hand may be of an earlier life, but not of one before the record's
  (`HandInv`), and its answer leaves with nothing more in hand (`AgentInv`).  The
  purges of `loopback_open` are the steps that make this hard: they empty the
  queues and leave the message in hand, and its answer.
* `NoAckAhead`: `AckNotAhead`, and `AcksNeverRetracted`: the action property
  `AckNeverRetracted`, again whatever the session id.  `ChainInv` orders all numbers
  that the client will heed in its present life: those in its queue of answers, the
  one being sent, those the message in hand asks for, and those of the messages
  waiting, each at most the next.  A client heeds acknowledgements only when it is
  up (`Heeds`), so those made for an earlier life do not count: they come before any
  `STATUS_AGENT` in the queue, an answer that blocks over the purges being at most
  one message.
* `DataAsPublished`: `DeliveredAsPublished`.  `DataInv` follows a payload through
  the broker: every submessage is one that its client asked for (`KnownInv`), a
  table entry is what its own session created (`TablesAsked`), the readers still to
  be served have a topic of the payload's name and past `log_topic_emit` the log, if
  there is one and it is not quiesced, shows it (`FanInv`), and so for each `DATA`
  on its way (`OnWayInv`).
* `RepliesInOrder`: `ReliableInOrder`, while no counter of a reliable stream comes to
  its end.  `OrderInv` numbers the reply in hand after those in the queue, all below
  the session's counter (`Numbered`).  Only a `CREATE_CLIENT` turns the counter back,
  and `OnceInv` says that none is on its way once its client has asked for anything
  that is answered on that stream, and that before it has the session has neither a
  reader nor used a number.

Their hypotheses are about the clients, which are not in the repository, and are
part of each theorem.  `ProperClients`: session handshake and heartbeats come from
the client library alone.  `HonestClients`: a client creates an object again only
as it was, and its payloads name the topic it gave the writer, which is how the
model tells what was published where.  `NoWrap`: a client writes fewer messages
than there are sequence numbers.  `OpensOnce` and `NumbersLeft`, the latter of the
whole behaviour: see [bounds](#bounds).  TLC evaluates the first two and `NoWrap`
in every broker run (`ClientsAssumption`); `OpensOnce` and, in every state,
`NumbersLeft` are true in `broker_pubsub`.

`HtifProofs` proves `FramesAreDelivered`: `FramesDelivered`, for any messages of the
agent, any sizes of chunks, buffer, pipe and reads, and any number of opens.
`DownlinkInv` says who may write into the pipe (`Locked`), that the client has all
that was decoded (`HandedOut`), and how the bytes under way lead the parser from
where it is to the frame that is written next (`Flow`): each byte is the next of its
frame, or a heartbeat between two (`Goes`, `Route`, `Leads`); the parser is inside
the frame that the reader is in, or waits for a flag because of an open or because
the frame did not fit (`ParserAt`); and the frames decoded are the last of those that
fit, in their order, at most one missing for each open (`Ranks`, `Accounted`).  The
case that makes it hard is the open in the middle of a frame: the parser takes the
frame's closing flag for an opening one (`Interrupted`), and the next frame is read
all the same, because the heartbeats that may lie between are no frame and its own
first flag starts the parser afresh.  Stuffing, CRC and concatenation are
recursive functions; that such a function exists and satisfies its equation
(`IterationExists`, `IterationUnique`) and what it does for every length
(`SetInduction`) are derived from the least element of a set of numbers.

`ControllerProofs` proves `VisionHandedOver`: `VisionHandover`, for every number of
iterations and every `VISION_DIV`.  `NavInv` says who may touch the camera buffer: a
frame is announced by exactly one of `ctrl_block`, `sem_vision` and `vision_block`
(`BufferOwned`), what is announced is whole (`FrameWhole`), and `mtx_vision` covers
both halves of an update and of a read (`UpdateWhole`).  About the other parts of
`MCControllers` it proves

* `NothingIsMixed`: `NothingMixed`, whatever answers were short and rows failed, from
  what has been read at each point of the iteration from a channel in step
  (`RowsInv`, `FreshInv`) and whose bearing is held (`HeldInv`);
* `LoopIsSound`: `LoopSound`, whose statement about the ramp is an action property;
  `RampInv` says that the reference is the ramp's value in the iteration it was
  last solved in, which may be any earlier one, `GapInv` that the time kept is that
  of the last command sent;
* `AttitudeIsAccounted`: `AttitudeAccounted`; `TimeInv` splits the time the thread
  has run into what is integrated, lost, in this round and since it;
* `TofIsTrusted`: `TofTrusted`; `BootInv` says what the registers are worth at each
  point of a boot that begins with anything in them;
* `RotationIsSound`: `RotationSound`, for all integer quaternions, rates and forces;
  it comes down to polynomial identities;
* `KalmanIsSound`: `KalmanSound`, for any period, initial variances, noises and
  measurements.  `FilterSound` says that the covariance is one (`IsCovariance`):
  symmetric, and the variance of every integer combination of the three states is
  not negative.  The property speaks of the combinations with coefficients in -1 .. 1,
  which are not enough: a prediction mixes them with others.  A correction keeps the
  form by the inequality of Cauchy and Schwarz.

`PoolProofs` proves, for every number of workers, tiles and runs, `PoolIsSound`:
`PoolSound`.  `PoolInv` says of each worker that exactly one of main, the two
semaphores and the worker has its task (`OneHolder`), that the task found is this
run's, that the tile holds the products so far and of this run alone
(`TileGrows`), and that all is there from the last product on (`TileDone`).

`SerialProofs` proves about the programs of `MCSerial`, for any number of drones,
words of a state, states and losses,

* `TextIsSound`: `TextSound`.  Until a line is accepted with another drone's id, a
  drone's request is in one place, the line, main, its worker or the answers, and in none once the host
  may send the next (`OneRequest`); so main never stores into a state that is read,
  wherever the request is it is the last (`RequestIsLast`, `MainStores`), and it
  vanishes only with a damaged or cut line (`LostWithLine`);
* `SetupIsSound`: `SetupSound`: what was loaded and copied up to each step of a
  program's list (`Filling`), the columns of the reference (`Tracking`), and the sum
  of the times between as many of the best and of the worst (`Timing`);
* `LineIsSound`: `LineSound`, with both programs and both hosts.  The bytes to the
  host are whole responses, one after another, and the beginning of at most one, that
  of the worker with the lock (`Stream`).  `NoStateLost` needs nothing but the types.

`SampleProofs` proves about the programs of `MCSamples`

* `ThreadsAreSound`: `ThreadsSound`, for any number of threads and harts;
* `RunnerIsSound`: `ExecSound`, for any size of the pool, whatever `load_method`
  takes out of it, and any set of models;
* `AppsAreSound`: `AppsSound`; the pongs received, the pongs on their way and the
  pings on their way are one rising chain;
* `FlowIsTrusted`: `FlowTrusted`, for any size of a byte; `OwedInv` relates what has
  not been printed to the sensor's counter and to the half-read registers, modulo
  their size;
* `BringupRecovers`: `Recovers`, an invariant and an action property, for any number
  of sensors and any number of attempts, failing transfers and resets; `EnabledInv`
  says which sensors are enabled wherever the program relies on it, `CleanInv` how
  far a boot without a failed transfer is;
* `MotorsDoAsTold`: `MotorsAsTold`, for any number of motors and of characters typed.
  `TypedInv` relates the three digits kept to the number typed: they are it while it
  is short, and when it is longer either both are 100 or more or it began with a
  zero.

Each inductive invariant was checked by TLC before it was proved.

The proofs rest on the named assumptions of the modules (`TransportAssumption`,
`BrokerAssumption`, `KindAssumption`, `ClientBodyAssumption`, `UnusedAssumption`,
`PipelineAssumption`, `NavAssumption`, `PoolAssumption`, `ControllersAssumption`,
`EstimatorAssumption`, `SerialAssumption`, `DownlinkAssumption`,
`HeartbeatAssumption`, `SamplesAssumption`), which TLC evaluates in the runs.  They
say that counts and readings are numbers, those by which something is divided
positive, that messages are bytes and not empty, a horizon has two columns, and the
VL53L5CX are on the channels before the VL53L1X's.  `HeartbeatAssumption` says that
zero bytes alone are no valid frame.  TLC evaluates it up to the run's buffer; it is
true of every length, since the CRC starts from 0xFFFF and a zero byte never takes a
CRC that is not zero to zero.

One caveat about the tool.  tlapm 1.4.5 tells Z3 that whatever has the domain
`1 .. n` has length `n` and the other way round, of functions that are no sequences
too.  The leaves of all the modules have therefore also been checked with that axiom
restricted to the direction that is true of every function.

Only model-checked:

* all liveness (`BrokerComesBack`, `ServedWhenLowerSilent`, `DownlinkLive`,
  `NavLive`, `Answered`, `ProgramsEnd`, the fairness half of
  `ImplementsLoop`), which is out of the prover's reach;
* `UplinkSound` and `RecordsDecoded`: they are true of texts that form no valid frame
  by accident.  A printed text may hold a flag, bytes and their CRC; the runs' texts do
  not, and to say so of all texts in front of all frames is a hypothesis still to be
  found;
* `BackInStep`: how soon the receiver finds its place depends on the sizes of packets
  and header (`RESYNC`), so the statement is about given sizes;
* `MatlibMatches`: sums over strips of a length that the hardware chooses.  The
  recursion could be reasoned about as in `HtifProofs`;
* `LifetimesSound`, whose model has no parameter that matters: the run looks at all
  there is.

## Where comments and code disagree

Four disagreements are runs (`htif_coalesce`, `tiled_result`, `hil_responses`,
`exec_count`).  Others were met while modelling, and the models have what the code
does:

* `transport_loopback.c:126-129` speaks of round-robin order; the scan begins at
  index 0 each time, so a busy session 0 starves the others.
  `ServedWhenLowerSilent` is what holds.
* `broker.c` acknowledges all that a heartbeat announces and reports nothing
  missing, also for messages that `loopback_write` dropped.
* A `DATA` that does not fit the subscriber's queue is dropped, and its number
  on the reliable stream is used up.  A full table still answers `STATUS_OK`.
* `broker.c:40-42` wants `htif_lock` not to be held by the broker while a fault
  is dumped; `broker_quiesce` returns while a frame may be in the middle.
* `htif_proxy.py` shows text only until the first flag byte; what is printed
  later is gathered as a frame.
* `broker.c:235-237` has text and records coexist transparently; a text that
  ends in `}` in front of a record turns the record's flag into an escaped byte,
  and the record is lost.
* `broker.c:18-20` has every topic write logged; without the HTIF device
  `log_topic_emit` returns silently (291-293).
* `tiled_matmul_mt/src/main.cpp:232` pins to CPUs 4 to 7 where `prj.conf` has four:
  the pin fails or leaves the thread without a hart, and its result is not looked
  at.  The model has a thread run or not then (`Runnable`).
* `tiled_matmul_mt/src/main.cpp:251-275` reports the times of a thread that it
  has not joined.
* `rose_flight_controller/src/main.cpp:329` passes a held ToF reading on as
  valid, where `estimator.hpp` asks for a fresh one.
* `rose_nav_controller/src/main.cpp:417-418` takes a pending tick at wake for an
  overrun; `k_sem_take` has then consumed the one tick that the semaphore can
  hold, so ticks missed during an iteration are not counted.
* `rose_nav_controller/src/main.cpp:137` returns without an inference, and
  `vision_block` publishes the old output as valid.
* `rose_fused_mpc/src/main.cpp:725`: the threaded build has the vision task of
  `rose_nav_controller` and never runs the fused model.
* `rose_fused_mpc/src/main.cpp:375,383` and `rose_fused_nav/src/main.cpp:97,110`
  give up after a short answer, and the capture after a failed row; the words that
  are left shift every later answer of the channel, and nothing resynchronises it.
* `rose_nav_controller/src/main.cpp:549` sets the target altitude after the first
  range measurement, also when `TARGET_Z` was given.
* `drone_control/src/main_mt_binary.cpp:186` pins the worker of drone 3 to the hart
  where main polls: it never runs.  A state that is copied while main writes it is
  solved and answered before the worker is told again.
* `drone_control/src/main_mt.cpp:211` checks the number of words and that the id is
  not too large; a negative id stores in front of the array, and a damaged line
  that still parses is accepted.  `pybullet_hil_mt.py:77` parses what a `readline`
  that timed out has of a line.
* The complementary filter reports body rates
  (`estimator_complementary.cpp:85`), the Kalman filter world rates
  (`estimator_ekf.cpp:109`), to the same controller.
* `riscv_executor_runner.cpp:182-183`: `used_` is not in sync with the allocator
  (`exec_count`).  It may be too small as well: 1 byte at alignment 1 and 8 at 8 are
  counted as 9 where 16 are gone, so the memory reported as free may not be there.
* `riscv_executor_runner.cpp:247-250`: the comment wants a wrong number of baked
  inputs to fail loudly; the inputs that are missing are silently left as they
  are (271).
* `riskybird/motor_4/src/main.c:32`: the default of ten percent is overwritten
  when main stops the motors at the start, so `s` starts nothing until a number
  was typed.
* `sensor_bringup/src/main.c:433` computes `pmw_ok` from the result of an
  expander write, not from `pmw3901_init`.
* `matlib_rvv.h:57` searches for the largest coefficient from the smallest
  positive float: a matrix without a positive element has none.  The sums add
  lanes that a short strip leaves to the hardware.  `MatlibMatches` excepts both.
* `tiled_eigen_mt/src/main.cpp:32` multiplies one tile of the inner dimension
  only, like `tiled_matmul_mt`.
* `micro_ros_multinode/src/main.c:78` pings the agent without a limit, though
  CI runs are not to hang.

## What is not modelled

* The arithmetic of TinyMPC, DroNet and the fused model, and rounding: the
  estimators and the vector library are modelled in exact numbers.
* The RoSE bridge and its synchronizer, which are not in the repository; with
  them the lockstep deadlock that `rose_flight_controller/src/main.cpp:254-260`
  works around.
* The proxy's process management: starting spike and the agent, finding the
  agent's pty, shutdown.
* XDR parsing below the level of a submessage, and trace prints.  Sequence
  numbers that wrap: `broker.c` compares none, the client library does.
* Programs that only read or compute one thing and print it: the RoSE probes,
  the I2C scanners and the BMI088 test, the single-threaded Eigen samples, the
  Gemmini benchmarks.
* Shell, flashing and plotting scripts, generated data (matrices, the IREE
  module, register definitions) and vendored code.

## Plan

Done, in this order: the loopback transport and the broker, as the heart of the
system, with proofs; the HTIF transport, proxy and topic log on a common `Hdlc`;
the thread pool and the matrix threads; the flight controller with its abstract
specification, refinement and proof; the navigation controller in both builds;
the fused controllers, sensors and estimators; the serial protocols; the
bring-ups, inference runners, micro-ROS applications, thread samples and vector
library.

Then the proofs: types, tables and routing of the broker, its clients' lives,
acknowledgements, data and the order of replies; the flight pipeline's refinement; the
navigation, fused and single-loop controllers, attitude, estimators and ToF sensors;
the thread pool, the thread samples, the ExecuTorch runner, the micro-ROS applications,
flow sensor, ToF bring-up and motors; the serial protocols and the solver's set-up; the
way from the agent to the target.

What is left are `UplinkSound` and `RecordsDecoded` under a hypothesis on the printed
texts, `BackInStep` from the sizes that `RESYNC` depends on, and `MatlibMatches`.
