---------------------------- MODULE FlightPipeline ----------------------------
(***************************************************************************)
(* The threaded build of samples/rose_flight_controller/src/main.cpp       *)
(* (ROSE_THREADED = 1):                                                    *)
(*                                                                         *)
(*   io_block --sem_sample--> est_block --sem_state--> ctrl_block          *)
(*       ^-------------------------sem_done----------------'               *)
(*                                                                         *)
(* The blocks copy to and from g_frame, g_state and g_ctrl, each under its *)
(* mutex, so a copy is one step.  Every interleaving is allowed, those     *)
(* that the priorities rule out too.  A frame of samples is abstracted to  *)
(* its number, a state estimate and a command to the numbers of the frames *)
(* they are computed from.                                                 *)
(***************************************************************************)
EXTENDS Naturals, Sequences

CONSTANTS CTRL_ITERS, ROSE_CTRL_DIV

ASSUME PipelineAssumption == CTRL_ITERS \in Nat /\ ROSE_CTRL_DIV \in Nat \ {0}

VARIABLES
    iter, sent,                 \* io_block's loop counter; the commands sent
    nframes,                    \* frames read without error
    iopc,                       \* io_block: "read", "publish", "give", "wait", "send"
    f,                          \* io_block's frame
    g_frame, sem_sample,
    epc, ef, est,               \* est_block: "wait", "copy", "update", "publish", "give"; its
                                \* frame; the frames the estimator was updated with
    g_state, sem_state,
    cpc, tick, st,              \* ctrl_block: "wait", "copy", "solve", "done"
    g_ctrl, sem_done

ioVars   == <<iter, nframes, iopc, f>>
estVars  == <<epc, ef, est>>
ctrlVars == <<cpc, tick, st>>
vars == <<ioVars, sent, g_frame, sem_sample, estVars, g_state, sem_state, ctrlVars,
           g_ctrl, sem_done>>

Init ==
    /\ iter = 0 /\ sent = <<>>
    /\ nframes = 0 /\ iopc = "read" /\ f = 0
    /\ g_frame = 0 /\ sem_sample = 0
    /\ epc = "wait" /\ ef = 0 /\ est = <<>>
    /\ g_state = <<>> /\ sem_state = 0
    /\ cpc = "wait" /\ tick = 0 /\ st = <<>>
    /\ g_ctrl = <<>> /\ sem_done = 0

-----------------------------------------------------------------------------
(* io_block *)

\* read_sensor_frame, with the accelerometer and the gyroscope fetched.
ReadFrame ==
    /\ iopc = "read" /\ iter < CTRL_ITERS
    /\ nframes' = nframes + 1
    /\ f' = nframes'
    /\ iopc' = "publish"
    /\ UNCHANGED <<iter, sent, g_frame, sem_sample, estVars, g_state, sem_state, ctrlVars,
                   g_ctrl, sem_done>>

\* One of them fails: the iteration is over.
ReadFrameError ==
    /\ iopc = "read" /\ iter < CTRL_ITERS
    /\ iter' = iter + 1
    /\ UNCHANGED <<nframes, iopc, f, sent, g_frame, sem_sample, estVars,
                   g_state, sem_state, ctrlVars, g_ctrl, sem_done>>

PublishFrame ==
    /\ iopc = "publish"
    /\ g_frame' = f /\ iopc' = "give"
    /\ UNCHANGED <<iter, nframes, f, sent, sem_sample, estVars, g_state,
                   sem_state, ctrlVars, g_ctrl, sem_done>>

GiveSample ==
    /\ iopc = "give"
    /\ sem_sample' = 1 /\ iopc' = "wait"
    /\ UNCHANGED <<iter, nframes, f, sent, g_frame, estVars, g_state,
                   sem_state, ctrlVars, g_ctrl, sem_done>>

\* Mutant of TakeDone: io_block goes on at once.
TakeDoneNoWait ==
    /\ iopc = "wait"
    /\ sem_done' = 0 /\ iopc' = "send"
    /\ UNCHANGED <<iter, nframes, f, sent, g_frame, sem_sample, estVars,
                   g_state, sem_state, ctrlVars, g_ctrl>>

TakeDone ==
    /\ iopc = "wait" /\ sem_done = 1
    /\ sem_done' = 0 /\ iopc' = "send"
    /\ UNCHANGED <<iter, nframes, f, sent, g_frame, sem_sample, estVars,
                   g_state, sem_state, ctrlVars, g_ctrl>>

SendControl ==
    /\ iopc = "send"
    /\ sent' = Append(sent, g_ctrl)
    /\ iter' = iter + 1 /\ iopc' = "read"
    /\ UNCHANGED <<nframes, f, g_frame, sem_sample, estVars, g_state,
                   sem_state, ctrlVars, g_ctrl, sem_done>>

(* est_block *)

TakeSample ==
    /\ epc = "wait" /\ sem_sample = 1
    /\ sem_sample' = 0 /\ epc' = "copy"
    /\ UNCHANGED <<ioVars, sent, g_frame, ef, est, g_state, sem_state, ctrlVars, g_ctrl, sem_done>>

CopyFrame ==
    /\ epc = "copy"
    /\ ef' = g_frame /\ epc' = "update"
    /\ UNCHANGED <<ioVars, sent, g_frame, sem_sample, est, g_state, sem_state, ctrlVars,
                   g_ctrl, sem_done>>

UpdateEstimator ==
    /\ epc = "update"
    /\ est' = Append(est, ef) /\ epc' = "publish"
    /\ UNCHANGED <<ioVars, sent, g_frame, sem_sample, ef, g_state, sem_state, ctrlVars,
                   g_ctrl, sem_done>>

\* Mutant of PublishState: the semaphore is given before the state is written.
PublishStateLate ==
    \/ /\ epc = "publish"
       /\ sem_state' = 1 /\ epc' = "give"
       /\ UNCHANGED <<ioVars, sent, g_frame, sem_sample, ef, est, g_state, ctrlVars, g_ctrl, sem_done>>
    \/ /\ epc = "give"
       /\ g_state' = est /\ epc' = "wait"
       /\ UNCHANGED <<ioVars, sent, g_frame, sem_sample, ef, est, sem_state, ctrlVars, g_ctrl, sem_done>>

PublishState ==
    /\ epc = "publish"
    /\ g_state' = est /\ epc' = "give"
    /\ UNCHANGED <<ioVars, sent, g_frame, sem_sample, ef, est, sem_state, ctrlVars, g_ctrl,
                   sem_done>>

GiveState ==
    /\ epc = "give"
    /\ sem_state' = 1 /\ epc' = "wait"
    /\ UNCHANGED <<ioVars, sent, g_frame, sem_sample, ef, est, g_state, ctrlVars, g_ctrl, sem_done>>

(* ctrl_block *)

TakeState ==
    /\ cpc = "wait" /\ sem_state = 1
    /\ sem_state' = 0 /\ tick' = tick + 1
    /\ cpc' = IF tick' % ROSE_CTRL_DIV = 0 THEN "copy" ELSE "done"
    /\ UNCHANGED <<ioVars, sent, g_frame, sem_sample, estVars, g_state, st, g_ctrl, sem_done>>

CopyState ==
    /\ cpc = "copy"
    /\ st' = g_state /\ cpc' = "solve"
    /\ UNCHANGED <<ioVars, sent, g_frame, sem_sample, estVars, g_state, sem_state, tick,
                   g_ctrl, sem_done>>

\* solve_control, and the result goes to g_ctrl.
SolveControl ==
    /\ cpc = "solve"
    /\ g_ctrl' = st /\ cpc' = "done"
    /\ UNCHANGED <<ioVars, sent, g_frame, sem_sample, estVars, g_state, sem_state, tick, st,
                   sem_done>>

\* Mutant of GiveDone: only a solve is signalled.
GiveDoneAfterSolve ==
    /\ cpc = "done"
    /\ sem_done' = (IF tick % ROSE_CTRL_DIV = 0 THEN 1 ELSE sem_done) /\ cpc' = "wait"
    /\ UNCHANGED <<ioVars, sent, g_frame, sem_sample, estVars, g_state, sem_state, tick, st,
                   g_ctrl>>

GiveDone ==
    /\ cpc = "done"
    /\ sem_done' = 1 /\ cpc' = "wait"
    /\ UNCHANGED <<ioVars, sent, g_frame, sem_sample, estVars, g_state, sem_state, tick, st,
                   g_ctrl>>

-----------------------------------------------------------------------------
io_block   == ReadFrame \/ ReadFrameError \/ PublishFrame \/ GiveSample \/ TakeDone \/ SendControl
est_block  == TakeSample \/ CopyFrame \/ UpdateEstimator \/ PublishState \/ GiveState
ctrl_block == TakeState \/ CopyState \/ SolveControl \/ GiveDone

Next == io_block \/ est_block \/ ctrl_block

\* Each block runs when it can: the others block on their semaphores, and the
\* keepalive thread that never does has the lowest priority.
Spec ==
    /\ Init /\ [][Next]_vars
    /\ WF_vars(io_block) /\ WF_vars(est_block) /\ WF_vars(ctrl_block)

-----------------------------------------------------------------------------
\* Every variable has its type, and the semaphores respect their limit.
TypeOK ==
    /\ iter \in 0 .. CTRL_ITERS /\ nframes \in Nat
    /\ iopc \in {"read", "publish", "give", "wait", "send"}
    /\ epc \in {"wait", "copy", "update", "publish", "give"}
    /\ cpc \in {"wait", "copy", "solve", "done"}
    /\ f \in Nat /\ g_frame \in Nat /\ ef \in Nat /\ est \in Seq(Nat)
    /\ g_state \in Seq(Nat) /\ st \in Seq(Nat) /\ g_ctrl \in Seq(Nat) /\ sent \in Seq(Seq(Nat))
    /\ tick \in Nat
    /\ sem_sample \in 0 .. 1 /\ sem_state \in 0 .. 1 /\ sem_done \in 0 .. 1

\* The estimator is updated with every frame, once and in order, and at most one
\* frame behind io_block: no frame overwrites one that was not taken, and none is
\* announced twice, although the semaphores forget a second give.
FusedInOrder ==
    /\ \A i \in DOMAIN est : est[i] = i
    /\ Len(est) \in {nframes - 1, nframes} \cap Nat

Loop == INSTANCE FlightLoop WITH iter <- iter, sent <- sent

\* Exactly one of the blocks and semaphores has the frame that is under way.
Holding(io, sample, e, state, c, done) ==
    /\ iopc # "wait" <=> io
    /\ sem_sample = sample
    /\ epc # "wait" <=> e
    /\ sem_state = state
    /\ cpc # "wait" <=> c
    /\ sem_done = done

OneToken ==
    \/ Holding(TRUE, 0, FALSE, 0, FALSE, 0)
    \/ Holding(FALSE, 1, FALSE, 0, FALSE, 0)
    \/ Holding(FALSE, 0, TRUE, 0, FALSE, 0)
    \/ Holding(FALSE, 0, FALSE, 1, FALSE, 0)
    \/ Holding(FALSE, 0, FALSE, 0, TRUE, 0)
    \/ Holding(FALSE, 0, FALSE, 0, FALSE, 1)

\* How far the frame has got.
Fused   == ~(iopc \in {"publish", "give"} \/ sem_sample = 1 \/ epc \in {"copy", "update"})
Ticked  == iopc \in {"read", "send"} \/ cpc # "wait" \/ sem_done = 1
Stated  == epc = "give" \/ sem_state = 1 \/ cpc # "wait" \/ sem_done = 1 \/ iopc = "send"
Solving == cpc \in {"copy", "solve"}

\* Where the frame is, and what the buffers hold at each point of its way: the
\* inductive invariant behind FusedInOrder and ImplementsLoop.
Handover ==
    /\ OneToken
    /\ nframes = IF iopc = "read" THEN Len(sent) ELSE Len(sent) + 1
    /\ iopc # "read" => iter < CTRL_ITERS /\ f = nframes
    /\ iopc \in {"give", "wait", "send"} => g_frame = nframes
    /\ epc = "update" => ef = nframes
    /\ \A i \in 1 .. Len(est) : est[i] = i
    /\ Len(est) = IF Fused THEN nframes ELSE nframes - 1
    /\ Stated => g_state = Loop!FirstFrames(nframes)
    /\ tick = IF Ticked THEN nframes ELSE nframes - 1
    /\ Solving => tick % ROSE_CTRL_DIV = 0
    /\ cpc = "solve" => st = Loop!FirstFrames(nframes)
    /\ ~Solving => g_ctrl = Loop!Command(tick)

\* The threaded build does what the single loop does: each iteration sends one
\* command, solved from this iteration's frame and all before it (or, with
\* ROSE_CTRL_DIV > 1, the one held), and all iterations are done in the end.
ImplementsLoop == Loop!Spec
=============================================================================
