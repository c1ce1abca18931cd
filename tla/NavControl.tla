------------------------------ MODULE NavControl ------------------------------
(***************************************************************************)
(* The threaded build of samples/rose_nav_controller/src/main.cpp with     *)
(* DroNet (ROSE_THREADED = 1, ROSE_DRONET_NAV = 1): a timer paces          *)
(* ctrl_block through sem_tick; every VISION_DIV-th iteration captures a   *)
(* camera frame, if vision is not busy, and hands it to vision_block       *)
(* through sem_vision; vision_block publishes its output in g_vision,      *)
(* which ctrl_block reads in every iteration.                              *)
(*                                                                         *)
(* ctrl_block has the higher priority, but it can block in the middle of   *)
(* an iteration (video_dequeue, mtx_vision), so every interleaving is      *)
(* allowed.  A frame in memory is two halves, each the number of the       *)
(* capture that wrote it, so that a torn one can be told; what is computed *)
(* from a frame is named by it.                                            *)
(***************************************************************************)
EXTENDS Naturals, Sequences

CONSTANTS CTRL_ITERS, VISION_DIV

ASSUME NavAssumption == CTRL_ITERS \in Nat \ {0} /\ VISION_DIV \in Nat \ {0}

VARIABLES
    sem_tick, overruns,
    cpc, iter,              \* ctrl_block
    captures, g_cam_frame,  \* captures started; the frame, two halves
    vision_busy, sem_vision, mtx_vision,
    vpc, tensor, g_cam_out, \* vision_block
    g_vision, cmd           \* the published command; ctrl_block's steer and collision

timing == <<sem_tick, overruns>>
camera == <<captures, g_cam_frame>>
vision == <<vpc, tensor, g_cam_out>>
vars == <<timing, cpc, iter, camera, vision_busy, sem_vision, mtx_vision, vision, g_vision, cmd>>

Zeros   == <<0, 0>>         \* the output buffer before the first inference
Neutral == <<>>             \* steer 0, collision 0.5

Init ==
    /\ sem_tick = 0 /\ overruns = 0
    /\ cpc = "tick" /\ iter = 0
    /\ captures = 0 /\ g_cam_frame = Zeros
    /\ vision_busy = 0 /\ sem_vision = 0 /\ mtx_vision = "free"
    /\ vpc = "wait" /\ tensor = Zeros /\ g_cam_out = Zeros
    /\ g_vision = [steer |-> Neutral, collision |-> Neutral, valid |-> FALSE]
    /\ cmd = [steer |-> Neutral, collision |-> Neutral]

-----------------------------------------------------------------------------
\* ctrl_timer_fn; the semaphore's limit is 1.
ctrl_timer_fn ==
    /\ cpc # "end"
    /\ sem_tick' = 1
    /\ UNCHANGED <<overruns, cpc, iter, camera, vision_busy, sem_vision, mtx_vision,
                   vision, g_vision, cmd>>

(* ctrl_block *)

\* The iteration is over; after the last one the timer is stopped.
NextIteration ==
    /\ iter' = iter + 1
    /\ cpc' = IF iter + 1 < CTRL_ITERS THEN "tick" ELSE "end"

TakeTick ==
    /\ cpc = "tick" /\ sem_tick = 1
    /\ sem_tick' = 0 /\ cpc' = "overrun"
    /\ UNCHANGED <<overruns, iter, camera, vision_busy, sem_vision, mtx_vision, vision,
                   g_vision, cmd>>

\* k_sem_take with K_NO_WAIT: is another tick pending?
CheckOverrun ==
    /\ cpc = "overrun"
    /\ overruns' = overruns + sem_tick /\ sem_tick' = 0
    /\ cpc' = "read"
    /\ UNCHANGED <<iter, camera, vision_busy, sem_vision, mtx_vision, vision,
                   g_vision, cmd>>

ReadError ==
    /\ cpc = "read"
    /\ NextIteration
    /\ UNCHANGED <<timing, camera, vision_busy, sem_vision, mtx_vision, vision, g_vision, cmd>>

\* Mutant of ReadFrame: vision_busy is not looked at.
ReadFrameAlways ==
    /\ cpc = "read"
    /\ cpc' = IF iter % VISION_DIV = 0 THEN "enqueue" ELSE "lock"
    /\ UNCHANGED <<timing, iter, camera, vision_busy, sem_vision, mtx_vision, vision, g_vision, cmd>>

ReadFrame ==
    /\ cpc = "read"
    /\ cpc' = IF iter % VISION_DIV = 0 /\ vision_busy = 0 THEN "enqueue" ELSE "lock"
    /\ UNCHANGED <<timing, iter, camera, vision_busy, sem_vision, mtx_vision, vision, g_vision, cmd>>

\* capture_frame: the buffer is enqueued, and the camera starts to fill it ...
Enqueue ==
    /\ cpc = "enqueue"
    /\ captures' = captures + 1
    /\ g_cam_frame' = [g_cam_frame EXCEPT ![1] = captures']
    /\ cpc' = "dequeue"
    /\ UNCHANGED <<timing, iter, vision_busy, sem_vision, mtx_vision, vision, g_vision, cmd>>

\* ... and it is full when it is dequeued.
Dequeue ==
    /\ cpc = "dequeue"
    /\ g_cam_frame' = [g_cam_frame EXCEPT ![2] = captures]
    /\ cpc' = "busy"
    /\ UNCHANGED <<timing, iter, captures, vision_busy, sem_vision, mtx_vision, vision, g_vision, cmd>>

CaptureError ==
    /\ cpc \in {"enqueue", "dequeue"}
    /\ cpc' = "lock"
    /\ UNCHANGED <<timing, iter, camera, vision_busy, sem_vision, mtx_vision, vision, g_vision, cmd>>

KickVision ==
    /\ \/ cpc = "busy" /\ vision_busy' = 1 /\ cpc' = "kick" /\ UNCHANGED sem_vision
       \/ cpc = "kick" /\ sem_vision' = 1 /\ cpc' = "lock" /\ UNCHANGED vision_busy
    /\ UNCHANGED <<timing, iter, camera, mtx_vision, vision, g_vision, cmd>>

ReadSteer ==
    /\ cpc = "lock" /\ mtx_vision = "free"
    /\ mtx_vision' = "ctrl"
    /\ cmd' = [cmd EXCEPT !.steer = g_vision.steer]
    /\ cpc' = "collision"
    /\ UNCHANGED <<timing, iter, camera, vision_busy, sem_vision, vision, g_vision>>

ReadCollision ==
    /\ cpc = "collision"
    /\ mtx_vision' = "free"
    /\ cmd' = [cmd EXCEPT !.collision = g_vision.collision]
    /\ cpc' = "send"
    /\ UNCHANGED <<timing, iter, camera, vision_busy, sem_vision, vision, g_vision>>

\* solve_nav and send_control
SendControl ==
    /\ cpc = "send"
    /\ NextIteration
    /\ UNCHANGED <<timing, camera, vision_busy, sem_vision, mtx_vision, vision, g_vision, cmd>>

(* vision_block *)

TakeVision ==
    /\ vpc = "wait" /\ sem_vision = 1
    /\ sem_vision' = 0 /\ vpc' = "preproc"
    /\ UNCHANGED <<timing, cpc, iter, camera, vision_busy, mtx_vision, tensor, g_cam_out,
                   g_vision, cmd>>

\* vision_infer: the frame is read half by half, then the model is run ...
Preprocess ==
    /\ \/ vpc = "preproc" /\ tensor' = [tensor EXCEPT ![1] = g_cam_frame[1]] /\ vpc' = "second"
       \/ vpc = "second" /\ tensor' = [tensor EXCEPT ![2] = g_cam_frame[2]] /\ vpc' = "model"
    /\ UNCHANGED <<timing, cpc, iter, camera, vision_busy, sem_vision, mtx_vision, g_cam_out,
                   g_vision, cmd>>

RunModel ==
    /\ vpc = "model"
    /\ g_cam_out' = tensor /\ vpc' = "lock"
    /\ UNCHANGED <<timing, cpc, iter, camera, vision_busy, sem_vision, mtx_vision, tensor,
                   g_vision, cmd>>

\* Mutant of PreprocessError: vision_block goes back to wait for the next frame.
PreprocessErrorSkips ==
    /\ vpc = "preproc"
    /\ vpc' = "wait"
    /\ UNCHANGED <<timing, cpc, iter, camera, vision_busy, sem_vision, mtx_vision, tensor,
                   g_cam_out, g_vision, cmd>>

\* ... or the frame cannot be used, and vision_infer returns early.
PreprocessError ==
    /\ vpc = "preproc"
    /\ vpc' = "lock"
    /\ UNCHANGED <<timing, cpc, iter, camera, vision_busy, sem_vision, mtx_vision, tensor,
                   g_cam_out, g_vision, cmd>>

PublishSteer ==
    /\ vpc = "lock" /\ mtx_vision = "free"
    /\ mtx_vision' = "vision"
    /\ g_vision' = [g_vision EXCEPT !.steer = g_cam_out]
    /\ vpc' = "collision"
    /\ UNCHANGED <<timing, cpc, iter, camera, vision_busy, sem_vision, tensor, g_cam_out, cmd>>

PublishCollision ==
    /\ vpc = "collision"
    /\ mtx_vision' = "free"
    /\ g_vision' = [g_vision EXCEPT !.collision = g_cam_out, !.valid = TRUE]
    /\ vpc' = "release"
    /\ UNCHANGED <<timing, cpc, iter, camera, vision_busy, sem_vision, tensor, g_cam_out, cmd>>

Release ==
    /\ vpc = "release"
    /\ vision_busy' = 0 /\ vpc' = "wait"
    /\ UNCHANGED <<timing, cpc, iter, camera, sem_vision, mtx_vision, tensor, g_cam_out,
                   g_vision, cmd>>

-----------------------------------------------------------------------------
ctrl_block ==
    \/ TakeTick \/ CheckOverrun \/ ReadError \/ ReadFrame \/ Enqueue \/ Dequeue \/ CaptureError
    \/ KickVision \/ ReadSteer \/ ReadCollision \/ SendControl
vision_block ==
    \/ TakeVision \/ Preprocess \/ RunModel \/ PreprocessError
    \/ PublishSteer \/ PublishCollision \/ Release

Next == ctrl_timer_fn \/ ctrl_block \/ vision_block

\* The timer fires.  ctrl_block runs when it can; when it cannot, and after its
\* last iteration, vision_block does, which inherits its priority while it holds
\* the mutex that ctrl_block waits for.
Spec == /\ Init /\ [][Next]_vars
        /\ WF_vars(ctrl_timer_fn) /\ WF_vars(ctrl_block) /\ SF_vars(ReadSteer)
        /\ WF_vars(vision_block) /\ SF_vars(PublishSteer)

-----------------------------------------------------------------------------
Whole(x) == x = Neutral \/ x[1] = x[2]

\* Every variable has its type.
TypeOK ==
    /\ sem_tick \in 0 .. 1 /\ overruns \in 0 .. CTRL_ITERS
    /\ cpc \in {"tick", "overrun", "read", "enqueue", "dequeue", "busy", "kick", "lock",
                "collision", "send", "end"}
    /\ iter \in 0 .. CTRL_ITERS /\ captures \in 0 .. CTRL_ITERS
    /\ vision_busy \in 0 .. 1 /\ sem_vision \in 0 .. 1
    /\ mtx_vision \in {"free", "ctrl", "vision"}
    /\ vpc \in {"wait", "preproc", "second", "model", "lock", "collision", "release"}
    /\ \A frame \in {g_cam_frame, tensor, g_cam_out} :
           Len(frame) = 2 /\ {frame[1], frame[2]} \subseteq 0 .. captures

\* The steer and the collision that a command is solved from belong together, and
\* come from one whole frame: no capture writes into the frame that is being
\* preprocessed, and no reader sees half of an update.
CommandWhole == cpc = "send" => cmd.steer = cmd.collision /\ Whole(cmd.steer)

\* vision_busy is set only while a frame is on its way through vision_block, so
\* vision is never locked out for good.
BusyMeansWork ==
    vision_busy = 1 => cpc = "kick" \/ sem_vision = 1 \/ vpc # "wait"

\* The camera buffer and the result go between ctrl_block and vision_block without a
\* lock on the buffer: every command is still from one whole frame, and vision_busy
\* tells whether the buffer is in use.
VisionHandover == TypeOK /\ CommandWhole /\ BusyMeansWork

\* vision_block gives the frame buffer back, also when a frame cannot be used.
VisionReleases == vision_busy = 1 ~> vision_busy = 0

\* The control loop gets through all its iterations.
Finishes == <>(cpc = "end")
=============================================================================
