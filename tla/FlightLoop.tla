------------------------------ MODULE FlightLoop ------------------------------
(***************************************************************************)
(* What the flight controller promises: the single-loop build of           *)
(* samples/rose_flight_controller/src/main.cpp (ROSE_THREADED = 0).  Each   *)
(* iteration reads a frame of sensor samples, updates the estimator, solves *)
(* and sends a command; a frame that cannot be read is skipped.            *)
(*                                                                         *)
(* A command is named by the frames it answers: the sequence of all those  *)
(* that the estimator had been updated with when it was solved.  The loop  *)
(* solves for every frame, ROSE_CTRL_DIV = 1.  With the larger values that *)
(* the threaded build knows, only every DIV-th frame is solved for, and    *)
(* the command before it is sent again for the others.                     *)
(***************************************************************************)
EXTENDS Naturals, Sequences

CONSTANTS CTRL_ITERS,      \* how many iterations it runs for
          ROSE_CTRL_DIV    \* frames per solve

VARIABLES iter, sent
vars == <<iter, sent>>

FirstFrames(n) == [i \in 1 .. n |-> i]

\* The command sent for the n-th frame.
Command(n) == FirstFrames(n - (n % ROSE_CTRL_DIV))

Init == iter = 0 /\ sent = <<>>

FetchError ==
    /\ iter < CTRL_ITERS
    /\ iter' = iter + 1
    /\ UNCHANGED sent

Control ==
    /\ iter < CTRL_ITERS
    /\ iter' = iter + 1
    /\ sent' = Append(sent, Command(Len(sent) + 1))

Next == FetchError \/ Control

Spec == Init /\ [][Next]_vars /\ WF_vars(Next)
=============================================================================
