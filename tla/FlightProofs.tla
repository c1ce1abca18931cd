----------------------------- MODULE FlightProofs -----------------------------
(***************************************************************************)
(* Proofs about FlightPipeline, for every number of iterations and every   *)
(* ROSE_CTRL_DIV: the handover between the blocks, the order in which the  *)
(* estimator sees the frames, and that the threaded build takes only steps *)
(* of the single loop.                                                     *)
(***************************************************************************)
EXTENDS FlightPipeline, TLAPS

\* Between two solves the command is held.
LEMMA CommandHeld ==
    ASSUME NEW n \in Nat, (n + 1) % ROSE_CTRL_DIV # 0
    PROVE  Loop!Command(n + 1) = Loop!Command(n)
<1> DEFINE D == ROSE_CTRL_DIV
           r == n % D
<1>1. D \in Nat /\ D > 0
  BY PipelineAssumption
<1>2. r \in 0 .. D - 1 /\ n = D * (n \div D) + r /\ n \div D \in Nat
  BY <1>1
<1>3. (n + 1) % D = r + 1
  <2> DEFINE s == (n + 1) % D
             p == n \div D
             q == (n + 1) \div D
  <2>1. s \in 0 .. D - 1 /\ n + 1 = D * q + s /\ q \in Nat
    BY <1>1
  <2>2. s # 0
    OBVIOUS
  <2>3. D * q + s = D * p + r + 1 /\ p \in Nat
    BY <1>2, <2>1
  <2> HIDE DEF D, r, s, p, q
  <2>4. q = p
    BY <1>1, <1>2, <2>1, <2>2, <2>3, SMTT(60)
  <2> QED
    BY <1>1, <1>2, <2>1, <2>3, <2>4
<1>4. (n + 1) - ((n + 1) % D) = n - (n % D)
  <2>1. (n + 1) - (r + 1) = n - r
    BY <1>2
  <2> QED
    BY <1>3, <2>1
<1> QED
  BY <1>4 DEF Loop!Command

\* On a frame that is solved for, the command answers all frames so far.
LEMMA CommandSolved ==
    ASSUME NEW n \in Nat, n % ROSE_CTRL_DIV = 0
    PROVE  Loop!Command(n) = Loop!FirstFrames(n)
<1>1. n - (n % ROSE_CTRL_DIV) = n
  OBVIOUS
<1> QED
  BY <1>1 DEF Loop!Command

\* The name of a state estimate is a sequence of as many frames.
LEMMA FirstFramesType ==
    ASSUME NEW n \in Nat
    PROVE  Loop!FirstFrames(n) \in Seq(Nat) /\ Len(Loop!FirstFrames(n)) = n
BY DEF Loop!FirstFrames

\* Before the first frame the command is g_ctrl as it is initialized.
LEMMA CommandZero == Loop!Command(0) = <<>>
<1>1. 0 % ROSE_CTRL_DIV = 0
  BY PipelineAssumption
<1>2. Loop!Command(0) = Loop!FirstFrames(0)
  BY <1>1, CommandSolved
<1> QED
  BY <1>2 DEF Loop!FirstFrames

\* Every variable keeps its type (TypeOK): FlightPipeline's steps.
LEMMA TypeStep == TypeOK /\ Handover /\ [Next]_vars => TypeOK'
<1> SUFFICES ASSUME TypeOK, Handover, [Next]_vars
             PROVE  TypeOK'
  OBVIOUS
<1> USE DEF TypeOK
<1>1. CASE ReadFrame
  BY <1>1 DEF ReadFrame, estVars, ctrlVars
<1>2. CASE ReadFrameError
  BY <1>2, PipelineAssumption DEF ReadFrameError, estVars, ctrlVars
<1>3. CASE PublishFrame
  BY <1>3 DEF PublishFrame, estVars, ctrlVars
<1>4. CASE GiveSample
  BY <1>4 DEF GiveSample, estVars, ctrlVars
<1>5. CASE TakeDone
  BY <1>5 DEF TakeDone, estVars, ctrlVars
<1>6. CASE SendControl
  BY <1>6, PipelineAssumption DEF SendControl, Handover, estVars, ctrlVars
<1>7. CASE TakeSample
  BY <1>7 DEF TakeSample, ioVars, ctrlVars
<1>8. CASE CopyFrame
  BY <1>8 DEF CopyFrame, ioVars, ctrlVars
<1>9. CASE UpdateEstimator
  BY <1>9 DEF UpdateEstimator, ioVars, ctrlVars
<1>10. CASE PublishState
  BY <1>10 DEF PublishState, ioVars, ctrlVars
<1>11. CASE GiveState
  BY <1>11 DEF GiveState, ioVars, ctrlVars
<1>12. CASE TakeState
  BY <1>12 DEF TakeState, ioVars, estVars
<1>13. CASE CopyState
  BY <1>13 DEF CopyState, ioVars, estVars
<1>14. CASE SolveControl
  BY <1>14 DEF SolveControl, ioVars, estVars
<1>15. CASE GiveDone
  BY <1>15 DEF GiveDone, ioVars, estVars
<1>16. CASE UNCHANGED vars
  BY <1>16 DEF vars, ioVars, estVars, ctrlVars
<1> QED
  BY <1>1, <1>2, <1>3, <1>4, <1>5, <1>6, <1>7, <1>8, <1>9, <1>10,
     <1>11, <1>12, <1>13, <1>14, <1>15, <1>16
  DEF Next, io_block, est_block, ctrl_block

\* Each step hands the frame on as Handover says.
LEMMA HandoverStep == TypeOK /\ TypeOK' /\ Handover /\ [Next]_vars => Handover'
<1> SUFFICES ASSUME TypeOK, TypeOK', Handover, [Next]_vars
             PROVE  Handover'
  OBVIOUS
<1> USE DEF TypeOK, Handover, OneToken, Holding, Fused, Ticked, Stated, Solving
<1>1. CASE ReadFrame
  <2>1. f' = nframes + 1 /\ nframes' = nframes + 1
    BY <1>1 DEF ReadFrame
  <2> QED
    BY <1>1, <2>1 DEF ReadFrame, estVars, ctrlVars
<1>2. CASE ReadFrameError
  BY <1>2 DEF ReadFrameError, estVars, ctrlVars
<1>3. CASE PublishFrame
  BY <1>3 DEF PublishFrame, estVars, ctrlVars
<1>4. CASE GiveSample
  BY <1>4 DEF GiveSample, estVars, ctrlVars
<1>5. CASE TakeDone
  BY <1>5 DEF TakeDone, estVars, ctrlVars
<1>6. CASE SendControl
  BY <1>6 DEF SendControl, estVars, ctrlVars
<1>7. CASE TakeSample
  BY <1>7 DEF TakeSample, ioVars, ctrlVars
<1>8. CASE CopyFrame
  BY <1>8 DEF CopyFrame, ioVars, ctrlVars
<1>9. CASE UpdateEstimator
  <2>1. Len(est') = Len(est) + 1 /\ est'[Len(est) + 1] = ef
        /\ \A i \in 1 .. Len(est) : est'[i] = est[i]
    BY <1>9 DEF UpdateEstimator
  <2>2. Len(est) = nframes - 1 /\ ef = nframes
    BY <1>9 DEF UpdateEstimator
  <2>3. \A i \in 1 .. Len(est') : est'[i] = i
    <3>0. Len(est) \in Nat /\ nframes \in Nat
      OBVIOUS
    <3>1. ASSUME NEW i \in 1 .. Len(est)
          PROVE  est'[i] = i
      BY <2>1
    <3> HIDE DEF TypeOK, Handover
    <3>2. est'[Len(est) + 1] = Len(est) + 1
      BY <2>1, <2>2, <3>0
    <3>3. \A i \in 1 .. Len(est') : i \in 1 .. Len(est) \/ i = Len(est) + 1
      BY <2>1, <3>0
    <3> QED
      BY <3>1, <3>2, <3>3
  <2>4. /\ epc = "update" /\ epc' = "publish"
        /\ UNCHANGED <<ioVars, sent, g_frame, sem_sample, ef, g_state, sem_state, ctrlVars,
                       g_ctrl, sem_done>>
    BY <1>9 DEF UpdateEstimator
  <2>5. Len(est') = nframes
    BY <2>1, <2>2
  <2> QED
    BY <2>3, <2>4, <2>5 DEF ioVars, ctrlVars
<1>10. CASE PublishState
  BY <1>10 DEF PublishState, ioVars, ctrlVars, Loop!FirstFrames
<1>11. CASE GiveState
  BY <1>11 DEF GiveState, ioVars, ctrlVars
<1>12. CASE TakeState
  BY <1>12, CommandHeld DEF TakeState, ioVars, estVars
<1>13. CASE CopyState
  BY <1>13 DEF CopyState, ioVars, estVars
<1>14. CASE SolveControl
  BY <1>14, CommandSolved DEF SolveControl, ioVars, estVars
<1>15. CASE GiveDone
  BY <1>15 DEF GiveDone, ioVars, estVars
<1>16. CASE UNCHANGED vars
  BY <1>16 DEF vars, ioVars, estVars, ctrlVars
<1> QED
  BY <1>1, <1>2, <1>3, <1>4, <1>5, <1>6, <1>7, <1>8, <1>9, <1>10,
     <1>11, <1>12, <1>13, <1>14, <1>15, <1>16
  DEF Next, io_block, est_block, ctrl_block

\* The state in which main starts the blocks satisfies the invariant.
LEMMA InitInvariant == Init => TypeOK /\ Handover
<1> SUFFICES ASSUME Init
             PROVE  TypeOK /\ Handover
  OBVIOUS
<1>1. TypeOK
  <2>1. <<>> \in Seq(Nat) /\ <<>> \in Seq(Seq(Nat))
    OBVIOUS
  <2> QED
    BY <2>1, PipelineAssumption DEF Init, TypeOK
<1>2. OneToken /\ ~Stated /\ ~Solving /\ Fused /\ Ticked
  BY DEF Init, OneToken, Holding, Stated, Solving, Fused, Ticked
<1>3. Len(sent) = 0 /\ Len(est) = 0
  BY DEF Init
<1>4. g_ctrl = Loop!Command(tick)
  BY CommandZero DEF Init
<1>5. Handover
  BY <1>2, <1>3, <1>4 DEF Init, Handover
<1> QED
  BY <1>1, <1>5

\* In every behaviour of the threaded flight controller the variables keep their
\* types and the three blocks hand one frame at a time from one to the next
\* (io_block, est_block, ctrl_block in main.cpp).
THEOREM PipelineInvariant == Spec => [](TypeOK /\ Handover)
<1>1. TypeOK /\ Handover /\ [Next]_vars => (TypeOK /\ Handover)'
  BY TypeStep, HandoverStep
<1> QED
  BY <1>1, InitInvariant, PTL DEF Spec

\* The estimator is updated with every frame once and in order, whatever the
\* interleaving of the blocks.
THEOREM FramesFused == Spec => []FusedInOrder
<1>1. TypeOK /\ Handover => FusedInOrder
  <2> SUFFICES ASSUME TypeOK, Handover
               PROVE  FusedInOrder
    OBVIOUS
  <2>1. DOMAIN est = 1 .. Len(est) /\ Len(est) \in Nat
    BY DEF TypeOK
  <2>2. Len(est) \in {nframes - 1, nframes}
    BY DEF TypeOK, Handover
  <2> QED
    BY <2>1, <2>2 DEF Handover, FusedInOrder
<1> QED
  BY <1>1, PipelineInvariant, PTL

\* Every step of the threaded build is a step of the single loop or changes
\* nothing it can see: the safety half of ImplementsLoop, for every number of
\* iterations and every ROSE_CTRL_DIV.
THEOREM StepsOfTheLoop == Spec => Loop!Init /\ [][Loop!Next]_(Loop!vars)
<1>1. Init => Loop!Init
  BY DEF Init, Loop!Init
<1>2. TypeOK /\ Handover /\ [Next]_vars => [Loop!Next]_(Loop!vars)
  <2> SUFFICES ASSUME TypeOK, Handover, [Next]_vars
               PROVE  [Loop!Next]_(Loop!vars)
    OBVIOUS
  <2>1. CASE ReadFrameError
    BY <2>1 DEF ReadFrameError, Loop!Next, Loop!FetchError
  <2>2. CASE SendControl
    <3>1. g_ctrl = Loop!Command(Len(sent) + 1) /\ iter < CTRL_ITERS
      BY <2>2 DEF TypeOK, SendControl, Handover, OneToken, Holding, Ticked, Solving
    <3> QED
      BY <2>2, <3>1 DEF SendControl, Loop!Next, Loop!Control
  <2>3. CASE ReadFrame \/ PublishFrame \/ GiveSample \/ TakeDone
    BY <2>3 DEF ReadFrame, PublishFrame, GiveSample, TakeDone, Loop!vars
  <2>4. CASE est_block
    BY <2>4 DEF est_block, TakeSample, CopyFrame, UpdateEstimator, PublishState, GiveState,
                ioVars, Loop!vars
  <2>5. CASE ctrl_block
    BY <2>5 DEF ctrl_block, TakeState, CopyState, SolveControl, GiveDone, ioVars, Loop!vars
  <2>6. CASE UNCHANGED vars
    BY <2>6 DEF vars, ioVars, Loop!vars
  <2> QED
    BY <2>1, <2>2, <2>3, <2>4, <2>5, <2>6 DEF Next, io_block
<1> QED
  BY <1>1, <1>2, PipelineInvariant, PTL DEF Spec
=============================================================================
