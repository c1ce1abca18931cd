----------------------------- MODULE SolverSetup -----------------------------
(***************************************************************************)
(* How the programs that use TinyMPC fill in the solver, and the loops of  *)
(* the three that run by themselves: main_hover.cpp and main_tracking.cpp  *)
(* of samples/drone_control, which simulate the plant, and                 *)
(* samples/tinympc_fp16_bench, which times the solver.                     *)
(*                                                                         *)
(* A matrix is named, and a transposed copy MT of M holds the contents     *)
(* that M had when it was made; "" is what tiny_init leaves.  A state and  *)
(* a reference are named by their step.                                    *)
(***************************************************************************)
EXTENDS Naturals, Sequences

CONSTANTS STEPS,        \* iterations of a loop
          NHORIZON, CYCLES

Copied == {"Kinf", "Pinf", "AmBKt", "Adyn", "Bdyn"}
Matrices == Copied \union {"Quu_inv", "coeff_d2p", "Q", "R"}

Load(m)  == [do |-> "load", m |-> m]     \* matsetv
Trans(m) == [do |-> "trans", m |-> m]    \* transpose

\* The whole list, and the one without two of the copies.
FullSetup ==
    << Load("Kinf"), Trans("Kinf"), Load("Pinf"), Trans("Pinf"), Load("Quu_inv"),
       Load("AmBKt"), Trans("AmBKt"), Load("coeff_d2p"), Load("Adyn"), Trans("Adyn"),
       Load("Bdyn"), Trans("Bdyn"), Load("Q"), Load("R") >>
ShortSetup ==
    << Load("Kinf"), Trans("Kinf"), Load("Pinf"), Trans("Pinf"), Load("Quu_inv"),
       Load("AmBKt"), Load("coeff_d2p"), Load("Adyn"), Load("Bdyn"), Trans("Bdyn"),
       Load("Q"), Load("R") >>

MtBinarySetup == FullSetup
MtSetup       == ShortSetup
SingleSetup   == ShortSetup
HoverSetup    == ShortSetup
TrackingSetup == FullSetup
RoseSetup     == FullSetup
NavSetup      == FullSetup
FusedSetup    == FullSetup
FlightSetup   == FullSetup

\* Pinf does not fit half a float, and is cleared again, with its copy.
BenchSetup == FullSetup \o <<[do |-> "zero", m |-> "Pinf"], [do |-> "zeroT", m |-> "Pinf"]>>

Setup(p) ==
    CASE p = "mt_binary" -> MtBinarySetup [] p = "mt" -> MtSetup [] p = "single" -> SingleSetup
      [] p = "hover" -> HoverSetup [] p = "tracking" -> TrackingSetup [] p = "rose" -> RoseSetup
      [] p = "nav" -> NavSetup [] p = "fused" -> FusedSetup [] p = "flight" -> FlightSetup
      [] p = "bench" -> BenchSetup

Programs == {"mt_binary", "mt", "single", "hover", "tracking", "rose", "nav", "fused",
             "flight", "bench"}

VARIABLES
    sprog, spc, sk,
    mat, matT,                   \* the matrices and their copies
    x0, x, Xref,                 \* the plant's state, the solver's, the reference
    duals,                       \* y and g are zero
    error,                       \* what the printed tracking error compares
    best, worst, sum, all        \* the benchmark; history: all its times

plant == <<x0, x, Xref, duals, error>>
stats == <<best, worst, sum, all>>
setupVars == <<sprog, spc, sk, mat, matT, plant, stats>>

Init ==
    /\ sprog \in Programs /\ spc = "setup" /\ sk = 0
    /\ mat = [m \in Matrices |-> ""] /\ matT = [m \in Copied |-> ""]
    /\ x0 = 0 /\ x = 0 /\ Xref = [j \in 0 .. NHORIZON - 1 |-> IF sprog = "tracking" THEN j ELSE 0]
    /\ duals = TRUE /\ error = <<0, 0>>
    /\ best = CYCLES + 1 /\ worst = 0 /\ sum = 0 /\ all = <<>>

SetupStep ==
    /\ spc = "setup" /\ sk < Len(Setup(sprog))
    /\ LET s == Setup(sprog)[sk + 1] IN
          /\ mat' = [mat EXCEPT ![s.m] = CASE s.do = "load" -> "data" [] s.do = "zero" -> "zero"
                                           [] OTHER -> @]
          /\ matT' = IF s.do = "trans" THEN [matT EXCEPT ![s.m] = mat[s.m]]
                     ELSE IF s.do = "zeroT" THEN [matT EXCEPT ![s.m] = "zero"] ELSE matT
    /\ sk' = sk + 1
    /\ UNCHANGED <<sprog, spc, plant, stats>>

\* The programs with other loops end here.
SetupDone ==
    /\ spc = "setup" /\ sk = Len(Setup(sprog))
    /\ spc' = IF sprog \in {"hover", "tracking", "bench"} THEN sprog ELSE "end"
    /\ sk' = 0
    /\ UNCHANGED <<sprog, mat, matT, plant, stats>>

NextStep == sk' = sk + 1 /\ spc' = IF sk + 1 < STEPS THEN spc ELSE "end"

\* Solve, let the plant go a step, and compare with the reference (main_hover.cpp).
HoverStep ==
    /\ spc = "hover"
    /\ x' = x0 /\ duals' = TRUE
    /\ x0' = x0 + 1
    /\ error' = <<x0', Xref[1]>>
    /\ NextStep
    /\ UNCHANGED <<sprog, mat, matT, Xref, stats>>

\* Mutant of TrackingStep: the reference is moved on before the comparison.
TrackingStepShifted ==
    /\ spc = "tracking"
    /\ Xref' = [j \in DOMAIN Xref |-> sk + j]
    /\ error' = <<x0, Xref'[1]>>
    /\ x' = x0 /\ duals' = TRUE
    /\ x0' = x0 + 1
    /\ NextStep
    /\ UNCHANGED <<sprog, mat, matT, stats>>

\* Compare with the second column of the reference, which is still the one of the
\* step before, move it on, solve, let the plant go a step (main_tracking.cpp).
TrackingStep ==
    /\ spc = "tracking"
    /\ error' = <<x0, Xref[1]>>
    /\ Xref' = [j \in DOMAIN Xref |-> sk + j]
    /\ x' = x0 /\ duals' = TRUE
    /\ x0' = x0 + 1
    /\ NextStep
    /\ UNCHANGED <<sprog, mat, matT, stats>>

BenchRun ==
    /\ spc = "bench"
    /\ x' = 0 /\ duals' = TRUE
    /\ \E d \in 1 .. CYCLES :
          /\ best' = IF d < best THEN d ELSE best
          /\ worst' = IF d > worst THEN d ELSE worst
          /\ sum' = sum + d /\ all' = Append(all, d)
    /\ NextStep
    /\ UNCHANGED <<sprog, mat, matT, x0, Xref, error>>

Next == SetupStep \/ SetupDone \/ HoverStep \/ TrackingStep \/ BenchRun

Spec == Init /\ [][Next]_setupVars

-----------------------------------------------------------------------------
\* Once a program solves, all matrices are filled in, and each transposed copy that
\* it makes is that of the matrix as it is, cleared ones included.
CopiesAgree ==
    spc # "setup" =>
        /\ \A m \in Matrices : mat[m] # ""
        /\ \A m \in Copied : matT[m] \in {"", mat[m]}

\* From the second step on, the tracking error compares the plant with the reference
\* for the same step.
ErrorOfItsStep == sprog = "tracking" /\ spc # "setup" /\ sk > 1 => error[1] = error[2]

\* The report is about all runs: the best and the worst are among the times, and the
\* average, rounded down, lies between them.
ReportCoversRuns ==
    sprog = "bench" /\ spc = "end" =>
        /\ \A i \in DOMAIN all : best <= all[i] /\ all[i] <= worst
        /\ best <= sum \div STEPS /\ sum \div STEPS <= worst
=============================================================================
