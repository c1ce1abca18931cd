----------------------------- MODULE TiledMatmul -----------------------------
(***************************************************************************)
(* samples/tiled_matmul_mt/src/main.cpp: main creates a thread for each    *)
(* tile of the result, joins them, reports their times and validates the   *)
(* result, twice.  The values of a tile are abstracted, as in ThreadPool,  *)
(* to the products added up in it, each named by the run and by the column *)
(* of matrix_A it starts at.                                               *)
(*                                                                         *)
(* Two things leave it open whether a thread runs.  Threads are pinned to  *)
(* the CPUs from 4 on, which the kernel of prj.conf does not have; and a   *)
(* thread that is created again before it has ended is undefined.  Such a  *)
(* thread starts at its beginning, or it never runs.                       *)
(***************************************************************************)
EXTENDS Naturals, Sequences

CONSTANTS NUM_THREADS,  \* threads, numbered from 0
          CPUS,         \* CONFIG_MP_MAX_NUM_CPUS, 4 in prj.conf
          N, nHalf,     \* size of the matrices and of a tile
          Runs          \* 2

Threads == 0 .. NUM_THREADS - 1

\* Where thread t's tile starts.
Tile(t) == <<(t \div 2) * nHalf, (t % 2) * nHalf>>
Tiles == {Tile(t) : t \in Threads}

hart_id(t) == (t % CPUS) + 4

VARIABLES pc, runs, next,   \* main
          tpc, k,           \* tile_thread_function
          C                 \* C_computed

mainVars == <<pc, runs, next>>
vars == <<mainVars, tpc, k, C>>

Init ==
    /\ pc = "create" /\ runs = 1 /\ next = 0
    /\ tpc = [t \in Threads |-> "ended"] /\ k = [t \in Threads |-> 0]
    /\ C = [c \in Tiles |-> <<>>]

-----------------------------------------------------------------------------
(* main *)

\* The thread that is created now runs.
Runnable(t) == tpc[t] = "ended" /\ hart_id(t) < CPUS

\* k_thread_create, k_thread_cpu_pin, k_thread_start
CreateThread ==
    /\ pc = "create"
    /\ \E s \in {"multiply", "lost"} :
         /\ Runnable(next) => s = "multiply"
         /\ tpc' = [tpc EXCEPT ![next] = s]
    /\ k' = [k EXCEPT ![next] = 0]
    /\ next' = (next + 1) % NUM_THREADS
    /\ pc' = IF next + 1 < NUM_THREADS THEN "create" ELSE "join"
    /\ UNCHANGED <<runs, C>>

\* The last thread is not joined.
JoinThread ==
    /\ pc = "join" /\ tpc[next] = "ended"
    /\ next' = IF next + 1 < NUM_THREADS - 1 THEN next + 1 ELSE 0
    /\ pc' = IF next + 1 < NUM_THREADS - 1 THEN "join" ELSE "validate"
    /\ UNCHANGED <<runs, tpc, k, C>>

\* The report is printed and the result compared with the expected one.
Validate ==
    /\ pc = "validate"
    /\ IF runs < Runs THEN runs' = runs + 1 /\ pc' = "create"
                      ELSE pc' = "reboot" /\ UNCHANGED runs
    /\ UNCHANGED <<next, tpc, k, C>>

(* tile_thread_function *)

\* The product for column kk replaces what is in the tile when kk is 0.
matmul_rvvt(cell, kk) ==
    C' = [C EXCEPT ![cell] = IF kk = 0 THEN << <<runs, kk>> >> ELSE Append(@, <<runs, kk>>)]

MultiplyTile(t) ==
    /\ tpc[t] = "multiply" /\ k[t] < N
    /\ matmul_rvvt(Tile(t), k[t] % nHalf)
    /\ k' = [k EXCEPT ![t] = @ + nHalf]
    /\ UNCHANGED <<mainVars, tpc>>

\* The thread stores its times and ends.
StoreInfo(t) ==
    /\ tpc[t] = "multiply" /\ k[t] >= N
    /\ tpc' = [tpc EXCEPT ![t] = "ended"]
    /\ UNCHANGED <<mainVars, k, C>>

MainStep == CreateThread \/ JoinThread \/ Validate
Next == MainStep \/ \E t \in Threads : MultiplyTile(t) \/ StoreInfo(t)

Spec == Init /\ [][Next]_vars

-----------------------------------------------------------------------------
\* The validation at the end of main: the computed matrix is the product, so
\* each tile has the products of all columns in it when main looks.
ResultMatches ==
    pc = "validate" =>
        \A c \in Tiles : [n \in DOMAIN C[c] |-> C[c][n][2]] = <<0, nHalf>>
=============================================================================
