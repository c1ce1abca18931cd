------------------------------ MODULE ThreadPool ------------------------------
(***************************************************************************)
(* samples/tiled_matmul_mt_pool/src/main.cpp: a pool of worker threads     *)
(* multiplies two matrices, one tile of the result per worker.  main runs  *)
(* the job several times; execute_task hands each worker its task with     *)
(* start_sem and collects it with done_sem.                                *)
(*                                                                         *)
(* A cell of the result is one tile.  Its value is abstracted to the       *)
(* products that have been added up in it, each named by the run whose     *)
(* task it was computed for and by k, the tile of the inner dimension.  A  *)
(* time stamp is named by the run and the worker it was taken by.          *)
(***************************************************************************)
EXTENDS Naturals, Sequences

CONSTANTS NUM_THREADS,  \* workers, numbered from 0
          Tiles,        \* N_CFG / tile_size, tiles along each dimension
          Runs          \* how often main runs the job: 2, warm-up and measurement

ASSUME PoolAssumption ==
    /\ NUM_THREADS \in Nat \ {0} /\ Tiles \in Nat \ {0} /\ Runs \in Nat \ {0}
    /\ Tiles * Tiles = NUM_THREADS

Workers == 0 .. NUM_THREADS - 1
Cells   == (0 .. Tiles - 1) \X (0 .. Tiles - 1)

Main   == NUM_THREADS           \* as owner of print_mutex
Nobody == NUM_THREADS + 1

VARIABLES
    pc, run, next,      \* main: where it is, in which run, at which worker
    first_start, last_end,
    wpc, k,             \* worker_thread: where it is, the inner tile it is at
    task,               \* thread_tasks[w]: run (stands for a, b and c), i and j
    start_ct, end_ct,   \* thread_tasks[w]
    start_sem, done_sem,
    print_mutex,
    C                   \* C_computed

mainVars   == <<pc, run, next, first_start, last_end>>
workerVars == <<wpc, k, start_ct, end_ct>>
vars == <<mainVars, workerVars, task, start_sem, done_sem, print_mutex, C>>

Stamp(r, w) == [run |-> r, by |-> w]
Never == Stamp(0, 0)            \* the zero of static memory
NoTask == [run |-> 0, i |-> 0, j |-> 0]

\* threadpool_init has started the workers, and C_computed is all zero.
Init ==
    /\ pc = "print" /\ run = 1 /\ next = 0
    /\ first_start = Never /\ last_end = Never
    /\ wpc = [w \in Workers |-> "wait"] /\ k = [w \in Workers |-> 0]
    /\ task = [w \in Workers |-> NoTask]
    /\ start_ct = [w \in Workers |-> Never] /\ end_ct = [w \in Workers |-> Never]
    /\ start_sem = [w \in Workers |-> 0] /\ done_sem = [w \in Workers |-> 0]
    /\ print_mutex = Nobody
    /\ C = [c \in Cells |-> <<>>]

-----------------------------------------------------------------------------
(* A semaphore with limit 1: a give at the limit is lost. *)
Take(sem, w) == sem[w] > 0 /\ sem' = [sem EXCEPT ![w] = @ - 1]
Give(sem, w) == sem' = [sem EXCEPT ![w] = 1]

(* main *)

LockToPrint ==
    /\ pc = "print" /\ print_mutex = Nobody
    /\ print_mutex' = Main /\ pc' = "printing"
    /\ UNCHANGED <<run, next, first_start, last_end, workerVars, task, start_sem, done_sem, C>>

Printed ==
    /\ pc = "printing"
    /\ print_mutex' = Nobody /\ pc' = "dispatch" /\ next' = 0
    /\ UNCHANGED <<run, first_start, last_end, workerVars, task, start_sem, done_sem, C>>

\* execute_task: worker next's task is written, then its start_sem is given.
WriteTask ==
    /\ pc = "dispatch"
    /\ task' = [task EXCEPT ![next] = [run |-> run, i |-> next \div Tiles, j |-> next % Tiles]]
    /\ pc' = "give"
    /\ UNCHANGED <<run, next, first_start, last_end, workerVars, start_sem, done_sem,
                   print_mutex, C>>

GiveStart ==
    /\ pc = "give"
    /\ Give(start_sem, next)
    /\ next' = (next + 1) % NUM_THREADS
    /\ pc' = IF next + 1 < NUM_THREADS THEN "dispatch" ELSE "stamps"
    /\ UNCHANGED <<run, first_start, last_end, workerVars, task, done_sem, print_mutex, C>>

\* Worker 0 may or may not have started, or even ended, when main reads its
\* stamps.
ReadStamps ==
    /\ pc = "stamps"
    /\ first_start' = start_ct[0] /\ last_end' = end_ct[0]
    /\ pc' = "collect"
    /\ UNCHANGED <<run, next, workerVars, task, start_sem, done_sem, print_mutex, C>>

AfterCollect(n) ==
    /\ next' = (n + 1) % NUM_THREADS
    /\ pc' = IF n + 1 < NUM_THREADS THEN "collect" ELSE "returned"

\* Mutant of CollectDone: the last worker is not waited for.
CollectDoneButLast ==
    /\ pc = "collect"
    /\ IF next < NUM_THREADS - 1 THEN Take(done_sem, next) ELSE UNCHANGED done_sem
    /\ first_start' = start_ct[next] /\ last_end' = end_ct[next]
    /\ AfterCollect(next)
    /\ UNCHANGED <<run, workerVars, task, start_sem, print_mutex, C>>

\* timing_cycles_get is an unsigned difference: it is > 0 whenever its arguments
\* differ, so each worker's stamps replace those before them.
CollectDone ==
    /\ pc = "collect" /\ Take(done_sem, next)
    /\ first_start' = start_ct[next] /\ last_end' = end_ct[next]
    /\ AfterCollect(next)
    /\ UNCHANGED <<run, workerVars, task, start_sem, print_mutex, C>>

\* execute_task has returned; main reports, and validates after the last run.
NextRun ==
    /\ pc = "returned"
    /\ IF run < Runs THEN run' = run + 1 /\ pc' = "print"
                     ELSE pc' = "reboot" /\ UNCHANGED run
    /\ UNCHANGED <<next, first_start, last_end, workerVars, task, start_sem, done_sem,
                   print_mutex, C>>

(* worker_thread *)

TakeStart(w) ==
    /\ wpc[w] = "wait" /\ Take(start_sem, w)
    /\ wpc' = [wpc EXCEPT ![w] = "started"]
    /\ UNCHANGED <<mainVars, k, start_ct, end_ct, task, done_sem, print_mutex, C>>

StampStart(w) ==
    /\ wpc[w] = "started"
    /\ start_ct' = [start_ct EXCEPT ![w] = Stamp(run, w)]
    /\ k' = [k EXCEPT ![w] = 0]
    /\ wpc' = [wpc EXCEPT ![w] = "multiply"]
    /\ UNCHANGED <<mainVars, end_ct, task, start_sem, done_sem, print_mutex, C>>

\* The first product replaces what is in the tile, the others are added to it.
matmul_rvvt(cell, r, n) ==
    C' = [C EXCEPT ![cell] = IF n = 0 THEN << <<r, n>> >> ELSE Append(@, <<r, n>>)]

Multiply(w) ==
    /\ wpc[w] = "multiply" /\ k[w] < Tiles
    /\ matmul_rvvt(<<task[w].i, task[w].j>>, task[w].run, k[w])
    /\ k' = [k EXCEPT ![w] = @ + 1]
    /\ UNCHANGED <<mainVars, wpc, start_ct, end_ct, task, start_sem, done_sem, print_mutex>>

StampEnd(w) ==
    /\ wpc[w] = "multiply" /\ k[w] = Tiles
    /\ end_ct' = [end_ct EXCEPT ![w] = Stamp(run, w)]
    /\ wpc' = [wpc EXCEPT ![w] = "lock"]
    /\ UNCHANGED <<mainVars, k, start_ct, task, start_sem, done_sem, print_mutex, C>>

LockPrint(w) ==
    /\ wpc[w] = "lock" /\ print_mutex = Nobody
    /\ print_mutex' = w
    /\ wpc' = [wpc EXCEPT ![w] = "locked"]
    /\ UNCHANGED <<mainVars, k, start_ct, end_ct, task, start_sem, done_sem, C>>

UnlockPrint(w) ==
    /\ wpc[w] = "locked"
    /\ print_mutex' = Nobody
    /\ wpc' = [wpc EXCEPT ![w] = "done"]
    /\ UNCHANGED <<mainVars, k, start_ct, end_ct, task, start_sem, done_sem, C>>

GiveDone(w) ==
    /\ wpc[w] = "done"
    /\ Give(done_sem, w)
    /\ wpc' = [wpc EXCEPT ![w] = "wait"]
    /\ UNCHANGED <<mainVars, k, start_ct, end_ct, task, start_sem, print_mutex, C>>

-----------------------------------------------------------------------------
MainStep == LockToPrint \/ Printed \/ WriteTask \/ GiveStart \/ ReadStamps \/ CollectDone \/ NextRun
Worker(w) == \/ TakeStart(w) \/ StampStart(w) \/ Multiply(w) \/ StampEnd(w)
             \/ LockPrint(w) \/ UnlockPrint(w) \/ GiveDone(w)

Next == MainStep \/ \E w \in Workers : Worker(w)

\* Workers are pinned to their CPUs and main waits for them without spinning, so
\* every thread that can run does; print_mutex goes to a thread that waits for it.
Spec == /\ Init /\ [][Next]_vars
        /\ WF_vars(MainStep) /\ SF_vars(LockToPrint)
        /\ \A w \in Workers : WF_vars(Worker(w)) /\ SF_vars(LockPrint(w))

-----------------------------------------------------------------------------
Stamps == [run : 0 .. Runs, by : Workers]

\* Every variable has its type, and the semaphores respect their limit.
TypeOK ==
    /\ pc \in {"print", "printing", "dispatch", "give", "stamps", "collect", "returned", "reboot"}
    /\ run \in 1 .. Runs /\ next \in Workers
    /\ first_start \in Stamps /\ last_end \in Stamps
    /\ wpc \in [Workers -> {"wait", "started", "multiply", "lock", "locked", "done"}]
    /\ k \in [Workers -> 0 .. Tiles]
    /\ task \in [Workers -> [run : 0 .. Runs, i : 0 .. Tiles - 1, j : 0 .. Tiles - 1]]
    /\ start_ct \in [Workers -> Stamps] /\ end_ct \in [Workers -> Stamps]
    /\ start_sem \in [Workers -> 0 .. 1] /\ done_sem \in [Workers -> 0 .. 1]
    /\ print_mutex \in 0 .. Nobody
    /\ C \in [Cells -> Seq((0 .. Runs) \X (0 .. Tiles - 1))]

\* A cell that holds the whole inner product, computed by run r.
Complete(cell, r) == C[cell] = [n \in 1 .. Tiles |-> <<r, n - 1>>]

\* When execute_task returns, every tile of the result is complete, each product
\* in it once, and all of it from this run: no worker has been started twice or
\* left out, none is still adding, two never shared a tile.
ResultComplete == pc \in {"returned", "reboot"} => \A cell \in Cells : Complete(cell, run)

\* The times execute_task returns were taken in this run and, a start and an end
\* of the same worker, are in order: the stamps of the warm-up that it may read
\* at first do not survive, and no difference in the report wraps around.
ReportFresh ==
    pc \in {"returned", "reboot"} => first_start.run = run /\ last_end = first_start

\* What execute_task hands back is of this run alone, its result and its times, and the
\* semaphores and the tasks stay within their ranges meanwhile.
PoolSound == TypeOK /\ ResultComplete /\ ReportFresh

\* main gets to the reboot: nobody waits for a semaphore that was given too early
\* or never, or for a mutex that nobody gives back.
Finishes == <>(pc = "reboot")
=============================================================================
