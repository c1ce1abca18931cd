------------------------------ MODULE PoolProofs ------------------------------
(***************************************************************************)
(* Proofs about ThreadPool, for every number of workers, tiles and runs:   *)
(* when execute_task returns, every tile of the result is complete and of  *)
(* this run, and so are the times it reports.                              *)
(***************************************************************************)
EXTENDS ThreadPool, TLAPS

-----------------------------------------------------------------------------
(* The inductive invariant. *)

\* The tile of the result that worker w computes, and its task in this run.
Cell(w)  == <<w \div Tiles, w % Tiles>>
Share(w) == [run |-> run, i |-> w \div Tiles, j |-> w % Tiles]

\* The first n products of an inner product, computed by run r.
Products(r, n) == [x \in 1 .. n |-> <<r, x - 1>>]

\* execute_task has given w its start_sem in this run, and has taken its done_sem.
Given(w)     == \/ pc \in {"dispatch", "give"} /\ w < next
                \/ pc \in {"stamps", "collect", "returned", "reboot"}
Collected(w) == \/ pc = "collect" /\ w < next
                \/ pc \in {"returned", "reboot"}

\* Between the two exactly one of start_sem, the worker and done_sem has the
\* task; before and after, nobody has it and the worker waits.
OneHolder(w) ==
    IF Given(w) /\ ~Collected(w)
    THEN \/ start_sem[w] = 1 /\ wpc[w] = "wait" /\ done_sem[w] = 0
         \/ start_sem[w] = 0 /\ wpc[w] # "wait" /\ done_sem[w] = 0
         \/ start_sem[w] = 0 /\ wpc[w] = "wait" /\ done_sem[w] = 1
    ELSE start_sem[w] = 0 /\ wpc[w] = "wait" /\ done_sem[w] = 0

\* The task that w finds is that of this run.
TaskWritten(w) == Given(w) \/ (pc = "give" /\ w = next) => task[w] = Share(w)

\* While w multiplies, its tile holds the products up to k, of this run alone.
TileGrows(w) ==
    wpc[w] = "multiply" =>
        /\ start_ct[w] = Stamp(run, w)
        /\ k[w] > 0 => C[Cell(w)] = Products(run, k[w])

\* From then on the tile is complete, and both stamps are of this run.
Finished(w) == \/ wpc[w] \in {"lock", "locked", "done"}
               \/ done_sem[w] = 1
               \/ Collected(w)
TileDone(w) ==
    Finished(w) => /\ start_ct[w] = Stamp(run, w) /\ end_ct[w] = Stamp(run, w)
                   /\ C[Cell(w)] = Products(run, Tiles)

WorkerInv(w) == OneHolder(w) /\ TaskWritten(w) /\ TileGrows(w) /\ TileDone(w)

\* The last worker collected is the one whose stamps main has.
MainInv ==
    /\ pc \in {"print", "stamps", "returned", "reboot"} => next = 0
    /\ pc = "collect" /\ next > 0 =>
           first_start = Stamp(run, next - 1) /\ last_end = Stamp(run, next - 1)
    /\ pc \in {"returned", "reboot"} =>
           /\ first_start = Stamp(run, NUM_THREADS - 1)
           /\ last_end = Stamp(run, NUM_THREADS - 1)

PoolInv == TypeOK /\ MainInv /\ \A w \in Workers : WorkerInv(w)

-----------------------------------------------------------------------------
(* Workers and tiles. *)

\* next / tiles and next % tiles are the coordinates of a tile.
LEMMA CellType ==
    ASSUME NEW w \in Workers
    PROVE  w \div Tiles \in 0 .. Tiles - 1 /\ w % Tiles \in 0 .. Tiles - 1
<1> DEFINE q == w \div Tiles
<1>1. /\ Tiles \in Nat /\ Tiles > 0 /\ w \in Nat /\ w < Tiles * Tiles
  BY PoolAssumption DEF Workers
<1>2. /\ q \in Nat /\ w % Tiles \in 0 .. Tiles - 1 /\ w = Tiles * q + (w % Tiles)
  BY <1>1
<1> HIDE DEF q
<1>3. q < Tiles
  <2> SUFFICES ASSUME q >= Tiles PROVE FALSE
    BY <1>1, <1>2
  <2>1. Tiles * q >= Tiles * Tiles
    BY <1>1, <1>2
  <2> QED
    BY <1>1, <1>2, <2>1
<1> QED
  BY <1>1, <1>2, <1>3 DEF q

\* No two workers have the same tile.
LEMMA CellsApart ==
    ASSUME NEW w \in Workers, NEW v \in Workers, Cell(w) = Cell(v)
    PROVE  w = v
<1>1. /\ Tiles \in Nat /\ Tiles > 0 /\ w \in Nat /\ v \in Nat
  BY PoolAssumption DEF Workers
<1>2. w = Tiles * (w \div Tiles) + (w % Tiles) /\ v = Tiles * (v \div Tiles) + (v % Tiles)
  BY <1>1
<1>3. w \div Tiles = v \div Tiles /\ w % Tiles = v % Tiles
  BY DEF Cell
<1> QED
  BY <1>2, <1>3

\* Every tile has a worker.
LEMMA CellsCovered ==
    ASSUME NEW c \in Cells
    PROVE  \E w \in Workers : Cell(w) = c
<1>1. PICK i \in 0 .. Tiles - 1, j \in 0 .. Tiles - 1 : c = <<i, j>>
  BY DEF Cells
<1> DEFINE w == Tiles * i + j
           q == w \div Tiles
           r == w % Tiles
<1>2. Tiles \in Nat /\ Tiles > 0 /\ i \in Nat /\ j \in Nat /\ i <= Tiles - 1 /\ j < Tiles
  BY PoolAssumption
<1>3. w \in Nat
  BY <1>2
<1>4. Tiles * i <= Tiles * (Tiles - 1) /\ Tiles * (Tiles - 1) = Tiles * Tiles - Tiles
  BY <1>2
<1>5. w < Tiles * Tiles
  BY <1>2, <1>4
<1>6. q \in Nat /\ r \in 0 .. Tiles - 1 /\ w = Tiles * q + r
  BY <1>2, <1>3
<1>7. Tiles * q + r = Tiles * i + j
  BY <1>6
<1> HIDE DEF q, r
<1>8. q = i /\ r = j
  BY <1>2, <1>6, <1>7, SMTT(60)
<1>9. w \in Workers
  BY <1>3, <1>5, PoolAssumption DEF Workers
<1> QED
  BY <1>1, <1>8, <1>9 DEF Cell, q, r

\* The first product starts a tile anew, and each one more is appended.
LEMMA OneMoreProduct ==
    ASSUME NEW r, NEW n \in Nat
    PROVE  /\ << <<r, 0>> >> = Products(r, 1)
           /\ Append(Products(r, n), <<r, n>>) = Products(r, n + 1)
BY DEF Products
\* What the proofs below need of the constants; the square in PoolAssumption is
\* used only above.
LEMMA Positive == /\ NUM_THREADS \in Nat /\ NUM_THREADS > 0
                  /\ Tiles \in Nat /\ Tiles > 0 /\ Runs \in Nat /\ Runs > 0
BY PoolAssumption
\* The loops over the workers: the index wraps behind the last one.
LEMMA NextWorker ==
    ASSUME NEW n \in Workers
    PROVE  /\ n \in Nat /\ n < NUM_THREADS
           /\ (n + 1) % NUM_THREADS = IF n + 1 < NUM_THREADS THEN n + 1 ELSE 0
           /\ (n + 1) % NUM_THREADS \in Workers
<1>1. n \in Nat /\ n < NUM_THREADS
  BY Positive DEF Workers
<1>2. (n + 1) % NUM_THREADS = IF n + 1 < NUM_THREADS THEN n + 1 ELSE 0
  BY <1>1, Positive
<1> QED
  BY <1>1, <1>2, Positive DEF Workers
\* What giving a start does to main's loop.
LEMMA GiveStartLoop ==
    ASSUME GiveStart, next \in Workers
    PROVE  \/ next + 1 < NUM_THREADS /\ next' = next + 1 /\ pc' = "dispatch"
           \/ next = NUM_THREADS - 1 /\ next' = 0 /\ pc' = "stamps"
BY NextWorker, Positive DEF GiveStart

\* The same for collecting.
LEMMA CollectDoneLoop ==
    ASSUME CollectDone, next \in Workers
    PROVE  \/ next + 1 < NUM_THREADS /\ next' = next + 1 /\ pc' = "collect"
           \/ next = NUM_THREADS - 1 /\ next' = 0 /\ pc' = "returned"
BY NextWorker, Positive DEF CollectDone, AfterCollect

-----------------------------------------------------------------------------
(* Every step keeps the invariant. *)

\* TypeOK without the matrix.
ThreadsTyped ==
    /\ pc \in {"print", "printing", "dispatch", "give", "stamps", "collect", "returned", "reboot"}
    /\ run \in 1 .. Runs /\ next \in Workers
    /\ first_start \in Stamps /\ last_end \in Stamps
    /\ wpc \in [Workers -> {"wait", "started", "multiply", "lock", "locked", "done"}]
    /\ k \in [Workers -> 0 .. Tiles]
    /\ task \in [Workers -> [run : 0 .. Runs, i : 0 .. Tiles - 1, j : 0 .. Tiles - 1]]
    /\ start_ct \in [Workers -> Stamps] /\ end_ct \in [Workers -> Stamps]
    /\ start_sem \in [Workers -> 0 .. 1] /\ done_sem \in [Workers -> 0 .. 1]
    /\ print_mutex \in 0 .. Nobody
ResultTyped == C \in [Cells -> Seq((0 .. Runs) \X (0 .. Tiles - 1))]

\* TypeOK in two parts, the threads' variables and the matrix.
LEMMA TypeParts == TypeOK <=> ThreadsTyped /\ ResultTyped
BY Zenon DEF TypeOK, ThreadsTyped, ResultTyped

\* A stamp taken in this run is one.
LEMMA StampType == ASSUME ThreadsTyped, NEW w \in Workers PROVE Stamp(run, w) \in Stamps
BY Positive DEF ThreadsTyped, Stamp, Stamps

\* main's and the workers' variables keep their types.
LEMMA ThreadsTypedStep == PoolInv /\ [Next]_vars => ThreadsTyped'
<1> SUFFICES ASSUME PoolInv, [Next]_vars PROVE ThreadsTyped'
  OBVIOUS
<1> ThreadsTyped
  BY TypeParts DEF PoolInv
<1> USE Positive DEF ThreadsTyped
<1>1. CASE LockToPrint
  BY <1>1 DEF LockToPrint, workerVars, Main, Nobody
<1>2. CASE Printed
  BY <1>2 DEF Printed, workerVars, Nobody, Workers
<1>3. CASE WriteTask
  BY <1>3, CellType DEF WriteTask, workerVars
<1>4. CASE GiveStart
  BY <1>4, NextWorker DEF GiveStart, Give, workerVars
<1>5. CASE ReadStamps
  <2>1. 0 \in Workers
    BY DEF Workers
  <2> QED
    BY <1>5, <2>1 DEF ReadStamps, workerVars
<1>6. CASE CollectDone
  BY <1>6, NextWorker DEF CollectDone, AfterCollect, Take, workerVars
<1>7. CASE NextRun
  BY <1>7 DEF NextRun, workerVars
<1>8. ASSUME NEW w \in Workers, TakeStart(w) PROVE ThreadsTyped'
  BY <1>8 DEF TakeStart, mainVars, Take
<1>9. ASSUME NEW w \in Workers, StampStart(w) PROVE ThreadsTyped'
  BY <1>9, StampType DEF StampStart, mainVars
<1>10. ASSUME NEW w \in Workers, Multiply(w) PROVE ThreadsTyped'
  <2>1. k' = [k EXCEPT ![w] = k[w] + 1] /\ k[w] < Tiles
    BY <1>10 DEF Multiply
  <2>2. k' \in [Workers -> 0 .. Tiles]
    BY <2>1
  <2> QED
    BY <1>10, <2>2 DEF Multiply, mainVars
<1>11. ASSUME NEW w \in Workers, StampEnd(w) PROVE ThreadsTyped'
  BY <1>11, StampType DEF StampEnd, mainVars
<1>12. ASSUME NEW w \in Workers, LockPrint(w) PROVE ThreadsTyped'
  <2>1. w \in 0 .. Nobody
    BY DEF Workers, Nobody
  <2> QED
    BY <1>12, <2>1 DEF LockPrint, mainVars
<1>13. ASSUME NEW w \in Workers, UnlockPrint(w) PROVE ThreadsTyped'
  <2>1. Nobody \in 0 .. Nobody
    BY DEF Nobody
  <2> QED
    BY <1>13, <2>1 DEF UnlockPrint, mainVars
<1>14. ASSUME NEW w \in Workers, GiveDone(w) PROVE ThreadsTyped'
  BY <1>14 DEF GiveDone, mainVars, Give
<1>15. CASE UNCHANGED vars
  BY <1>15 DEF vars, mainVars, workerVars
<1> QED
  BY <1>1, <1>2, <1>3, <1>4, <1>5, <1>6, <1>7, <1>8,
     <1>9, <1>10, <1>11, <1>12, <1>13, <1>14, <1>15
  DEF Next, MainStep, Worker

\* A product goes to a tile of the result and names its run and its k.
LEMMA ResultTypedStep == PoolInv /\ [Next]_vars => ResultTyped'
<1> SUFFICES ASSUME PoolInv, [Next]_vars PROVE ResultTyped'
  OBVIOUS
<1> ThreadsTyped /\ ResultTyped
  BY TypeParts DEF PoolInv
<1> USE DEF ResultTyped
<1>1. CASE LockToPrint
  BY <1>1 DEF LockToPrint, workerVars
<1>2. CASE Printed
  BY <1>2 DEF Printed, workerVars
<1>3. CASE WriteTask
  BY <1>3 DEF WriteTask, workerVars
<1>4. CASE GiveStart
  BY <1>4 DEF GiveStart, workerVars, Give
<1>5. CASE ReadStamps
  BY <1>5 DEF ReadStamps, workerVars
<1>6. CASE CollectDone
  BY <1>6 DEF CollectDone, workerVars, Take, AfterCollect
<1>7. CASE NextRun
  BY <1>7 DEF NextRun, workerVars
<1>8. ASSUME NEW w \in Workers, TakeStart(w) PROVE ResultTyped'
  BY <1>8 DEF TakeStart, mainVars, Take
<1>9. ASSUME NEW w \in Workers, StampStart(w) PROVE ResultTyped'
  BY <1>9 DEF StampStart, mainVars
<1>10. ASSUME NEW w \in Workers, Multiply(w) PROVE ResultTyped'
  <2> DEFINE P == (0 .. Runs) \X (0 .. Tiles - 1)
             c == <<task[w].i, task[w].j>>
             p == <<task[w].run, k[w]>>
  <2>1. c \in Cells
    BY DEF ThreadsTyped, Cells
  <2>2. p \in P
    BY <1>10, Positive DEF Multiply, ThreadsTyped
  <2>3. C' = [C EXCEPT ![c] = IF k[w] = 0 THEN <<p>> ELSE Append(@, p)]
    BY <1>10 DEF Multiply, matmul_rvvt
  <2>4. C \in [Cells -> Seq(P)]
    OBVIOUS
  <2> HIDE DEF P, c, p
  <2>5. C' \in [Cells -> Seq(P)]
    BY <2>1, <2>2, <2>3, <2>4
  <2> QED
    BY <2>5 DEF P
<1>11. ASSUME NEW w \in Workers, StampEnd(w) PROVE ResultTyped'
  BY <1>11 DEF StampEnd, mainVars
<1>12. ASSUME NEW w \in Workers, LockPrint(w) PROVE ResultTyped'
  BY <1>12 DEF LockPrint, mainVars
<1>13. ASSUME NEW w \in Workers, UnlockPrint(w) PROVE ResultTyped'
  BY <1>13 DEF UnlockPrint, mainVars
<1>14. ASSUME NEW w \in Workers, GiveDone(w) PROVE ResultTyped'
  BY <1>14 DEF GiveDone, mainVars, Give
<1>15. CASE UNCHANGED vars
  BY <1>15 DEF vars, mainVars, workerVars
<1> QED
  BY <1>1, <1>2, <1>3, <1>4, <1>5, <1>6, <1>7, <1>8,
     <1>9, <1>10, <1>11, <1>12, <1>13, <1>14, <1>15
  DEF Next, MainStep, Worker

\* main has the stamps of the worker it collected last.
LEMMA MainInvStep == PoolInv /\ [Next]_vars => MainInv'
<1> SUFFICES ASSUME PoolInv, [Next]_vars PROVE MainInv'
  OBVIOUS
<1> MainInv /\ ThreadsTyped /\ \A w \in Workers : WorkerInv(w)
  BY TypeParts DEF PoolInv
<1> USE DEF MainInv
<1>1. CASE LockToPrint
  BY <1>1 DEF LockToPrint, workerVars
<1>2. CASE Printed
  BY <1>2 DEF Printed, workerVars
<1>3. CASE WriteTask
  BY <1>3 DEF WriteTask, workerVars
<1>4. CASE GiveStart
  BY <1>4, NextWorker DEF GiveStart, Give, workerVars, ThreadsTyped
<1>5. CASE ReadStamps
  BY <1>5 DEF ReadStamps, workerVars
<1>6. CASE CollectDone
  <2>1. WorkerInv(next) /\ next \in Workers
    BY <1>6 DEF ThreadsTyped
  <2>2. Finished(next)
    BY <1>6, <2>1 DEF CollectDone, Take, Finished, ThreadsTyped
  <2>3. start_ct[next] = Stamp(run, next) /\ end_ct[next] = Stamp(run, next)
    BY <2>1, <2>2 DEF WorkerInv, TileDone
  <2>4. next' = (next + 1) % NUM_THREADS /\ run' = run
        /\ first_start' = Stamp(run, next) /\ last_end' = Stamp(run, next)
    BY <1>6, <2>3 DEF CollectDone, AfterCollect
  <2>5. CASE next + 1 < NUM_THREADS
    <3>1. next' = next + 1 /\ next' - 1 = next /\ pc' = "collect"
      BY <1>6, <2>1, <2>4, <2>5, NextWorker DEF CollectDone, AfterCollect
    <3> QED
      BY <2>4, <3>1
  <2>6. CASE ~(next + 1 < NUM_THREADS)
    <3>1. next' = 0 /\ NUM_THREADS - 1 = next /\ pc' = "returned"
      BY <1>6, <2>1, <2>4, <2>6, NextWorker, Positive DEF CollectDone, AfterCollect
    <3> QED
      BY <2>4, <3>1
  <2> QED
    BY <2>5, <2>6
<1>7. CASE NextRun
  BY <1>7 DEF NextRun, workerVars
<1>8. ASSUME NEW w \in Workers, TakeStart(w) PROVE MainInv'
  BY <1>8 DEF TakeStart, mainVars, Take
<1>9. ASSUME NEW w \in Workers, StampStart(w) PROVE MainInv'
  BY <1>9 DEF StampStart, mainVars
<1>10. ASSUME NEW w \in Workers, Multiply(w) PROVE MainInv'
  BY <1>10 DEF Multiply, mainVars, matmul_rvvt
<1>11. ASSUME NEW w \in Workers, StampEnd(w) PROVE MainInv'
  BY <1>11 DEF StampEnd, mainVars
<1>12. ASSUME NEW w \in Workers, LockPrint(w) PROVE MainInv'
  BY <1>12 DEF LockPrint, mainVars
<1>13. ASSUME NEW w \in Workers, UnlockPrint(w) PROVE MainInv'
  BY <1>13 DEF UnlockPrint, mainVars
<1>14. ASSUME NEW w \in Workers, GiveDone(w) PROVE MainInv'
  BY <1>14 DEF GiveDone, mainVars, Give
<1>15. CASE UNCHANGED vars
  BY <1>15 DEF vars, mainVars, workerVars
<1> QED
  BY <1>1, <1>2, <1>3, <1>4, <1>5, <1>6, <1>7, <1>8,
     <1>9, <1>10, <1>11, <1>12, <1>13, <1>14, <1>15
  DEF Next, MainStep, Worker

\* The task goes from main over start_sem to the worker and over done_sem back.
LEMMA OneHolderStep == PoolInv /\ [Next]_vars => \A v \in Workers : OneHolder(v)'
<1> SUFFICES ASSUME PoolInv, [Next]_vars PROVE \A v \in Workers : OneHolder(v)'
  OBVIOUS
<1>t. ThreadsTyped /\ MainInv /\ next \in Workers
  BY TypeParts DEF PoolInv, ThreadsTyped
<1> SUFFICES ASSUME NEW v \in Workers PROVE OneHolder(v)'
  OBVIOUS
<1>v. WorkerInv(v) /\ v \in Nat /\ v < NUM_THREADS /\ next \in Nat /\ next < NUM_THREADS
  BY <1>t, NextWorker DEF PoolInv
<1>1. CASE LockToPrint
  BY <1>1, <1>t, <1>v DEF LockToPrint, workerVars, ThreadsTyped, WorkerInv, OneHolder, Given, Collected
<1>2. CASE Printed
  BY <1>2, <1>t, <1>v DEF Printed, workerVars, MainInv, ThreadsTyped, WorkerInv, OneHolder, Given, Collected
<1>3. CASE WriteTask
  BY <1>3, <1>t, <1>v DEF WriteTask, workerVars, ThreadsTyped, WorkerInv, OneHolder, Given, Collected
<1>4. CASE GiveStart
  <2>1. /\ start_sem' = [start_sem EXCEPT ![next] = 1] /\ pc = "give"
        /\ UNCHANGED <<run, task, wpc, k, start_ct, end_ct, C, done_sem>>
    BY <1>4 DEF GiveStart, Give, workerVars
  <2>2. CASE next + 1 < NUM_THREADS /\ next' = next + 1 /\ pc' = "dispatch"
    BY <1>t, <1>v, <2>1, <2>2 DEF ThreadsTyped, WorkerInv, OneHolder, Given, Collected
  <2>3. CASE next = NUM_THREADS - 1 /\ next' = 0 /\ pc' = "stamps"
    BY <1>t, <1>v, <2>1, <2>3, Positive DEF ThreadsTyped, WorkerInv, OneHolder, Given, Collected
  <2> QED
    BY <1>4, <1>t, <2>2, <2>3, GiveStartLoop
<1>5. CASE ReadStamps
  BY <1>5, <1>t, <1>v DEF ReadStamps, workerVars, MainInv, ThreadsTyped, WorkerInv, OneHolder, Given, Collected
<1>6. CASE CollectDone
  <2>1. /\ done_sem[next] > 0 /\ done_sem' = [done_sem EXCEPT ![next] = done_sem[next] - 1] /\ pc = "collect"
        /\ UNCHANGED <<run, task, wpc, k, start_ct, end_ct, C, start_sem>>
    BY <1>6 DEF CollectDone, Take, workerVars
  <2>2. CASE next + 1 < NUM_THREADS /\ next' = next + 1 /\ pc' = "collect"
    BY <1>t, <1>v, <2>1, <2>2 DEF ThreadsTyped, WorkerInv, OneHolder, Given, Collected
  <2>3. CASE next = NUM_THREADS - 1 /\ next' = 0 /\ pc' = "returned"
    BY <1>t, <1>v, <2>1, <2>3, Positive DEF ThreadsTyped, WorkerInv, OneHolder, Given, Collected
  <2> QED
    BY <1>6, <1>t, <2>2, <2>3, CollectDoneLoop
<1>7. CASE NextRun
  BY <1>7, <1>t, <1>v DEF NextRun, workerVars, MainInv, ThreadsTyped, WorkerInv, OneHolder, Given, Collected
<1>8. ASSUME NEW w \in Workers, TakeStart(w) PROVE OneHolder(v)'
  BY <1>8, <1>t, <1>v DEF TakeStart, mainVars, Take, ThreadsTyped, WorkerInv, OneHolder, Given, Collected
<1>9. ASSUME NEW w \in Workers, StampStart(w) PROVE OneHolder(v)'
  BY <1>9, <1>t, <1>v DEF StampStart, mainVars, ThreadsTyped, WorkerInv, OneHolder, Given, Collected
<1>10. ASSUME NEW w \in Workers, Multiply(w) PROVE OneHolder(v)'
  BY <1>10, <1>t, <1>v DEF Multiply, mainVars, matmul_rvvt, ThreadsTyped, WorkerInv, OneHolder, Given, Collected
<1>11. ASSUME NEW w \in Workers, StampEnd(w) PROVE OneHolder(v)'
  BY <1>11, <1>t, <1>v DEF StampEnd, mainVars, ThreadsTyped, WorkerInv, OneHolder, Given, Collected
<1>12. ASSUME NEW w \in Workers, LockPrint(w) PROVE OneHolder(v)'
  BY <1>12, <1>t, <1>v DEF LockPrint, mainVars, ThreadsTyped, WorkerInv, OneHolder, Given, Collected
<1>13. ASSUME NEW w \in Workers, UnlockPrint(w) PROVE OneHolder(v)'
  BY <1>13, <1>t, <1>v DEF UnlockPrint, mainVars, ThreadsTyped, WorkerInv, OneHolder, Given, Collected
<1>14. ASSUME NEW w \in Workers, GiveDone(w) PROVE OneHolder(v)'
  BY <1>14, <1>t, <1>v DEF GiveDone, mainVars, Give, ThreadsTyped, WorkerInv, OneHolder, Given, Collected
<1>15. CASE UNCHANGED vars
  BY <1>15, <1>t, <1>v DEF vars, mainVars, workerVars, ThreadsTyped, WorkerInv, OneHolder, Given, Collected
<1> QED
  BY <1>1, <1>2, <1>3, <1>4, <1>5, <1>6, <1>7, <1>8,
     <1>9, <1>10, <1>11, <1>12, <1>13, <1>14, <1>15
  DEF Next, MainStep, Worker

\* A worker's task is written before it is given, and not while it may read it.
LEMMA TaskWrittenStep == PoolInv /\ [Next]_vars => \A v \in Workers : TaskWritten(v)'
<1> SUFFICES ASSUME PoolInv, [Next]_vars PROVE \A v \in Workers : TaskWritten(v)'
  OBVIOUS
<1>t. ThreadsTyped /\ MainInv /\ next \in Workers
  BY TypeParts DEF PoolInv, ThreadsTyped
<1> SUFFICES ASSUME NEW v \in Workers PROVE TaskWritten(v)'
  OBVIOUS
<1>v. WorkerInv(v) /\ v \in Nat /\ v < NUM_THREADS /\ next \in Nat /\ next < NUM_THREADS
  BY <1>t, NextWorker DEF PoolInv
<1>1. CASE LockToPrint
  BY <1>1, <1>t, <1>v DEF LockToPrint, workerVars, ThreadsTyped, WorkerInv, TaskWritten, Given, Share
<1>2. CASE Printed
  BY <1>2, <1>t, <1>v DEF Printed, workerVars, MainInv, ThreadsTyped, WorkerInv, TaskWritten, Given, Share
<1>3. CASE WriteTask
  BY <1>3, <1>t, <1>v DEF WriteTask, workerVars, ThreadsTyped, WorkerInv, TaskWritten, Given, Share
<1>4. CASE GiveStart
  <2>1. /\ start_sem' = [start_sem EXCEPT ![next] = 1] /\ pc = "give"
        /\ UNCHANGED <<run, task, wpc, k, start_ct, end_ct, C, done_sem>>
    BY <1>4 DEF GiveStart, Give, workerVars
  <2>2. CASE next + 1 < NUM_THREADS /\ next' = next + 1 /\ pc' = "dispatch"
    BY <1>t, <1>v, <2>1, <2>2 DEF ThreadsTyped, WorkerInv, TaskWritten, Given, Share
  <2>3. CASE next = NUM_THREADS - 1 /\ next' = 0 /\ pc' = "stamps"
    BY <1>t, <1>v, <2>1, <2>3, Positive DEF ThreadsTyped, WorkerInv, TaskWritten, Given, Share
  <2> QED
    BY <1>4, <1>t, <2>2, <2>3, GiveStartLoop
<1>5. CASE ReadStamps
  BY <1>5, <1>t, <1>v DEF ReadStamps, workerVars, MainInv, ThreadsTyped, WorkerInv, TaskWritten, Given, Share
<1>6. CASE CollectDone
  <2>1. /\ done_sem[next] > 0 /\ done_sem' = [done_sem EXCEPT ![next] = done_sem[next] - 1] /\ pc = "collect"
        /\ UNCHANGED <<run, task, wpc, k, start_ct, end_ct, C, start_sem>>
    BY <1>6 DEF CollectDone, Take, workerVars
  <2>2. CASE next + 1 < NUM_THREADS /\ next' = next + 1 /\ pc' = "collect"
    BY <1>t, <1>v, <2>1, <2>2 DEF ThreadsTyped, WorkerInv, TaskWritten, Given, Share
  <2>3. CASE next = NUM_THREADS - 1 /\ next' = 0 /\ pc' = "returned"
    BY <1>t, <1>v, <2>1, <2>3, Positive DEF ThreadsTyped, WorkerInv, TaskWritten, Given, Share
  <2> QED
    BY <1>6, <1>t, <2>2, <2>3, CollectDoneLoop
<1>7. CASE NextRun
  BY <1>7, <1>t, <1>v DEF NextRun, workerVars, MainInv, ThreadsTyped, WorkerInv, TaskWritten, Given, Share
<1>8. ASSUME NEW w \in Workers, TakeStart(w) PROVE TaskWritten(v)'
  BY <1>8, <1>t, <1>v DEF TakeStart, mainVars, Take, ThreadsTyped, WorkerInv, TaskWritten, Given, Share
<1>9. ASSUME NEW w \in Workers, StampStart(w) PROVE TaskWritten(v)'
  BY <1>9, <1>t, <1>v DEF StampStart, mainVars, ThreadsTyped, WorkerInv, TaskWritten, Given, Share
<1>10. ASSUME NEW w \in Workers, Multiply(w) PROVE TaskWritten(v)'
  BY <1>10, <1>t, <1>v DEF Multiply, mainVars, matmul_rvvt, ThreadsTyped, WorkerInv, TaskWritten, Given, Share
<1>11. ASSUME NEW w \in Workers, StampEnd(w) PROVE TaskWritten(v)'
  BY <1>11, <1>t, <1>v DEF StampEnd, mainVars, ThreadsTyped, WorkerInv, TaskWritten, Given, Share
<1>12. ASSUME NEW w \in Workers, LockPrint(w) PROVE TaskWritten(v)'
  BY <1>12, <1>t, <1>v DEF LockPrint, mainVars, ThreadsTyped, WorkerInv, TaskWritten, Given, Share
<1>13. ASSUME NEW w \in Workers, UnlockPrint(w) PROVE TaskWritten(v)'
  BY <1>13, <1>t, <1>v DEF UnlockPrint, mainVars, ThreadsTyped, WorkerInv, TaskWritten, Given, Share
<1>14. ASSUME NEW w \in Workers, GiveDone(w) PROVE TaskWritten(v)'
  BY <1>14, <1>t, <1>v DEF GiveDone, mainVars, Give, ThreadsTyped, WorkerInv, TaskWritten, Given, Share
<1>15. CASE UNCHANGED vars
  BY <1>15, <1>t, <1>v DEF vars, mainVars, workerVars, ThreadsTyped, WorkerInv, TaskWritten, Given, Share
<1> QED
  BY <1>1, <1>2, <1>3, <1>4, <1>5, <1>6, <1>7, <1>8,
     <1>9, <1>10, <1>11, <1>12, <1>13, <1>14, <1>15
  DEF Next, MainStep, Worker

\* Nobody else writes to the tile a worker multiplies into.
LEMMA TileGrowsStep == PoolInv /\ [Next]_vars => \A v \in Workers : TileGrows(v)'
<1> SUFFICES ASSUME PoolInv, [Next]_vars PROVE \A v \in Workers : TileGrows(v)'
  OBVIOUS
<1>t. ThreadsTyped /\ MainInv /\ next \in Workers
  BY TypeParts DEF PoolInv, ThreadsTyped
<1> SUFFICES ASSUME NEW v \in Workers PROVE TileGrows(v)'
  OBVIOUS
<1>v. WorkerInv(v) /\ v \in Nat /\ v < NUM_THREADS /\ next \in Nat /\ next < NUM_THREADS
  BY <1>t, NextWorker DEF PoolInv
<1>1. CASE LockToPrint
  BY <1>1, <1>t, <1>v DEF LockToPrint, workerVars, ThreadsTyped, WorkerInv, TileGrows, Stamp
<1>2. CASE Printed
  BY <1>2, <1>t, <1>v DEF Printed, workerVars, ThreadsTyped, WorkerInv, TileGrows, Stamp
<1>3. CASE WriteTask
  BY <1>3, <1>t, <1>v DEF WriteTask, workerVars, ThreadsTyped, WorkerInv, TileGrows, Stamp
<1>4. CASE GiveStart
  BY <1>4, <1>t, <1>v DEF GiveStart, workerVars, Give, ThreadsTyped, WorkerInv, TileGrows, Stamp
<1>5. CASE ReadStamps
  BY <1>5, <1>t, <1>v DEF ReadStamps, workerVars, ThreadsTyped, WorkerInv, TileGrows, Stamp
<1>6. CASE CollectDone
  BY <1>6, <1>t, <1>v DEF CollectDone, workerVars, Take, AfterCollect, ThreadsTyped, WorkerInv, TileGrows, Stamp
<1>7. CASE NextRun
  BY <1>7, <1>t, <1>v DEF NextRun, workerVars, ThreadsTyped, WorkerInv, OneHolder, Collected, TileGrows
<1>8. ASSUME NEW w \in Workers, TakeStart(w) PROVE TileGrows(v)'
  BY <1>8, <1>t, <1>v DEF TakeStart, mainVars, Take, ThreadsTyped, WorkerInv, TileGrows, Stamp
<1>9. ASSUME NEW w \in Workers, StampStart(w) PROVE TileGrows(v)'
  BY <1>9, <1>t, <1>v DEF StampStart, mainVars, ThreadsTyped, WorkerInv, TileGrows, Stamp
<1>10. ASSUME NEW w \in Workers, Multiply(w) PROVE TileGrows(v)'
  <2>1. WorkerInv(w) /\ wpc[w] = "multiply"
    BY <1>10 DEF PoolInv, Multiply
  <2>2. task[w] = Share(w)
    BY <2>1 DEF WorkerInv, OneHolder, TaskWritten
  <2>3. C' = [C EXCEPT ![Cell(w)] = IF k[w] = 0 THEN << <<run, k[w]>> >> ELSE Append(@, <<run, k[w]>>)]
    BY <1>10, <2>2 DEF Multiply, matmul_rvvt, Share, Cell
  <2>4. /\ k' = [k EXCEPT ![w] = @ + 1]
        /\ UNCHANGED <<mainVars, wpc, start_ct, end_ct, done_sem>>
    BY <1>10 DEF Multiply
  <2>5. v # w => C'[Cell(v)] = C[Cell(v)]
    BY <2>3, CellsApart
  <2>6. CASE v = w
    <3>1. Cell(w) \in DOMAIN C
      BY CellType DEF PoolInv, TypeOK, Cells, Cell
    <3>2. C'[Cell(w)] = Products(run, k[w] + 1)
      <4>1. C'[Cell(w)] = IF k[w] = 0 THEN << <<run, k[w]>> >> ELSE Append(C[Cell(w)], <<run, k[w]>>)
        BY <2>3, <3>1
      <4>2. k[w] \in Nat /\ (k[w] > 0 => C[Cell(w)] = Products(run, k[w]))
        BY <1>t, <2>1 DEF ThreadsTyped, WorkerInv, TileGrows
      <4>3. CASE k[w] = 0
        BY <4>1, <4>3, OneMoreProduct
      <4>4. CASE k[w] > 0
        <5>1. Append(Products(run, k[w]), <<run, k[w]>>) = Products(run, k[w] + 1)
          <6>1. k[w] \in Nat
            BY <4>2
          <6> QED
            BY <6>1, OneMoreProduct, Zenon
        <5>2. C'[Cell(w)] = Append(C[Cell(w)], <<run, k[w]>>) /\ C[Cell(w)] = Products(run, k[w])
          BY <4>1, <4>2, <4>4
        <5> QED
          BY <5>1, <5>2, Zenon
      <4> QED
        BY <4>2, <4>3, <4>4
    <3>3. k'[w] = k[w] + 1 /\ start_ct'[w] = Stamp(run, w)
      BY <1>t, <2>1, <2>4 DEF ThreadsTyped, WorkerInv, TileGrows
    <3> QED
      BY <2>4, <2>6, <3>2, <3>3 DEF TileGrows, mainVars
  <2>7. CASE v # w
    <3>1. k'[v] = k[v]
      BY <1>t, <2>4, <2>7 DEF ThreadsTyped
    <3> QED
      BY <1>v, <2>4, <2>5, <2>7, <3>1 DEF WorkerInv, TileGrows, mainVars, Stamp
  <2> QED
    BY <2>6, <2>7
<1>11. ASSUME NEW w \in Workers, StampEnd(w) PROVE TileGrows(v)'
  BY <1>11, <1>t, <1>v DEF StampEnd, mainVars, ThreadsTyped, WorkerInv, TileGrows, Stamp
<1>12. ASSUME NEW w \in Workers, LockPrint(w) PROVE TileGrows(v)'
  BY <1>12, <1>t, <1>v DEF LockPrint, mainVars, ThreadsTyped, WorkerInv, TileGrows, Stamp
<1>13. ASSUME NEW w \in Workers, UnlockPrint(w) PROVE TileGrows(v)'
  BY <1>13, <1>t, <1>v DEF UnlockPrint, mainVars, ThreadsTyped, WorkerInv, TileGrows, Stamp
<1>14. ASSUME NEW w \in Workers, GiveDone(w) PROVE TileGrows(v)'
  BY <1>14, <1>t, <1>v DEF GiveDone, mainVars, Give, ThreadsTyped, WorkerInv, TileGrows, Stamp
<1>15. CASE UNCHANGED vars
  BY <1>15, <1>t, <1>v DEF vars, mainVars, workerVars, ThreadsTyped, WorkerInv, TileGrows, Stamp
<1> QED
  BY <1>1, <1>2, <1>3, <1>4, <1>5, <1>6, <1>7, <1>8,
     <1>9, <1>10, <1>11, <1>12, <1>13, <1>14, <1>15
  DEF Next, MainStep, Worker

\* A tile is complete when its worker stamps the end, and stays so until the next run.
LEMMA TileDoneStep == PoolInv /\ [Next]_vars => \A v \in Workers : TileDone(v)'
<1> SUFFICES ASSUME PoolInv, [Next]_vars PROVE \A v \in Workers : TileDone(v)'
  OBVIOUS
<1>t. ThreadsTyped /\ MainInv /\ next \in Workers
  BY TypeParts DEF PoolInv, ThreadsTyped
<1> SUFFICES ASSUME NEW v \in Workers PROVE TileDone(v)'
  OBVIOUS
<1>v. WorkerInv(v) /\ v \in Nat /\ v < NUM_THREADS /\ next \in Nat /\ next < NUM_THREADS
  BY <1>t, NextWorker DEF PoolInv
<1>1. CASE LockToPrint
  BY <1>1, <1>t, <1>v DEF LockToPrint, workerVars, ThreadsTyped, WorkerInv, TileDone, Finished, Collected, Stamp
<1>2. CASE Printed
  BY <1>2, <1>t, <1>v DEF Printed, workerVars, ThreadsTyped, WorkerInv, TileDone, Finished, Collected, Stamp
<1>3. CASE WriteTask
  BY <1>3, <1>t, <1>v DEF WriteTask, workerVars, ThreadsTyped, WorkerInv, TileDone, Finished, Collected, Stamp
<1>4. CASE GiveStart
  BY <1>4, <1>t, <1>v DEF GiveStart, workerVars, Give, ThreadsTyped, WorkerInv, TileDone, Finished, Collected, Stamp
<1>5. CASE ReadStamps
  BY <1>5, <1>t, <1>v DEF ReadStamps, workerVars, MainInv, ThreadsTyped, WorkerInv, TileDone, Finished, Collected, Stamp
<1>6. CASE CollectDone
  <2>1. /\ done_sem[next] > 0 /\ done_sem' = [done_sem EXCEPT ![next] = done_sem[next] - 1] /\ pc = "collect"
        /\ UNCHANGED <<run, task, wpc, k, start_ct, end_ct, C, start_sem>>
    BY <1>6 DEF CollectDone, Take, workerVars
  <2>2. CASE next + 1 < NUM_THREADS /\ next' = next + 1 /\ pc' = "collect"
    BY <1>t, <1>v, <2>1, <2>2 DEF ThreadsTyped, WorkerInv, TileDone, Finished, Collected, Stamp
  <2>3. CASE next = NUM_THREADS - 1 /\ next' = 0 /\ pc' = "returned"
    BY <1>t, <1>v, <2>1, <2>3, Positive DEF ThreadsTyped, WorkerInv, TileDone, Finished, Collected, Stamp
  <2> QED
    BY <1>6, <1>t, <2>2, <2>3, CollectDoneLoop
<1>7. CASE NextRun
  BY <1>7, <1>t, <1>v DEF NextRun, workerVars, ThreadsTyped, WorkerInv, OneHolder, Given, TileDone, Finished, Collected, Stamp
<1>8. ASSUME NEW w \in Workers, TakeStart(w) PROVE TileDone(v)'
  BY <1>8, <1>t, <1>v DEF TakeStart, mainVars, Take, ThreadsTyped, WorkerInv, TileDone, Finished, Collected, Stamp
<1>9. ASSUME NEW w \in Workers, StampStart(w) PROVE TileDone(v)'
  BY <1>9, <1>t, <1>v DEF StampStart, mainVars, ThreadsTyped, WorkerInv, OneHolder, Given, TileDone, Finished, Collected, Stamp
<1>10. ASSUME NEW w \in Workers, Multiply(w) PROVE TileDone(v)'
  <2>1. WorkerInv(w) /\ wpc[w] = "multiply"
    BY <1>10 DEF PoolInv, Multiply
  <2>2. task[w] = Share(w)
    BY <2>1 DEF WorkerInv, OneHolder, TaskWritten
  <2>3. C' = [C EXCEPT ![Cell(w)] = IF k[w] = 0 THEN << <<run, k[w]>> >> ELSE Append(@, <<run, k[w]>>)]
    BY <1>10, <2>2 DEF Multiply, matmul_rvvt, Share, Cell
  <2>4. /\ k' = [k EXCEPT ![w] = @ + 1]
        /\ UNCHANGED <<mainVars, wpc, start_ct, end_ct, done_sem>>
    BY <1>10 DEF Multiply
  <2>5. v # w => C'[Cell(v)] = C[Cell(v)]
    BY <2>3, CellsApart
  <2>6. CASE v = w
    BY <2>1, <2>4, <2>6 DEF WorkerInv, OneHolder, mainVars, TileDone, Finished, Collected
  <2>7. CASE v # w
    BY <1>v, <2>4, <2>5, <2>7 DEF WorkerInv, mainVars, TileDone, Finished, Collected, Stamp
  <2> QED
    BY <2>6, <2>7
<1>11. ASSUME NEW w \in Workers, StampEnd(w) PROVE TileDone(v)'
  BY <1>11, <1>t, <1>v, Positive DEF StampEnd, mainVars, ThreadsTyped, WorkerInv, TileGrows, OneHolder, TileDone, Finished, Collected, Stamp
<1>12. ASSUME NEW w \in Workers, LockPrint(w) PROVE TileDone(v)'
  BY <1>12, <1>t, <1>v DEF LockPrint, mainVars, ThreadsTyped, WorkerInv, TileDone, Finished, Collected, Stamp
<1>13. ASSUME NEW w \in Workers, UnlockPrint(w) PROVE TileDone(v)'
  BY <1>13, <1>t, <1>v DEF UnlockPrint, mainVars, ThreadsTyped, WorkerInv, TileDone, Finished, Collected, Stamp
<1>14. ASSUME NEW w \in Workers, GiveDone(w) PROVE TileDone(v)'
  BY <1>14, <1>t, <1>v DEF GiveDone, mainVars, Give, ThreadsTyped, WorkerInv, TileDone, Finished, Collected, Stamp
<1>15. CASE UNCHANGED vars
  BY <1>15, <1>t, <1>v DEF vars, mainVars, workerVars, ThreadsTyped, WorkerInv, TileDone, Finished, Collected, Stamp
<1> QED
  BY <1>1, <1>2, <1>3, <1>4, <1>5, <1>6, <1>7, <1>8,
     <1>9, <1>10, <1>11, <1>12, <1>13, <1>14, <1>15
  DEF Next, MainStep, Worker

-----------------------------------------------------------------------------
(* The theorem. *)

\* PoolInv is inductive, and says more than PoolSound.
LEMMA PoolInvInductive ==
    /\ Init => PoolInv
    /\ PoolInv /\ [Next]_vars => PoolInv'
    /\ PoolInv => PoolSound
<1>1. ASSUME Init PROVE PoolInv
  <2>1. ThreadsTyped
    BY <1>1, Positive
    DEF Init, ThreadsTyped, Workers, Nobody, Never, NoTask, Stamps, Stamp
  <2>2. ResultTyped
    BY <1>1 DEF Init, ResultTyped
  <2>3. MainInv /\ \A w \in Workers : WorkerInv(w)
    BY <1>1, NextWorker
    DEF Init, MainInv, WorkerInv, OneHolder, TaskWritten, TileGrows, TileDone, Finished,
        Given, Collected
  <2> QED
    BY <2>1, <2>2, <2>3, TypeParts DEF PoolInv
<1>2. ASSUME PoolInv, [Next]_vars PROVE PoolInv'
  <2>1. TypeOK'
    BY <1>2, ThreadsTypedStep, ResultTypedStep, TypeParts DEF TypeOK, ThreadsTyped, ResultTyped
  <2>2. ASSUME NEW w \in Workers PROVE WorkerInv(w)'
    BY <1>2, OneHolderStep, TaskWrittenStep, TileGrowsStep, TileDoneStep DEF WorkerInv
  <2> QED
    BY <1>2, <2>1, <2>2, MainInvStep DEF PoolInv
<1>3. ASSUME PoolInv PROVE PoolSound
  <2>1. ResultComplete
    <3> SUFFICES ASSUME pc \in {"returned", "reboot"}, NEW c \in Cells PROVE Complete(c, run)
      BY DEF ResultComplete
    <3>1. PICK w \in Workers : Cell(w) = c
      BY CellsCovered
    <3>2. C[Cell(w)] = Products(run, Tiles)
      BY <1>3 DEF PoolInv, WorkerInv, TileDone, Finished, Collected
    <3> QED
      BY <3>1, <3>2 DEF Complete, Products
  <2>2. ReportFresh
    BY <1>3 DEF PoolInv, MainInv, ReportFresh, Stamp
  <2> QED
    BY <1>3, <2>1, <2>2 DEF PoolInv, PoolSound
<1> QED
  BY <1>1, <1>2, <1>3

\* For every number of workers, tiles and runs: when execute_task returns, each tile of
\* the result holds the whole inner product of this run, each product once and in order,
\* and the times reported are a start and an end of this run.
THEOREM PoolIsSound == Spec => []PoolSound
<1>1. Init /\ [][Next]_vars => []PoolInv
  BY PoolInvInductive, PTL
<1> QED
  BY <1>1, PoolInvInductive, PTL DEF Spec
=============================================================================
