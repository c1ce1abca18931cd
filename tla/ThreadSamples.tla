---------------------------- MODULE ThreadSamples -----------------------------
(***************************************************************************)
(* The samples that start some threads, let them work and join them:       *)
(*   "rvv"      samples/test_mt_rvv: several threads per hart keep a value *)
(*              in a vector register while they yield                      *)
(*   "pthread"  samples/hello_pthread: POSIX threads, ids passed by address *)
(*   "eigen"    samples/tiled_eigen_mt: one tile of a product per thread   *)
(*                                                                         *)
(* A hart runs one of its threads at a time; the kernel, which is          *)
(* external, saves the vector register of the thread it takes off a hart   *)
(* and loads that of the thread it puts on.  Main has a hart of its own    *)
(* here, so that it may run at any time.  The arithmetic of the tiles is   *)
(* StripMine's.                                                            *)
(***************************************************************************)
EXTENDS Naturals

CONSTANTS NT, HARTS         \* NUM_THREADS, CONFIG_MP_MAX_NUM_CPUS

Ids == 0 .. NT - 1
Nobody == NT                \* no thread; also the value of a register never written
Main == NT + 1

VARIABLES
    sample, mainAt, i,      \* main: what it does and its loop variable
    th, thread_ids, seen,   \* the threads; their arguments in memory; what they read there
    print_mutex, printing,  \* the owner; who is in the middle of its lines
    on, v1, context, buf,   \* per hart: the thread, its vector register; per thread: saved, stored
    tiles                   \* eigen: the tiles in C_computed

threadVars == <<sample, mainAt, i, th, thread_ids, seen, print_mutex, printing, on, v1, context, buf, tiles>>
regs == <<on, v1, context, buf>>
lock == <<print_mutex, printing>>

Hart(t) == t % HARTS
Harts == 0 .. HARTS - 1

Init ==
    /\ sample \in {"rvv", "pthread", "eigen"} /\ mainAt = "create" /\ i = 0
    /\ th = [t \in Ids |-> "none"] /\ thread_ids = [t \in Ids |-> Nobody] /\ seen = [t \in Ids |-> Nobody]
    /\ print_mutex = Nobody /\ printing = {}
    /\ on = [h \in Harts |-> Nobody] /\ v1 = [h \in Harts |-> Nobody]
    /\ context = [t \in Ids |-> Nobody] /\ buf = [t \in Ids |-> Nobody]
    /\ tiles = {}

-----------------------------------------------------------------------------
(* main *)

\* k_thread_create, k_thread_cpu_pin, k_thread_start; or pthread_create with the address
\* of this thread's own id.  eigen announces a thread before it starts it, rvv after.
Create ==
    /\ mainAt = "create" /\ i < NT
    /\ thread_ids' = [thread_ids EXCEPT ![i] = i]
    /\ \/ th' = [th EXCEPT ![i] = IF sample = "eigen" THEN "made" ELSE "ready"]
          /\ IF sample = "pthread" THEN i' = i + 1 /\ UNCHANGED mainAt
                                   ELSE mainAt' = "lock" /\ UNCHANGED i
       \/ sample = "pthread" /\ th' = [th EXCEPT ![i] = "failed"] /\ i' = i + 1 /\ UNCHANGED mainAt
    /\ UNCHANGED <<sample, seen, lock, regs, tiles>>

Announce ==
    /\ mainAt = "lock" /\ print_mutex = Nobody
    /\ print_mutex' = Main /\ printing' = printing \union {Main}
    /\ mainAt' = "unlock"
    /\ UNCHANGED <<sample, i, th, thread_ids, seen, regs, tiles>>

Announced ==
    /\ mainAt = "unlock"
    /\ print_mutex' = Nobody /\ printing' = printing \ {Main}
    /\ th' = [th EXCEPT ![i] = IF @ = "made" THEN "ready" ELSE @]
    /\ mainAt' = "create" /\ i' = i + 1
    /\ UNCHANGED <<sample, thread_ids, seen, regs, tiles>>

AllCreated ==
    /\ mainAt = "create" /\ i = NT
    /\ mainAt' = "join" /\ i' = 0
    /\ UNCHANGED <<sample, th, thread_ids, seen, lock, regs, tiles>>

\* Mutant of Join: the last thread is not waited for.
JoinShort ==
    /\ mainAt = "join" /\ th[i] \in {"end", "failed"}
    /\ IF i < NT - 2 THEN i' = i + 1 /\ UNCHANGED mainAt ELSE mainAt' = "report" /\ UNCHANGED i
    /\ UNCHANGED <<sample, th, thread_ids, seen, lock, regs, tiles>>

\* A thread that could not be created is joined too: its handle was never set.  Here the
\* call returns at once.
Join ==
    /\ mainAt = "join" /\ th[i] \in {"end", "failed"}
    /\ IF i < NT - 1 THEN i' = i + 1 /\ UNCHANGED mainAt ELSE mainAt' = "report" /\ UNCHANGED i
    /\ UNCHANGED <<sample, th, thread_ids, seen, lock, regs, tiles>>

\* eigen compares C_computed; then the reboot.
Report ==
    /\ mainAt = "report" /\ mainAt' = "reboot"
    /\ UNCHANGED <<sample, i, th, thread_ids, seen, lock, regs, tiles>>

-----------------------------------------------------------------------------
(* The threads *)

Running(t) == on[Hart(t)] = t
Step(t, here, there) == Running(t) /\ th[t] = here /\ th' = [th EXCEPT ![t] = there]

\* The kernel puts t on its hart: at any time (the threads may be preempted).
Switch(t) ==
    /\ th[t] \notin {"none", "made", "failed", "end"} /\ ~Running(t)
    /\ LET h == Hart(t) IN
         /\ context' = IF on[h] = Nobody THEN context ELSE [context EXCEPT ![on[h]] = v1[h]]
         /\ v1' = [v1 EXCEPT ![h] = context[t]]
         /\ on' = [on EXCEPT ![h] = t]
    /\ UNCHANGED <<sample, mainAt, i, th, thread_ids, seen, lock, buf, tiles>>

\* The thread reads its argument.
Enter(t) ==
    /\ Step(t, "ready", IF sample = "eigen" THEN "work" ELSE "lock1")
    /\ seen' = [seen EXCEPT ![t] = thread_ids[t]]
    /\ UNCHANGED <<sample, mainAt, i, thread_ids, lock, regs, tiles>>

LockPrint(t) ==
    /\ \/ Step(t, "lock1", "print1") \/ Step(t, "lock2", "print2")
    /\ print_mutex = Nobody
    /\ print_mutex' = t /\ printing' = printing \union {t}
    /\ UNCHANGED <<sample, mainAt, i, thread_ids, seen, regs, tiles>>

UnlockPrint(t) ==
    /\ \/ Step(t, "print1", "work") \/ Step(t, "print2", "end")
    /\ print_mutex' = Nobody /\ printing' = printing \ {t}
    /\ UNCHANGED <<sample, mainAt, i, thread_ids, seen, regs, tiles>>

\* rvv: vle32.v v1, then k_yield.
LoadVector(t) ==
    /\ sample = "rvv" /\ Step(t, "work", "yielded")
    /\ v1' = [v1 EXCEPT ![Hart(t)] = seen[t]]
    /\ UNCHANGED <<sample, mainAt, i, thread_ids, seen, lock, on, context, buf, tiles>>

\* rvv: vse32.v v1, after the yield.
StoreVector(t) ==
    /\ sample = "rvv" /\ Step(t, "yielded", "lock2")
    /\ buf' = [buf EXCEPT ![t] = v1[Hart(t)]]
    /\ UNCHANGED <<sample, mainAt, i, thread_ids, seen, lock, on, v1, context, tiles>>

\* eigen: matmul_rvvt of this thread's tile, with k = 0 only.
ComputeTile(t) ==
    /\ sample = "eigen" /\ Step(t, "work", "lock2")
    /\ tiles' = tiles \union {<<seen[t] \div 2, seen[t] % 2>>}
    /\ UNCHANGED <<sample, mainAt, i, thread_ids, seen, lock, regs>>

\* pthread: the busy loop.
BusyWait(t) ==
    /\ sample = "pthread" /\ Step(t, "work", "end")
    /\ UNCHANGED <<sample, mainAt, i, thread_ids, seen, lock, regs, tiles>>

Next ==
    \/ Create \/ Announce \/ Announced \/ AllCreated \/ Join \/ Report
    \/ \E t \in Ids :
         \/ Switch(t) \/ Enter(t) \/ LockPrint(t) \/ UnlockPrint(t)
         \/ LoadVector(t) \/ StoreVector(t) \/ ComputeTile(t) \/ BusyWait(t)

Spec == Init /\ [][Next]_threadVars

-----------------------------------------------------------------------------
(* Properties *)

\* When main reports, every thread it started has ended, its tile in the result.
ReportsAfterAll ==
    mainAt \in {"report", "reboot"} =>
        /\ \A t \in Ids : th[t] \in {"end", "failed"}
        /\ sample = "eigen" => tiles = {<<t \div 2, t % 2>> : t \in Ids}

\* Only one of main and the threads is in the middle of its lines.
LinesWhole == \A s, t \in printing : s = t

\* A thread works under its own id, although main goes on while the thread starts.
OwnId == \A t \in Ids : seen[t] \in {t, Nobody}

\* What a thread stores after it has yielded is what it loaded, although the other threads
\* of its hart used the same register in between.
VectorKept == \A t \in Ids : buf[t] \in {t, Nobody}
=============================================================================
