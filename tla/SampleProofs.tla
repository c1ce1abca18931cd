----------------------------- MODULE SampleProofs -----------------------------
(***************************************************************************)
(* What the samples promise, proved for every value of their constants:    *)
(* the programs of ThreadSamples for any number of threads and harts,      *)
(* MicroRosApps for any queue and running time, ExecutorRunner for any     *)
(* pool, alignment and set of models, FlowSensor for any size of a byte,   *)
(* TofBringup for as many sensors as the expander has channels for, and    *)
(* Motors for any number of motors.                                        *)
(***************************************************************************)
EXTENDS MCSamples, TLAPS

-----------------------------------------------------------------------------
(* ThreadSamples: the inductive invariant. *)

ThreadStates == {"none", "made", "ready", "failed", "lock1", "print1", "work", "yielded",
                 "lock2", "print2", "end"}

ThreadTypes ==
    /\ sample \in {"rvv", "pthread", "eigen"}
    /\ mainAt \in {"create", "lock", "unlock", "join", "report", "reboot"}
    /\ i \in Nat /\ i <= NT
    /\ th \in [Thr!Ids -> ThreadStates]
    /\ thread_ids \in [Thr!Ids -> Nat] /\ seen \in [Thr!Ids -> Nat] /\ buf \in [Thr!Ids -> Nat]
    /\ on \in [Thr!Harts -> 0 .. NT] /\ v1 \in [Thr!Harts -> Nat] /\ context \in [Thr!Ids -> Nat]

\* How far main is in its two loops.
MainLoops ==
    /\ mainAt \in {"lock", "unlock", "join"} => i < NT
    /\ mainAt = "create" => \A t \in Thr!Ids : th[t] = "none" <=> t >= i
    /\ mainAt \in {"lock", "unlock"} => \A t \in Thr!Ids : th[t] = "none" <=> t > i
    /\ \A t \in Thr!Ids : th[t] = "made" => mainAt \in {"lock", "unlock"} /\ t = i
    /\ mainAt \in {"join", "report", "reboot"} => \A t \in Thr!Ids : th[t] # "none"
    /\ mainAt = "join" => \A t \in Thr!Ids : t < i => th[t] \in {"end", "failed"}
    /\ mainAt \in {"report", "reboot"} => \A t \in Thr!Ids : th[t] \in {"end", "failed"}

\* A thread that has read its argument has read its own id.
ArgumentsInv ==
    \A t \in Thr!Ids :
        /\ th[t] # "none" => thread_ids[t] = t
        /\ seen[t] \in {t, Thr!Nobody}
        /\ th[t] \notin {"none", "made", "ready", "failed"} => seen[t] = t

\* The mutex has the owner who is in the middle of its lines.
PrintInv ==
    /\ printing = IF lines_mutex = Thr!Nobody THEN {} ELSE {lines_mutex}
    /\ lines_mutex = Thr!Main <=> mainAt = "unlock"
    /\ \A t \in Thr!Ids : lines_mutex = t <=> th[t] \in {"print1", "print2"}

\* A thread's vector register is on its hart or in its context.
Register(t) == IF on[Thr!Hart(t)] = t THEN v1[Thr!Hart(t)] ELSE context[t]
VectorInv ==
    /\ \A h \in Thr!Harts : on[h] # Thr!Nobody => Thr!Hart(on[h]) = h
    /\ \A t \in Thr!Ids : th[t] = "yielded" => Register(t) = t
    /\ \A t \in Thr!Ids : buf[t] \in {t, Thr!Nobody}

\* A thread that is done with its work has put its tile into the result.
Tile(t) == <<t \div 2, t % 2>>
TilesInv ==
    /\ sample # "pthread" => \A t \in Thr!Ids : th[t] # "failed"
    /\ sample = "eigen" =>
          /\ tiles \subseteq {Tile(t) : t \in Thr!Ids}
          /\ \A t \in Thr!Ids : th[t] \in {"lock2", "print2", "end"} => Tile(t) \in tiles

ThreadsInv == ThreadTypes /\ MainLoops /\ ArgumentsInv /\ PrintInv /\ VectorInv /\ TilesInv


\* There is a thread and a hart.
LEMMA ThreadCount == NT \in Nat /\ NT > 0 /\ HARTS \in Nat /\ HARTS > 0
  BY SamplesAssumption

\* The hart a thread is pinned to is one of the machine's.
LEMMA HartIn == \A t \in Nat : Thr!Hart(t) \in Thr!Harts
  BY ThreadCount DEF Thr!Hart, Thr!Harts

\* The invariant of ThreadSamples holds when a sample starts.
LEMMA ThreadsStart == ASSUME Thr!Init PROVE ThreadsInv
  <1>1. ThreadTypes
    BY ThreadCount DEF Thr!Init, ThreadTypes, Thr!Ids, Thr!Harts, Thr!Nobody, Thr!Main, ThreadStates, Register, Tile, Thr!Hart
  <1>2. MainLoops
    BY ThreadCount DEF Thr!Init, MainLoops, Thr!Ids, Thr!Harts, Thr!Nobody, Thr!Main, ThreadStates, Register, Tile, Thr!Hart
  <1>3. ArgumentsInv
    BY ThreadCount DEF Thr!Init, ArgumentsInv, Thr!Ids, Thr!Harts, Thr!Nobody, Thr!Main, ThreadStates, Register, Tile, Thr!Hart
  <1>4. PrintInv
    BY ThreadCount DEF Thr!Init, PrintInv, Thr!Ids, Thr!Harts, Thr!Nobody, Thr!Main, ThreadStates, Register, Tile, Thr!Hart
  <1>5. VectorInv
    BY ThreadCount DEF Thr!Init, VectorInv, Thr!Ids, Thr!Harts, Thr!Nobody, Thr!Main, ThreadStates, Register, Tile, Thr!Hart
  <1>6. TilesInv
    BY ThreadCount DEF Thr!Init, TilesInv, Thr!Ids, Thr!Harts, Thr!Nobody, Thr!Main, ThreadStates, Register, Tile, Thr!Hart
  <1>. QED  BY <1>1, <1>2, <1>3, <1>4, <1>5, <1>6 DEF ThreadsInv

\* Create keeps the invariant.
LEMMA CreateKeeps ==
    ASSUME ThreadsInv, Thr!Create
    PROVE  ThreadsInv'
  <1>1. ThreadTypes'
    <2>1. i \in Thr!Ids /\ i' \in Nat /\ i' <= NT /\ mainAt' \in {"create", "lock"}
      BY ThreadCount DEF ThreadsInv, ThreadTypes, Thr!Create, Thr!Ids
    <2>2. th' \in [Thr!Ids -> ThreadStates] /\ thread_ids' \in [Thr!Ids -> Nat]
      BY <2>1 DEF ThreadsInv, ThreadTypes, Thr!Create, ThreadStates
    <2>. QED  BY <2>1, <2>2 DEF ThreadsInv, ThreadTypes, Thr!Create, Thr!regs
  <1>2. MainLoops'
    <2>1. i \in Thr!Ids /\ i \in Nat /\ mainAt = "create" /\ i < NT
      BY ThreadCount DEF ThreadsInv, ThreadTypes, Thr!Create, Thr!Ids
    <2>2. PICK s \in {"made", "ready", "failed"} :
            /\ th' = [th EXCEPT ![i] = s]
            /\ \/ i' = i + 1 /\ mainAt' = "create" /\ s # "made"
               \/ i' = i /\ mainAt' = "lock"
      BY <2>1 DEF Thr!Create
    <2>3. \A t \in Thr!Ids : t \in Nat /\ th'[t] = IF t = i THEN s ELSE th[t]
      BY <2>1, <2>2 DEF ThreadsInv, ThreadTypes, Thr!Ids
    <2>. QED  BY <2>1, <2>2, <2>3 DEF ThreadsInv, MainLoops
  <1>3. ArgumentsInv'
    BY DEF ThreadsInv, ThreadTypes, ArgumentsInv, Thr!Create
  <1>4. PrintInv'
    <2>1. mainAt' # "unlock" /\ mainAt = "create" /\ UNCHANGED <<lines_mutex, printing>>
      BY DEF Thr!Create, Thr!lock
    <2>2. i \in Thr!Ids /\ th[i] = "none"
      BY ThreadCount DEF ThreadsInv, ThreadTypes, MainLoops, Thr!Create, Thr!Ids
    <2>3. PICK s \in {"made", "ready", "failed"} : th' = [th EXCEPT ![i] = s]
      BY DEF Thr!Create
    <2>4. \A t \in Thr!Ids : th'[t] \in {"print1", "print2"} <=> th[t] \in {"print1", "print2"}
      BY <2>2, <2>3 DEF ThreadsInv, ThreadTypes
    <2>. QED  BY <2>1, <2>4 DEF ThreadsInv, PrintInv
  <1>5. VectorInv'
    BY DEF ThreadsInv, ThreadTypes, VectorInv, Thr!Create, Thr!regs, Register
  <1>6. TilesInv'
    <2>1. i \in Thr!Ids
      BY ThreadCount DEF ThreadsInv, ThreadTypes, Thr!Create, Thr!Ids
    <2>2. PICK s \in {"made", "ready", "failed"} :
            th' = [th EXCEPT ![i] = s] /\ (s = "failed" => sample = "pthread")
      BY DEF Thr!Create
    <2>3. \A t \in Thr!Ids : th'[t] = IF t = i THEN s ELSE th[t]
      BY <2>1, <2>2 DEF ThreadsInv, ThreadTypes
    <2>4. UNCHANGED <<sample, tiles>>
      BY DEF Thr!Create
    <2>. QED  BY <2>2, <2>3, <2>4 DEF ThreadsInv, TilesInv
  <1>. QED  BY <1>1, <1>2, <1>3, <1>4, <1>5, <1>6 DEF ThreadsInv

\* Announce keeps the invariant.
LEMMA AnnounceKeeps ==
    ASSUME ThreadsInv, Thr!Announce
    PROVE  ThreadsInv'
  <1>1. ThreadTypes'
    BY DEF ThreadsInv, ThreadTypes, Thr!Announce, Thr!regs, ThreadStates
  <1>2. MainLoops'
    BY ThreadCount DEF ThreadsInv, ThreadTypes, MainLoops, Thr!Announce, Thr!Ids
  <1>3. ArgumentsInv'
    BY DEF ThreadsInv, ThreadTypes, ArgumentsInv, Thr!Announce
  <1>4. PrintInv'
    <2>1. printing' = {Thr!Main} /\ lines_mutex' = Thr!Main
      BY DEF Thr!Announce, ThreadsInv, PrintInv
    <2>2. \A t \in Thr!Ids : th[t] \notin {"print1", "print2"} /\ t # Thr!Main
      BY ThreadCount DEF ThreadsInv, PrintInv, Thr!Announce, Thr!Ids, Thr!Nobody, Thr!Main
    <2>3. Thr!Main # Thr!Nobody /\ th' = th /\ mainAt' = "unlock"
      BY ThreadCount DEF Thr!Main, Thr!Nobody, Thr!Announce
    <2>. QED  BY <2>1, <2>2, <2>3 DEF PrintInv
  <1>5. VectorInv'
    BY DEF ThreadsInv, ThreadTypes, VectorInv, Thr!Announce, Thr!regs, Register
  <1>6. TilesInv'
    BY DEF ThreadsInv, ThreadTypes, TilesInv, Thr!Announce, Tile
  <1>. QED  BY <1>1, <1>2, <1>3, <1>4, <1>5, <1>6 DEF ThreadsInv

\* Announced keeps the invariant.
LEMMA AnnouncedKeeps ==
    ASSUME ThreadsInv, Thr!Announced
    PROVE  ThreadsInv'
  <1>1. ThreadTypes'
    <2>1. i' \in Nat /\ i' <= NT /\ mainAt' = "create"
      BY ThreadCount DEF ThreadsInv, ThreadTypes, MainLoops, Thr!Announced
    <2>2. th' \in [Thr!Ids -> ThreadStates]
      BY DEF ThreadsInv, ThreadTypes, Thr!Announced, ThreadStates
    <2>. QED  BY <2>1, <2>2 DEF ThreadsInv, ThreadTypes, Thr!Announced, Thr!regs
  <1>2. MainLoops'
    <2>1. i \in Nat /\ i < NT /\ mainAt' = "create" /\ i' = i + 1
      BY DEF ThreadsInv, ThreadTypes, MainLoops, Thr!Announced
    <2>2. \A t \in Thr!Ids : t \in Nat /\ th'[t] = IF t = i /\ th[t] = "made" THEN "ready" ELSE th[t]
      BY DEF ThreadsInv, ThreadTypes, Thr!Announced, Thr!Ids
    <2>3. \A t \in Thr!Ids : th[t] = "none" <=> t > i
      BY DEF ThreadsInv, MainLoops, Thr!Announced
    <2>. QED  BY <2>1, <2>2, <2>3 DEF ThreadsInv, MainLoops
  <1>3. ArgumentsInv'
    BY DEF ThreadsInv, ThreadTypes, ArgumentsInv, Thr!Announced
  <1>4. PrintInv'
    <2>1. lines_mutex = Thr!Main /\ lines_mutex' = Thr!Nobody /\ Thr!Main # Thr!Nobody
      BY ThreadCount DEF ThreadsInv, PrintInv, Thr!Announced, Thr!Main, Thr!Nobody
    <2>2. printing' = {}
      BY <2>1 DEF ThreadsInv, PrintInv, Thr!Announced
    <2>3. \A t \in Thr!Ids : t # Thr!Main /\ t # Thr!Nobody
      BY ThreadCount DEF Thr!Ids, Thr!Main, Thr!Nobody
    <2>4. \A t \in Thr!Ids : th[t] \notin {"print1", "print2"}
      BY <2>1, <2>3 DEF ThreadsInv, PrintInv
    <2>5. \A t \in Thr!Ids : th'[t] \notin {"print1", "print2"}
      BY <2>4 DEF ThreadsInv, ThreadTypes, Thr!Announced
    <2>6. mainAt' = "create"
      BY DEF Thr!Announced
    <2>. QED  BY <2>1, <2>2, <2>3, <2>5, <2>6 DEF PrintInv
  <1>5. VectorInv'
    BY DEF ThreadsInv, ThreadTypes, VectorInv, Thr!Announced, Thr!regs, Register
  <1>6. TilesInv'
    BY DEF ThreadsInv, ThreadTypes, TilesInv, Thr!Announced, Tile
  <1>. QED  BY <1>1, <1>2, <1>3, <1>4, <1>5, <1>6 DEF ThreadsInv

\* AllCreated keeps the invariant.
LEMMA AllCreatedKeeps ==
    ASSUME ThreadsInv, Thr!AllCreated
    PROVE  ThreadsInv'
  <1>1. ThreadTypes'
    BY ThreadCount DEF ThreadsInv, ThreadTypes, Thr!AllCreated, Thr!regs
  <1>2. MainLoops'
    BY ThreadCount DEF ThreadsInv, ThreadTypes, MainLoops, Thr!AllCreated, Thr!Ids
  <1>3. ArgumentsInv'
    BY DEF ThreadsInv, ThreadTypes, ArgumentsInv, Thr!AllCreated
  <1>4. PrintInv'
    BY DEF ThreadsInv, ThreadTypes, PrintInv, Thr!AllCreated, Thr!lock
  <1>5. VectorInv'
    BY DEF ThreadsInv, ThreadTypes, VectorInv, Thr!AllCreated, Thr!regs, Register
  <1>6. TilesInv'
    BY DEF ThreadsInv, ThreadTypes, TilesInv, Thr!AllCreated, Tile
  <1>. QED  BY <1>1, <1>2, <1>3, <1>4, <1>5, <1>6 DEF ThreadsInv

\* Join keeps the invariant.
LEMMA JoinKeeps ==
    ASSUME ThreadsInv, Thr!Join
    PROVE  ThreadsInv'
  <1>1. ThreadTypes'
    <2>1. i' \in Nat /\ i' <= NT /\ mainAt' \in {"join", "report"}
      BY ThreadCount DEF ThreadsInv, ThreadTypes, Thr!Join
    <2>. QED  BY <2>1 DEF ThreadsInv, ThreadTypes, Thr!Join, Thr!regs
  <1>2. MainLoops'
    <2>1. /\ i \in Nat /\ i < NT /\ mainAt = "join" /\ th' = th
          /\ th[i] \in {"end", "failed"}
          /\ \/ i' = i + 1 /\ i < NT - 1 /\ mainAt' = "join"
             \/ i' = i /\ ~(i < NT - 1) /\ mainAt' = "report"
      BY DEF ThreadsInv, ThreadTypes, MainLoops, Thr!Join
    <2>2. \A t \in Thr!Ids : t \in Nat /\ t < NT /\ th[t] # "none" /\ th[t] # "made"
      BY <2>1, ThreadCount DEF ThreadsInv, MainLoops, Thr!Ids
    <2>3. \A t \in Thr!Ids : t <= i => th[t] \in {"end", "failed"}
      BY <2>1, <2>2 DEF ThreadsInv, MainLoops
    <2>. QED  BY <2>1, <2>2, <2>3, ThreadCount DEF MainLoops
  <1>3. ArgumentsInv'
    BY DEF ThreadsInv, ThreadTypes, ArgumentsInv, Thr!Join
  <1>4. PrintInv'
    BY DEF ThreadsInv, ThreadTypes, PrintInv, Thr!Join, Thr!lock
  <1>5. VectorInv'
    BY DEF ThreadsInv, ThreadTypes, VectorInv, Thr!Join, Thr!regs, Register
  <1>6. TilesInv'
    BY DEF ThreadsInv, ThreadTypes, TilesInv, Thr!Join, Tile
  <1>. QED  BY <1>1, <1>2, <1>3, <1>4, <1>5, <1>6 DEF ThreadsInv

\* Report keeps the invariant.
LEMMA ReportKeeps ==
    ASSUME ThreadsInv, Thr!Report
    PROVE  ThreadsInv'
  <1>1. ThreadTypes'
    BY DEF ThreadsInv, ThreadTypes, Thr!Report, Thr!regs, ThreadStates
  <1>2. MainLoops'
    BY ThreadCount DEF ThreadsInv, ThreadTypes, MainLoops, Thr!Report, Thr!Ids
  <1>3. ArgumentsInv'
    BY DEF ThreadsInv, ThreadTypes, ArgumentsInv, Thr!Report
  <1>4. PrintInv'
    BY DEF ThreadsInv, ThreadTypes, PrintInv, Thr!Report, Thr!lock
  <1>5. VectorInv'
    BY DEF ThreadsInv, ThreadTypes, VectorInv, Thr!Report, Thr!regs, Register
  <1>6. TilesInv'
    BY DEF ThreadsInv, ThreadTypes, TilesInv, Thr!Report, Tile
  <1>. QED  BY <1>1, <1>2, <1>3, <1>4, <1>5, <1>6 DEF ThreadsInv

\* Switch keeps the invariant.
LEMMA SwitchKeeps ==
    ASSUME ThreadsInv, NEW t \in Thr!Ids, Thr!Switch(t)
    PROVE  ThreadsInv'
  <1>1. ThreadTypes'
    <2>1. Thr!Hart(t) \in Thr!Harts /\ t \in 0 .. NT
      BY HartIn, ThreadCount DEF Thr!Ids
    <2>2. on[Thr!Hart(t)] # Thr!Nobody => on[Thr!Hart(t)] \in Thr!Ids
      BY <2>1, ThreadCount DEF ThreadsInv, ThreadTypes, Thr!Ids, Thr!Nobody
    <2>3. /\ on' \in [Thr!Harts -> 0 .. NT] /\ v1' \in [Thr!Harts -> Nat]
          /\ context' \in [Thr!Ids -> Nat]
      BY <2>1, <2>2 DEF ThreadsInv, ThreadTypes, Thr!Switch
    <2>. QED  BY <2>3 DEF ThreadsInv, ThreadTypes, Thr!Switch
  <1>2. MainLoops'
    BY ThreadCount DEF ThreadsInv, ThreadTypes, MainLoops, Thr!Switch, Thr!Ids
  <1>3. ArgumentsInv'
    BY DEF ThreadsInv, ThreadTypes, ArgumentsInv, Thr!Switch
  <1>4. PrintInv'
    BY DEF ThreadsInv, ThreadTypes, PrintInv, Thr!Switch, Thr!lock
  <1>5. VectorInv'
    <2>. DEFINE h == Thr!Hart(t)
               p == on[h]
    <2>1. h \in Thr!Harts /\ p \in 0 .. NT /\ p # t /\ t # Thr!Nobody
      BY HartIn, ThreadCount DEF ThreadsInv, ThreadTypes, Thr!Ids, Thr!Switch, Thr!Running, Thr!Nobody
    <2>2. p # Thr!Nobody => p \in Thr!Ids /\ Thr!Hart(p) = h
      BY <2>1, ThreadCount DEF ThreadsInv, VectorInv, Thr!Ids, Thr!Nobody
    <2>3. /\ on' = [on EXCEPT ![h] = t] /\ v1' = [v1 EXCEPT ![h] = context[t]]
          /\ context' = IF p = Thr!Nobody THEN context ELSE [context EXCEPT ![p] = v1[h]]
          /\ UNCHANGED <<th, buf>>
      BY DEF Thr!Switch
    <2>4. \A j \in Thr!Harts : on'[j] # Thr!Nobody => Thr!Hart(on'[j]) = j
      BY <2>1, <2>3 DEF ThreadsInv, ThreadTypes, VectorInv
    <2>5. ASSUME NEW u \in Thr!Ids, th'[u] = "yielded" PROVE Register(u)' = u
      <3>. DEFINE g == Thr!Hart(u)
      <3>1. g \in Thr!Harts /\ u # Thr!Nobody
        BY HartIn, ThreadCount DEF Thr!Ids, Thr!Nobody
      <3>2. (IF on[g] = u THEN v1[g] ELSE context[u]) = u
        BY <2>3, <2>5 DEF ThreadsInv, VectorInv, Register
      <3>3. (IF on'[g] = u THEN v1'[g] ELSE context'[u]) = u
        <4>1. CASE u = t
          BY <4>1, <3>1, <3>2, <2>1, <2>3 DEF ThreadsInv, ThreadTypes
        <4>2. CASE u # t /\ u = p
          BY <4>2, <3>1, <3>2, <2>1, <2>2, <2>3 DEF ThreadsInv, ThreadTypes
        <4>3. CASE u # t /\ u # p /\ g = h
          <5>1. on'[g] # u /\ on[g] # u /\ context'[u] = context[u]
            BY <4>3, <2>1, <2>2, <2>3 DEF ThreadsInv, ThreadTypes
          <5>. QED  BY <5>1, <3>2
        <4>4. CASE u # t /\ u # p /\ g # h
          <5>1. on'[g] = on[g] /\ v1'[g] = v1[g] /\ context'[u] = context[u]
            BY <4>4, <3>1, <2>1, <2>2, <2>3 DEF ThreadsInv, ThreadTypes
          <5>. QED  BY <5>1, <3>2
        <4>. QED  BY <4>1, <4>2, <4>3, <4>4
      <3>. QED  BY <3>3 DEF Register
    <2>. QED  BY <2>3, <2>4, <2>5 DEF ThreadsInv, VectorInv
  <1>6. TilesInv'
    BY DEF ThreadsInv, ThreadTypes, TilesInv, Thr!Switch, Tile
  <1>. QED  BY <1>1, <1>2, <1>3, <1>4, <1>5, <1>6 DEF ThreadsInv

\* Enter keeps the invariant.
LEMMA EnterKeeps ==
    ASSUME ThreadsInv, NEW t \in Thr!Ids, Thr!Enter(t)
    PROVE  ThreadsInv'
  <1>1. ThreadTypes'
    BY DEF ThreadsInv, ThreadTypes, Thr!Enter, Thr!Step, Thr!regs, ThreadStates
  <1>2. MainLoops'
    BY ThreadCount DEF ThreadsInv, ThreadTypes, MainLoops, Thr!Enter, Thr!Step, Thr!Ids
  <1>3. ArgumentsInv'
    BY DEF ThreadsInv, ThreadTypes, ArgumentsInv, Thr!Enter, Thr!Step
  <1>4. PrintInv'
    BY DEF ThreadsInv, ThreadTypes, PrintInv, Thr!Enter, Thr!Step, Thr!lock
  <1>5. VectorInv'
    BY DEF ThreadsInv, ThreadTypes, VectorInv, Thr!Enter, Thr!Step, Thr!regs, Register
  <1>6. TilesInv'
    BY DEF ThreadsInv, ThreadTypes, TilesInv, Thr!Enter, Thr!Step, Tile
  <1>. QED  BY <1>1, <1>2, <1>3, <1>4, <1>5, <1>6 DEF ThreadsInv

\* LockPrint keeps the invariant.
LEMMA LockPrintKeeps ==
    ASSUME ThreadsInv, NEW t \in Thr!Ids, Thr!LockPrint(t)
    PROVE  ThreadsInv'
  <1>1. ThreadTypes'
    <2>1. PICK s \in {"print1", "print2"} : th' = [th EXCEPT ![t] = s]
      BY DEF Thr!LockPrint, Thr!Step
    <2>2. th' \in [Thr!Ids -> ThreadStates]
      BY <2>1 DEF ThreadsInv, ThreadTypes, ThreadStates
    <2>. QED  BY <2>2 DEF ThreadsInv, ThreadTypes, Thr!LockPrint, Thr!regs
  <1>2. MainLoops'
    BY ThreadCount DEF ThreadsInv, ThreadTypes, MainLoops, Thr!LockPrint, Thr!Step, Thr!Ids
  <1>3. ArgumentsInv'
    BY DEF ThreadsInv, ThreadTypes, ArgumentsInv, Thr!LockPrint, Thr!Step
  <1>4. PrintInv'
    <2>1. PICK s \in {"print1", "print2"} : th' = [th EXCEPT ![t] = s]
      BY DEF Thr!LockPrint, Thr!Step
    <2>2. lines_mutex = Thr!Nobody /\ lines_mutex' = t /\ printing' = {t} /\ mainAt' = mainAt
      BY DEF ThreadsInv, PrintInv, Thr!LockPrint
    <2>3. \A u \in Thr!Ids : u # Thr!Main /\ u # Thr!Nobody
      BY ThreadCount DEF Thr!Ids, Thr!Main, Thr!Nobody
    <2>4. \A u \in Thr!Ids : th[u] \notin {"print1", "print2"}
      BY <2>2, <2>3 DEF ThreadsInv, PrintInv
    <2>5. mainAt # "unlock"
      BY <2>2, ThreadCount DEF ThreadsInv, PrintInv, Thr!Main, Thr!Nobody
    <2>6. \A u \in Thr!Ids : th'[u] \in {"print1", "print2"} <=> u = t
      BY <2>1, <2>4 DEF ThreadsInv, ThreadTypes
    <2>. QED  BY <2>2, <2>3, <2>5, <2>6 DEF PrintInv
  <1>5. VectorInv'
    BY DEF ThreadsInv, ThreadTypes, VectorInv, Thr!LockPrint, Thr!Step, Thr!regs, Register
  <1>6. TilesInv'
    <2>1. PICK s \in {"print1", "print2"} : th' = [th EXCEPT ![t] = s]
      BY DEF Thr!LockPrint, Thr!Step
    <2>2. /\ th[t] \in {"lock1", "lock2"} /\ UNCHANGED <<sample, tiles>>
          /\ s = "print2" => th[t] = "lock2"
      BY <2>1 DEF Thr!LockPrint, Thr!Step, ThreadsInv, ThreadTypes
    <2>3. \A u \in Thr!Ids : th'[u] = IF u = t THEN s ELSE th[u]
      BY <2>1 DEF ThreadsInv, ThreadTypes
    <2>. QED  BY <2>1, <2>2, <2>3 DEF ThreadsInv, TilesInv
  <1>. QED  BY <1>1, <1>2, <1>3, <1>4, <1>5, <1>6 DEF ThreadsInv

\* UnlockPrint keeps the invariant.
LEMMA UnlockPrintKeeps ==
    ASSUME ThreadsInv, NEW t \in Thr!Ids, Thr!UnlockPrint(t)
    PROVE  ThreadsInv'
  <1>1. ThreadTypes'
    <2>1. PICK s \in {"work", "end"} : th' = [th EXCEPT ![t] = s]
      BY DEF Thr!UnlockPrint, Thr!Step
    <2>2. th' \in [Thr!Ids -> ThreadStates]
      BY <2>1 DEF ThreadsInv, ThreadTypes, ThreadStates
    <2>. QED  BY <2>2 DEF ThreadsInv, ThreadTypes, Thr!UnlockPrint, Thr!regs
  <1>2. MainLoops'
    BY ThreadCount DEF ThreadsInv, ThreadTypes, MainLoops, Thr!UnlockPrint, Thr!Step, Thr!Ids
  <1>3. ArgumentsInv'
    BY DEF ThreadsInv, ThreadTypes, ArgumentsInv, Thr!UnlockPrint, Thr!Step
  <1>4. PrintInv'
    <2>1. PICK s \in {"work", "end"} : th' = [th EXCEPT ![t] = s] /\ th[t] \in {"print1", "print2"}
      BY DEF Thr!UnlockPrint, Thr!Step
    <2>2. \A u \in Thr!Ids : u # Thr!Main /\ u # Thr!Nobody
      BY ThreadCount DEF Thr!Ids, Thr!Main, Thr!Nobody
    <2>3. lines_mutex = t /\ lines_mutex' = Thr!Nobody /\ printing' = {} /\ mainAt' = mainAt
      BY <2>1, <2>2 DEF ThreadsInv, PrintInv, Thr!UnlockPrint
    <2>4. \A u \in Thr!Ids : th'[u] \notin {"print1", "print2"}
      BY <2>1, <2>3 DEF ThreadsInv, ThreadTypes, PrintInv
    <2>5. mainAt # "unlock" /\ Thr!Main # Thr!Nobody
      BY <2>2, <2>3, ThreadCount DEF ThreadsInv, PrintInv, Thr!Main, Thr!Nobody
    <2>. QED  BY <2>2, <2>3, <2>4, <2>5 DEF PrintInv
  <1>5. VectorInv'
    BY DEF ThreadsInv, ThreadTypes, VectorInv, Thr!UnlockPrint, Thr!Step, Thr!regs, Register
  <1>6. TilesInv'
    <2>1. PICK s \in {"work", "end"} : th' = [th EXCEPT ![t] = s]
      BY DEF Thr!UnlockPrint, Thr!Step
    <2>2. /\ th[t] \in {"print1", "print2"} /\ UNCHANGED <<sample, tiles>>
          /\ s = "end" => th[t] = "print2"
      BY <2>1 DEF Thr!UnlockPrint, Thr!Step, ThreadsInv, ThreadTypes
    <2>3. \A u \in Thr!Ids : th'[u] = IF u = t THEN s ELSE th[u]
      BY <2>1 DEF ThreadsInv, ThreadTypes
    <2>. QED  BY <2>1, <2>2, <2>3 DEF ThreadsInv, TilesInv
  <1>. QED  BY <1>1, <1>2, <1>3, <1>4, <1>5, <1>6 DEF ThreadsInv

\* LoadVector keeps the invariant.
LEMMA LoadVectorKeeps ==
    ASSUME ThreadsInv, NEW t \in Thr!Ids, Thr!LoadVector(t)
    PROVE  ThreadsInv'
  <1>1. ThreadTypes'
    BY HartIn DEF ThreadsInv, ThreadTypes, Thr!LoadVector, Thr!Step, Thr!Running, Thr!Ids, ThreadStates
  <1>2. MainLoops'
    BY ThreadCount DEF ThreadsInv, ThreadTypes, MainLoops, Thr!LoadVector, Thr!Step, Thr!Ids
  <1>3. ArgumentsInv'
    BY DEF ThreadsInv, ThreadTypes, ArgumentsInv, Thr!LoadVector, Thr!Step
  <1>4. PrintInv'
    BY DEF ThreadsInv, ThreadTypes, PrintInv, Thr!LoadVector, Thr!Step, Thr!lock
  <1>5. VectorInv'
    <2>1. t \in Thr!Ids /\ Thr!Hart(t) \in Thr!Harts /\ on[Thr!Hart(t)] = t
      BY HartIn DEF Thr!LoadVector, Thr!Step, Thr!Running, Thr!Ids
    <2>2. seen[t] = t
      BY DEF ThreadsInv, ArgumentsInv, Thr!LoadVector, Thr!Step, Thr!Ids, Thr!Nobody
    <2>3. /\ v1' = [v1 EXCEPT ![Thr!Hart(t)] = t] /\ th' = [th EXCEPT ![t] = "yielded"]
          /\ UNCHANGED <<on, context, buf>>
      BY <2>2 DEF Thr!LoadVector, Thr!Step
    <2>4. ASSUME NEW u \in Thr!Ids, th'[u] = "yielded" PROVE Register(u)' = u
      <3>1. Thr!Hart(u) \in Thr!Harts
        BY HartIn DEF Thr!Ids
      <3>2. CASE u = t
        BY <3>2, <2>1, <2>3 DEF ThreadsInv, ThreadTypes, Register
      <3>3. CASE u # t
        <4>1. Register(u) = u
          BY <2>3, <2>4, <3>3 DEF ThreadsInv, ThreadTypes, VectorInv
        <4>2. on[Thr!Hart(u)] = u => Thr!Hart(u) # Thr!Hart(t)
          BY <2>1, <3>3
        <4>. QED  BY <2>1, <2>3, <3>1, <3>3, <4>1, <4>2 DEF ThreadsInv, ThreadTypes, Register
      <3>. QED  BY <3>2, <3>3
    <2>. QED  BY <2>3, <2>4 DEF ThreadsInv, VectorInv
  <1>6. TilesInv'
    BY DEF ThreadsInv, ThreadTypes, TilesInv, Thr!LoadVector, Thr!Step, Tile
  <1>. QED  BY <1>1, <1>2, <1>3, <1>4, <1>5, <1>6 DEF ThreadsInv

\* StoreVector keeps the invariant.
LEMMA StoreVectorKeeps ==
    ASSUME ThreadsInv, NEW t \in Thr!Ids, Thr!StoreVector(t)
    PROVE  ThreadsInv'
  <1>1. ThreadTypes'
    <2>1. v1[Thr!Hart(t)] \in Nat
      BY HartIn DEF ThreadsInv, ThreadTypes, Thr!Ids
    <2>2. buf' \in [Thr!Ids -> Nat] /\ th' \in [Thr!Ids -> ThreadStates]
      BY <2>1 DEF ThreadsInv, ThreadTypes, Thr!StoreVector, Thr!Step, ThreadStates
    <2>. QED  BY <2>2 DEF ThreadsInv, ThreadTypes, Thr!StoreVector
  <1>2. MainLoops'
    BY ThreadCount DEF ThreadsInv, ThreadTypes, MainLoops, Thr!StoreVector, Thr!Step, Thr!Running, Thr!Ids
  <1>3. ArgumentsInv'
    BY DEF ThreadsInv, ThreadTypes, ArgumentsInv, Thr!StoreVector, Thr!Step, Thr!Running
  <1>4. PrintInv'
    BY DEF ThreadsInv, ThreadTypes, PrintInv, Thr!StoreVector, Thr!Step, Thr!Running, Thr!lock
  <1>5. VectorInv'
    BY HartIn DEF ThreadsInv, ThreadTypes, VectorInv, ArgumentsInv, Thr!StoreVector, Thr!Step, Thr!Running, Thr!Ids, Register
  <1>6. TilesInv'
    BY DEF ThreadsInv, ThreadTypes, TilesInv, Thr!StoreVector, Thr!Step, Thr!Running, Tile
  <1>. QED  BY <1>1, <1>2, <1>3, <1>4, <1>5, <1>6 DEF ThreadsInv

\* ComputeTile keeps the invariant.
LEMMA ComputeTileKeeps ==
    ASSUME ThreadsInv, NEW t \in Thr!Ids, Thr!ComputeTile(t)
    PROVE  ThreadsInv'
  <1>1. ThreadTypes'
    BY DEF ThreadsInv, ThreadTypes, Thr!ComputeTile, Thr!Step, Thr!regs, ThreadStates
  <1>2. MainLoops'
    BY ThreadCount DEF ThreadsInv, ThreadTypes, MainLoops, Thr!ComputeTile, Thr!Step, Thr!Ids
  <1>3. ArgumentsInv'
    BY DEF ThreadsInv, ThreadTypes, ArgumentsInv, Thr!ComputeTile, Thr!Step
  <1>4. PrintInv'
    BY DEF ThreadsInv, ThreadTypes, PrintInv, Thr!ComputeTile, Thr!Step, Thr!lock
  <1>5. VectorInv'
    BY DEF ThreadsInv, ThreadTypes, VectorInv, Thr!ComputeTile, Thr!Step, Thr!regs, Register
  <1>6. TilesInv'
    <2>1. tiles' = tiles \union {Tile(t)}
      <3>1. seen[t] = t
        BY DEF ThreadsInv, ArgumentsInv, Thr!ComputeTile, Thr!Step, Thr!Ids, Thr!Nobody
      <3>. QED  BY <3>1 DEF Thr!ComputeTile, Tile
    <2>2. \A u \in Thr!Ids : th'[u] = IF u = t THEN "lock2" ELSE th[u]
      BY DEF ThreadsInv, ThreadTypes, Thr!ComputeTile, Thr!Step
    <2>3. UNCHANGED sample
      BY DEF Thr!ComputeTile
    <2>. QED  BY <2>1, <2>2, <2>3 DEF ThreadsInv, TilesInv
  <1>. QED  BY <1>1, <1>2, <1>3, <1>4, <1>5, <1>6 DEF ThreadsInv

\* BusyWait keeps the invariant.
LEMMA BusyWaitKeeps ==
    ASSUME ThreadsInv, NEW t \in Thr!Ids, Thr!BusyWait(t)
    PROVE  ThreadsInv'
  <1>1. ThreadTypes'
    BY DEF ThreadsInv, ThreadTypes, Thr!BusyWait, Thr!Step, Thr!regs, ThreadStates
  <1>2. MainLoops'
    BY ThreadCount DEF ThreadsInv, ThreadTypes, MainLoops, Thr!BusyWait, Thr!Step, Thr!Ids
  <1>3. ArgumentsInv'
    BY DEF ThreadsInv, ThreadTypes, ArgumentsInv, Thr!BusyWait, Thr!Step
  <1>4. PrintInv'
    BY DEF ThreadsInv, ThreadTypes, PrintInv, Thr!BusyWait, Thr!Step, Thr!lock
  <1>5. VectorInv'
    BY DEF ThreadsInv, ThreadTypes, VectorInv, Thr!BusyWait, Thr!Step, Thr!regs, Register
  <1>6. TilesInv'
    BY DEF ThreadsInv, ThreadTypes, TilesInv, Thr!BusyWait, Thr!Step, Tile
  <1>. QED  BY <1>1, <1>2, <1>3, <1>4, <1>5, <1>6 DEF ThreadsInv

-----------------------------------------------------------------------------
(* The samples that start threads are sound. *)

\* Every step of ThreadSamples keeps the invariant.
LEMMA ThreadsKeep == ASSUME ThreadsInv, [Thr!Next]_threadsVars PROVE ThreadsInv'
  <1>1. CASE Thr!Next
    BY <1>1, CreateKeeps, AnnounceKeeps, AnnouncedKeeps, AllCreatedKeeps, JoinKeeps, ReportKeeps,
       SwitchKeeps, EnterKeeps, LockPrintKeeps, UnlockPrintKeeps, LoadVectorKeeps,
       StoreVectorKeeps, ComputeTileKeeps, BusyWaitKeeps DEF Thr!Next
  <1>2. CASE UNCHANGED threadsVars
    BY <1>2 DEF threadsVars, ThreadsInv, ThreadTypes, MainLoops, ArgumentsInv, PrintInv, VectorInv,
                TilesInv, Register, Tile, Thr!Ids, Thr!Harts, Thr!Hart, Thr!Nobody, Thr!Main
  <1>. QED  BY <1>1, <1>2

\* The invariant says what ThreadsSound promises.
LEMMA ThreadsImplied ==
    ThreadsInv => Thr!ReportsAfterAll /\ Thr!OwnId /\ Thr!LinesWhole /\ Thr!VectorKept
  <1>. SUFFICES ASSUME ThreadsInv
                PROVE  Thr!ReportsAfterAll /\ Thr!OwnId /\ Thr!LinesWhole /\ Thr!VectorKept
    OBVIOUS
  <1>1. Thr!ReportsAfterAll
    <2>. SUFFICES ASSUME mainAt \in {"report", "reboot"}
                  PROVE  /\ \A t \in Thr!Ids : th[t] \in {"end", "failed"}
                         /\ sample = "eigen" => tiles = {Tile(t) : t \in Thr!Ids}
      BY DEF Thr!ReportsAfterAll, Tile
    <2>1. \A t \in Thr!Ids : th[t] \in {"end", "failed"}
      BY DEF ThreadsInv, MainLoops
    <2>2. ASSUME sample = "eigen" PROVE \A t \in Thr!Ids : Tile(t) \in tiles
      BY <2>1, <2>2 DEF ThreadsInv, TilesInv
    <2>. QED  BY <2>1, <2>2 DEF ThreadsInv, TilesInv
  <1>2. Thr!OwnId /\ Thr!VectorKept
    BY DEF ThreadsInv, ArgumentsInv, VectorInv, Thr!OwnId, Thr!VectorKept, Thr!Ids, Thr!Nobody
  <1>3. Thr!LinesWhole
    BY DEF ThreadsInv, PrintInv, Thr!LinesWhole
  <1>. QED  BY <1>1, <1>2, <1>3

\* When main reports, every thread it started has ended, its tile in the result; a thread
\* works under its own id; no two are in the middle of their lines; and what a thread
\* stores after it has yielded is what it loaded: for any number of threads and harts.
THEOREM ThreadsAreSound == MCSpec => []ThreadsSound
  <1>. DEFINE TInv == program = "threads" => ThreadsInv
  <1>1. MCInit => TInv
    BY ThreadsStart DEF MCInit
  <1>2. TInv /\ [MCNext]_mcVars => TInv'
    <2>. SUFFICES ASSUME TInv, [MCNext]_mcVars, program' = "threads" PROVE ThreadsInv'
      OBVIOUS
    <2>1. program = "threads" /\ [Thr!Next]_threadsVars
      BY DEF MCNext, mcVars, threadVars
    <2>. QED  BY <2>1, ThreadsKeep
  <1>3. TInv => ThreadsSound
    BY ThreadsImplied DEF ThreadsSound
  <1>. QED  BY <1>1, <1>2, <1>3, PTL DEF MCSpec

-----------------------------------------------------------------------------
(* ExecutorRunner: the inductive invariant. *)

ModelTyped ==
    /\ model.sig \in Seq(Nat) /\ Len(model.sig) >= 1
    /\ model.baked \in Seq(Nat) /\ model.plan \in Nat

ExecTypes ==
    /\ ModelTyped
    /\ slot \in Nat /\ logged \in BOOLEAN
    /\ epc \in {"main", "panic", "model", "load", "trap", "prepare", "execute", "outputs", "reboot"}

\* Input j is not used up and, where one is baked in for it, is the baked one.
Fresh(on_, j) == on_[j] # "spent" /\ (j <= Exec!BakedCount => on_[j] = "baked")

\* The inputs before the one being prepared, or all of them when an execution is due, are
\* fresh or an error was logged.
PreparedUpTo(last) ==
    \A j \in 1 .. last : model.sig[j] > 0 => logged \/ Fresh(planned, j)

PrepareInv ==
    /\ epc \in {"prepare", "execute"} => DOMAIN planned = 1 .. Len(model.sig)
    /\ epc \in {"main", "model", "load"} => slot = 0
    /\ epc = "prepare" => slot <= Len(model.sig) /\ PreparedUpTo(slot - 1)
    /\ epc \in {"execute", "outputs"} => slot = 0
    /\ epc = "execute" => PreparedUpTo(Len(model.sig))

ExecInv == ExecTypes /\ PrepareInv /\ Exec!QuietMeansFresh

\* The models of ModelSet are typed.
LEMMA ModelsTyped ==
    ASSUME NEW x \in Exec!ModelSet
    PROVE  /\ x.sig \in Seq(Nat) /\ Len(x.sig) >= 1
           /\ x.baked \in Seq(Nat) /\ x.plan \in Nat
  <1>1. /\ x.sig \in Exec!Seqs(Sizes \union {0}, 1, MAX_SIG)
        /\ x.baked \in Exec!Seqs(Sizes, 0, MAX_BAKED + 1) /\ x.plan \in Sizes
    BY DEF Exec!ModelSet
  <1>2. PICK c \in 1 .. MAX_SIG : x.sig \in [1 .. c -> Sizes \union {0}]
    BY <1>1 DEF Exec!Seqs
  <1>3. PICK d \in 0 .. MAX_BAKED + 1 : x.baked \in [1 .. d -> Sizes]
    BY <1>1 DEF Exec!Seqs
  <1>4. x.sig \in [1 .. c -> Nat] /\ x.baked \in [1 .. d -> Nat] /\ c \in Nat /\ d \in Nat /\ c >= 1
    <2>1. Sizes \union {0} \subseteq Nat /\ Sizes \subseteq Nat
      BY SamplesAssumption
    <2>2. x.sig \in [1 .. c -> Nat]
      BY <1>2, <2>1
    <2>3. x.baked \in [1 .. d -> Nat]
      BY <1>3, <2>1
    <2>4. c \in Nat /\ d \in Nat /\ c >= 1
      BY <1>2, <1>3, SamplesAssumption
    <2>. QED  BY <2>2, <2>3, <2>4
  <1>5. x.sig \in Seq(Nat) /\ x.baked \in Seq(Nat) /\ Len(x.sig) = c
    <2>1. \A f, len : len \in Nat /\ f \in [1 .. len -> Nat] => f \in Seq(Nat)
      OBVIOUS
    <2>2. x.sig \in Seq(Nat) /\ DOMAIN x.sig = 1 .. c /\ x.baked \in Seq(Nat)
      BY <1>4, <2>1
    <2>3. \A f \in Seq(Nat) : \A len \in Nat : DOMAIN f = 1 .. len => Len(f) = len
      OBVIOUS
    <2>. QED  BY <1>4, <2>2, <2>3
  <1>. QED  BY <1>1, <1>4, <1>5, SamplesAssumption

\* The invariant of ExecutorRunner holds when the image starts.
LEMMA ExecStart == ASSUME Exec!Init PROVE ExecInv
  <1>1. ModelTyped
    BY ModelsTyped DEF Exec!Init, ModelTyped
  <1>2. ExecTypes
    BY <1>1 DEF Exec!Init, ExecTypes
  <1>. QED  BY <1>2 DEF ExecInv, Exec!Init, PrepareInv, Exec!QuietMeansFresh

\* The steps up to the loaded method touch no input, and no model.
LEMMA LoadStepsKeep ==
    ASSUME ExecInv,
           Exec!Start \/ Exec!Panic \/ Exec!LoadModel \/ Exec!LoadAllocates \/ Exec!LoadFails
    PROVE  ExecInv'
  <1>1. /\ UNCHANGED <<model, slot, planned, logged, ran>>
        /\ epc \in {"main", "model", "load"} /\ epc' \in {"model", "panic", "load", "trap"}
    BY DEF Exec!Start, Exec!Panic, Exec!LoadModel, Exec!LoadAllocates, Exec!LoadFails
  <1>. QED
    BY <1>1 DEF ExecInv, ExecTypes, ModelTyped, PrepareInv, Exec!QuietMeansFresh, Exec!BakedCount

\* The method is loaded: its inputs hold what the pool held, and none is prepared yet.
LEMMA LoadMethodKeeps == ASSUME ExecInv, Exec!LoadMethod PROVE ExecInv'
  <1>1. /\ epc = "load" /\ epc' = "prepare"
        /\ planned' = [j \in DOMAIN model.sig |-> "left"]
        /\ UNCHANGED <<model, slot, logged, ran>>
    BY DEF Exec!LoadMethod
  <1>2. /\ ModelTyped /\ DOMAIN model.sig = 1 .. Len(model.sig) /\ slot = 0
    BY <1>1 DEF ExecInv, ExecTypes, ModelTyped, PrepareInv
  <1>3. ExecTypes'
    BY <1>1 DEF ExecInv, ExecTypes, ModelTyped
  <1>4. PrepareInv'
    BY <1>1, <1>2 DEF PrepareInv, ModelTyped, PreparedUpTo
  <1>5. Exec!QuietMeansFresh'
    BY <1>1 DEF ExecInv, Exec!QuietMeansFresh, Exec!BakedCount
  <1>. QED  BY <1>3, <1>4, <1>5 DEF ExecInv

\* A preparation that fails has logged it, and the execution goes on.
LEMMA PrepareFailsKeeps ==
    ASSUME ExecInv, epc = "prepare", Exec!PrepareFails, UNCHANGED <<model, planned, ran>>
    PROVE  ExecInv'
  <1>1. epc' = "execute" /\ slot' = 0 /\ logged' = TRUE
    BY DEF Exec!PrepareFails
  <1>2. ExecTypes'
    BY <1>1 DEF ExecInv, ExecTypes, ModelTyped
  <1>3. PrepareInv'
    BY <1>1 DEF ExecInv, PrepareInv, PreparedUpTo
  <1>4. Exec!QuietMeansFresh'
    BY DEF ExecInv, Exec!QuietMeansFresh, Exec!BakedCount
  <1>. QED  BY <1>2, <1>3, <1>4 DEF ExecInv

\* When the input at slot is fresh, logged or no tensor, the preparation goes on to the
\* next one or to the execution.
LEMMA NextInputKeeps ==
    ASSUME ExecInv, epc = "prepare", slot > 0, Exec!NextInput, UNCHANGED <<model, ran>>,
           logged' \in BOOLEAN, logged => logged',
           DOMAIN planned' = DOMAIN planned,
           \A j \in 1 .. Len(model.sig) : j # slot => planned'[j] = planned[j],
           model.sig[slot] > 0 => logged' \/ Fresh(planned', slot)
    PROVE  ExecInv'
  <1>1. slot \in Nat /\ slot <= Len(model.sig) /\ Len(model.sig) \in Nat
    BY DEF ExecInv, ExecTypes, ModelTyped, PrepareInv
  <1>2. \/ slot < Len(model.sig) /\ slot' = slot + 1 /\ epc' = "prepare"
        \/ slot = Len(model.sig) /\ slot' = 0 /\ epc' = "execute"
    <2>1. IF slot < Len(model.sig) THEN slot' = slot + 1 /\ epc' = "prepare" ELSE slot' = 0 /\ epc' = "execute"
      BY DEF Exec!NextInput
    <2>2. slot < Len(model.sig) \/ slot = Len(model.sig)
      <3>1. \A x, y \in Nat : x <= y => x < y \/ x = y
        OBVIOUS
      <3>. QED  BY <1>1, <3>1, Zenon
    <2>. QED  BY <2>1, <2>2
  <1>3. ExecTypes'
    BY <1>1, <1>2 DEF ExecInv, ExecTypes, ModelTyped
  <1>4. Exec!BakedCount' = Exec!BakedCount
    BY DEF Exec!BakedCount
  <1>5. \A j \in 1 .. slot : model.sig[j] > 0 => logged' \/ Fresh(planned', j)
    <2>. TAKE j \in 1 .. slot
    <2>1. CASE j = slot
      BY <2>1
    <2>2. CASE j # slot
      <3>1. j \in 1 .. slot - 1 /\ j \in 1 .. Len(model.sig)
        BY <1>1, <2>2
      <3>. QED  BY <2>2, <3>1 DEF ExecInv, PrepareInv, PreparedUpTo, Fresh
    <2>. QED  BY <2>1, <2>2
  <1>6. PrepareInv'
    <2>1. slot' - 1 = slot \/ epc' = "execute"
      BY <1>1, <1>2
    <2>. QED  BY <1>1, <1>2, <1>4, <1>5, <2>1 DEF ExecInv, PrepareInv, PreparedUpTo, Fresh
  <1>7. Exec!QuietMeansFresh'
    BY <1>4 DEF ExecInv, Exec!QuietMeansFresh
  <1>. QED  BY <1>3, <1>6, <1>7 DEF ExecInv

\* The table of pointers.
LEMMA PreparePointersKeeps == ASSUME ExecInv, Exec!PreparePointers PROVE ExecInv'
  <1>1. Len(model.sig) >= 1 /\ Len(model.sig) \in Nat
    BY DEF ExecInv, ExecTypes, ModelTyped
  <1>2. /\ epc = "prepare" /\ slot = 0 /\ UNCHANGED <<model, planned, ran>>
        /\ \/ slot' = 1 /\ UNCHANGED <<epc, logged>>
           \/ Exec!PrepareFails
    BY DEF Exec!PreparePointers
  <1>3. CASE slot' = 1 /\ UNCHANGED <<epc, logged>>
    <2>1. ExecTypes'
      BY <1>2, <1>3 DEF ExecInv, ExecTypes, ModelTyped
    <2>2. PrepareInv'
      BY <1>1, <1>2, <1>3 DEF ExecInv, PrepareInv, PreparedUpTo
    <2>3. Exec!QuietMeansFresh'
      BY <1>2 DEF ExecInv, Exec!QuietMeansFresh, Exec!BakedCount
    <2>. QED  BY <2>1, <2>2, <2>3 DEF ExecInv
  <1>4. CASE Exec!PrepareFails
    BY <1>2, <1>4, PrepareFailsKeeps
  <1>. QED  BY <1>2, <1>3, <1>4

\* An input that is no tensor is skipped.
LEMMA SkipNonTensorKeeps == ASSUME ExecInv, Exec!SkipNonTensor PROVE ExecInv'
  <1>1. /\ epc = "prepare" /\ slot > 0 /\ model.sig[slot] = 0 /\ Exec!NextInput
        /\ UNCHANGED <<model, planned, logged, ran>>
    BY DEF Exec!SkipNonTensor
  <1>2. logged' \in BOOLEAN
    BY <1>1 DEF ExecInv, ExecTypes
  <1>. QED  BY <1>1, <1>2, NextInputKeeps

\* There is no room for an input.
LEMMA NoRoomKeeps == ASSUME ExecInv, Exec!NoRoom PROVE ExecInv'
  <1>1. epc = "prepare" /\ Exec!PrepareFails /\ UNCHANGED <<model, planned, ran>>
    BY DEF Exec!NoRoom
  <1>. QED  BY <1>1, PrepareFailsKeeps

\* An input is prepared, or refused.
LEMMA PrepareInputKeeps == ASSUME ExecInv, Exec!PrepareInput PROVE ExecInv'
  <1>1. /\ epc = "prepare" /\ slot > 0
        /\ UNCHANGED <<model, ran>>
        /\ \/ /\ \E c \in Exec!Filled : planned' = [planned EXCEPT ![slot] = c]
              /\ logged' = (logged \/ Exec!Mismatch)
              /\ Exec!NextInput
           \/ Exec!PrepareFails /\ UNCHANGED planned
    BY DEF Exec!PrepareInput
  <1>2. /\ slot \in 1 .. Len(model.sig) /\ model.sig[slot] \in Nat
        /\ DOMAIN planned = 1 .. Len(model.sig)
    BY <1>1 DEF ExecInv, ExecTypes, ModelTyped, PrepareInv
  <1>3. CASE /\ \E c \in Exec!Filled : planned' = [planned EXCEPT ![slot] = c]
             /\ logged' = (logged \/ Exec!Mismatch)
             /\ Exec!NextInput
    <2>1. PICK c \in Exec!Filled : planned' = [planned EXCEPT ![slot] = c]
      BY <1>3
    <2>2. /\ DOMAIN planned' = DOMAIN planned /\ planned'[slot] = c
          /\ \A j \in 1 .. Len(model.sig) : j # slot => planned'[j] = planned[j]
      BY <1>2, <2>1
    <2>3. logged' \in BOOLEAN /\ (logged => logged') /\ (Exec!Mismatch => logged')
      BY <1>3 DEF ExecInv, ExecTypes, Exec!Mismatch
    <2>4. c # "spent" /\ (slot <= Exec!BakedCount /\ ~Exec!Mismatch => c = "baked")
      <3>1. slot > 0 /\ slot \in Nat /\ Exec!BakedCount \in Nat
        BY <1>1, <1>2, SamplesAssumption DEF Exec!BakedCount, ExecInv, ExecTypes, ModelTyped
      <3>2. CASE slot <= Exec!BakedCount /\ ~Exec!Mismatch
        <4>1. Exec!BakedCount # 0
          BY <3>1, <3>2
        <4>. QED  BY <2>1, <3>2, <4>1 DEF Exec!Filled
      <3>3. CASE ~(slot <= Exec!BakedCount /\ ~Exec!Mismatch)
        <4>1. Exec!Filled \in {{"ones", "left"}, {"left"}}
          BY <3>3 DEF Exec!Filled
        <4>. QED  BY <2>1, <3>3, <4>1
      <3>. QED  BY <3>2, <3>3
    <2>5. logged' \/ Fresh(planned', slot)
      BY <2>2, <2>3, <2>4 DEF Fresh
    <2>. QED  BY <1>1, <1>3, <2>2, <2>3, <2>5, NextInputKeeps
  <1>4. CASE Exec!PrepareFails /\ UNCHANGED planned
    BY <1>1, <1>4, PrepareFailsKeeps
  <1>. QED  BY <1>1, <1>3, <1>4

\* An execution uses the inputs up; before the next one they are prepared again.
LEMMA ExecuteKeeps == ASSUME ExecInv, Exec!Execute PROVE ExecInv'
  <1>1. /\ epc = "execute" /\ ran' = [on |-> planned, logged |-> logged]
        /\ planned' = [j \in DOMAIN planned |-> "spent"]
        /\ epc' \in {"prepare", "outputs"} /\ logged' \in BOOLEAN
        /\ UNCHANGED <<model, slot>>
    BY DEF Exec!Execute, ExecInv, ExecTypes
  <1>2. /\ slot = 0 /\ DOMAIN planned = 1 .. Len(model.sig) /\ Len(model.sig) \in Nat
        /\ PreparedUpTo(Len(model.sig))
    BY <1>1 DEF ExecInv, PrepareInv, ExecTypes, ModelTyped
  <1>3. ExecTypes'
    BY <1>1 DEF ExecInv, ExecTypes, ModelTyped
  <1>4. PrepareInv'
    BY <1>1, <1>2 DEF PrepareInv, PreparedUpTo
  <1>5. Exec!QuietMeansFresh'
    <2>1. ran'.on = planned /\ ran'.logged = logged /\ Exec!BakedCount' = Exec!BakedCount
      BY <1>1 DEF Exec!BakedCount
    <2>2. DOMAIN model.sig = 1 .. Len(model.sig)
      BY DEF ExecInv, ExecTypes, ModelTyped
    <2>3. ~logged => \A j \in DOMAIN model.sig : model.sig[j] > 0 => Fresh(planned, j)
      BY <1>2, <2>2 DEF PreparedUpTo
    <2>. QED  BY <1>1, <2>1, <2>3 DEF Exec!QuietMeansFresh, Fresh
  <1>. QED  BY <1>3, <1>4, <1>5 DEF ExecInv

\* The next model, or the reboot.
LEMMA OutputsKeeps == ASSUME ExecInv, Exec!Outputs PROVE ExecInv'
  <1>1. /\ epc = "outputs" /\ slot' = slot /\ logged' = FALSE /\ ran' = Exec!NotRun
        /\ epc' \in {"model", "reboot"}
        /\ model' \in Exec!ModelSet \/ model' = model
    BY DEF Exec!Outputs
  <1>2. ModelTyped'
    BY <1>1, ModelsTyped DEF ExecInv, ExecTypes, ModelTyped
  <1>3. ExecTypes'
    BY <1>1, <1>2 DEF ExecInv, ExecTypes
  <1>4. PrepareInv'
    BY <1>1 DEF ExecInv, PrepareInv
  <1>5. Exec!QuietMeansFresh'
    BY <1>1 DEF Exec!QuietMeansFresh
  <1>. QED  BY <1>3, <1>4, <1>5 DEF ExecInv

\* Every step of ExecutorRunner keeps the invariant.
LEMMA ExecKeeps == ASSUME ExecInv, [Exec!Next]_execVars PROVE ExecInv'
  <1>1. CASE Exec!Next
    BY <1>1, LoadStepsKeep, LoadMethodKeeps, PreparePointersKeeps, SkipNonTensorKeeps,
       NoRoomKeeps, PrepareInputKeeps, ExecuteKeeps, OutputsKeeps DEF Exec!Next
  <1>2. CASE UNCHANGED execVars
    BY <1>2 DEF execVars, ExecInv, ExecTypes, ModelTyped, PrepareInv, PreparedUpTo, Fresh,
                Exec!QuietMeansFresh, Exec!BakedCount
  <1>. QED  BY <1>1, <1>2

\* An execution for which nothing was logged ran on inputs established for it: whatever the
\* pool's size, what load_method takes out of it, and the models.
THEOREM RunnerIsSound == MCSpec => []ExecSound
  <1>. DEFINE EInv == program = "exec" => ExecInv
  <1>1. MCInit => EInv
    BY ExecStart DEF MCInit
  <1>2. EInv /\ [MCNext]_mcVars => EInv'
    <2>. SUFFICES ASSUME EInv, [MCNext]_mcVars, program' = "exec" PROVE ExecInv'
      OBVIOUS
    <2>1. program = "exec" /\ [Exec!Next]_execVars
      BY DEF MCNext, mcVars, runnerVars
    <2>. QED  BY <2>1, ExecKeeps
  <1>3. EInv => ExecSound
    BY DEF ExecInv, ExecSound
  <1>. QED  BY <1>1, <1>2, <1>3, PTL DEF MCSpec

-----------------------------------------------------------------------------
(* MicroRosApps: the inductive invariant. *)

NodeStates == {"idle", "options", "ping", "support", "entities", "executor", "spin", "end"}

AppTypes ==
    /\ app \in {"local", "multi"} /\ mainpc \in {"start", "join", "reboot"}
    /\ nodepc \in [Apps!Nodes -> NodeStates]
    /\ options \in [Apps!Nodes -> Int] /\ session \in [Apps!Nodes -> Int]
    /\ pub_msg \in [Apps!Nodes -> Nat]
    /\ queue \in [Apps!Topics -> Seq(Nat)] /\ pongs \in Seq(Nat)

\* A thread's transport is the one it has chosen itself, if any.
TransportInv ==
    \A t \in Apps!Nodes : /\ options[t] \in {Apps!NONE, Apps!SessionIdx[t]}
                          /\ session[t] \in {Apps!NONE, Apps!SessionIdx[t]}

\* Until its executor spins, node_a has sent nothing; micro_ros_multinode has one thread.
SilentInv ==
    /\ mainpc = "start" => nodepc["a"] = "idle"
    /\ nodepc["a"] \notin {"spin", "end"} => pub_msg["a"] = 0
    /\ app = "multi" => nodepc["b"] \in {"idle", "end"}

Rising(s) == \A j \in 1 .. Len(s) : \A u \in 1 .. j - 1 : s[u] < s[j]

\* The pongs received, the pongs on their way and the pings on their way are one rising
\* chain: a ping is answered with its successor, and none is above v, the next ping.
Chain(got, pong, ping, v) ==
    /\ Rising(got) /\ Rising(pong) /\ Rising(ping)
    /\ \A j \in 1 .. Len(got) :
         /\ got[j] >= 1 /\ got[j] <= v
         /\ \A u \in 1 .. Len(pong) : got[j] < pong[u]
         /\ \A u \in 1 .. Len(ping) : got[j] <= ping[u]
    /\ \A j \in 1 .. Len(pong) :
         /\ pong[j] >= 1 /\ pong[j] <= v
         /\ \A u \in 1 .. Len(ping) : pong[j] <= ping[u]
    /\ \A j \in 1 .. Len(ping) : ping[j] < v

AppsInv ==
    /\ AppTypes /\ TransportInv /\ SilentInv
    /\ Chain(pongs, queue["pong"], queue["ping"], pub_msg["a"])

\* A rising sequence without its head rises above it.
LEMMA RisingTail ==
    ASSUME NEW s \in Seq(Nat), s # <<>>, Rising(s)
    PROVE  /\ Tail(s) \in Seq(Nat) /\ Head(s) \in Nat /\ Head(s) = s[1] /\ 1 \in 1 .. Len(s)
           /\ Rising(Tail(s))
           /\ \A j \in 1 .. Len(Tail(s)) :
                j + 1 \in 1 .. Len(s) /\ Tail(s)[j] = s[j + 1] /\ Head(s) < Tail(s)[j]
  <1>. DEFINE r == Tail(s)
  <1>1. /\ r \in Seq(Nat) /\ Len(r) = Len(s) - 1 /\ Len(s) \in Nat /\ Len(s) >= 1
        /\ \A j \in 1 .. Len(r) : r[j] = s[j + 1]
        /\ Head(s) = s[1] /\ s[1] \in Nat
    OBVIOUS
  <1>. HIDE DEF r
  <1>2. 1 \in 1 .. Len(s)
    BY <1>1
  <1>3. ASSUME NEW j \in 1 .. Len(r)
        PROVE  /\ j + 1 \in 1 .. Len(s) /\ r[j] = s[j + 1] /\ s[1] < r[j]
               /\ \A u \in 1 .. j - 1 : r[u] < r[j]
    <2>1. j + 1 \in 1 .. Len(s) /\ r[j] = s[j + 1] /\ 1 \in 1 .. (j + 1) - 1
      BY <1>1
    <2>2. \A u \in 1 .. (j + 1) - 1 : s[u] < s[j + 1]
      BY <2>1 DEF Rising
    <2>3. ASSUME NEW u \in 1 .. j - 1 PROVE r[u] < r[j]
      <3>1. u \in 1 .. Len(r) /\ u + 1 \in 1 .. (j + 1) - 1
        BY <1>1
      <3>. QED  BY <1>1, <2>1, <2>2, <3>1
    <2>. QED  BY <2>1, <2>2, <2>3
  <1>4. Rising(r)
    BY <1>3 DEF Rising
  <1>. QED  BY <1>1, <1>2, <1>3, <1>4 DEF r

\* A rising sequence rises further with a number above all of it.
LEMMA RisingAppend ==
    ASSUME NEW s \in Seq(Nat), NEW w \in Nat, Rising(s), \A j \in 1 .. Len(s) : s[j] < w
    PROVE  /\ Append(s, w) \in Seq(Nat) /\ Rising(Append(s, w))
           /\ \A j \in 1 .. Len(Append(s, w)) :
                Append(s, w)[j] = w \/ (j \in 1 .. Len(s) /\ Append(s, w)[j] = s[j])
  <1>. DEFINE q == Append(s, w)
  <1>1. /\ q \in Seq(Nat) /\ Len(q) = Len(s) + 1 /\ Len(s) \in Nat /\ q[Len(s) + 1] = w
        /\ \A j \in 1 .. Len(s) : q[j] = s[j]
    OBVIOUS
  <1>. HIDE DEF q
  <1>2. ASSUME NEW j \in 1 .. Len(q)
        PROVE  /\ q[j] = w \/ (j \in 1 .. Len(s) /\ q[j] = s[j])
               /\ \A u \in 1 .. j - 1 : q[u] < q[j]
    <2>1. CASE j = Len(s) + 1
      <3>1. q[j] = w /\ \A u \in 1 .. j - 1 : u \in 1 .. Len(s) /\ q[u] = s[u]
        BY <1>1, <2>1
      <3>. QED  BY <3>1
    <2>2. CASE j \in 1 .. Len(s)
      <3>1. q[j] = s[j] /\ \A u \in 1 .. j - 1 : u \in 1 .. Len(s) /\ q[u] = s[u]
        BY <1>1, <2>2
      <3>. QED  BY <2>2, <3>1 DEF Rising
    <2>. QED  BY <1>1, <2>1, <2>2
  <1>3. Rising(q)
    BY <1>2 DEF Rising
  <1>. QED  BY <1>1, <1>2, <1>3 DEF q

\* node_a sends a ping with the next number, and the publication may fail.
LEMMA ChainSend ==
    ASSUME NEW got \in Seq(Nat), NEW pong \in Seq(Nat), NEW ping \in Seq(Nat), NEW v \in Nat,
           Chain(got, pong, ping, v)
    PROVE  Chain(got, pong, ping, v + 1) /\ Chain(got, pong, Append(ping, v), v + 1)
  <1>1. Chain(got, pong, ping, v + 1)
    BY DEF Chain
  <1>. DEFINE r == Append(ping, v)
  <1>2. Rising(r) /\ \A j \in 1 .. Len(r) : r[j] = v \/ (j \in 1 .. Len(ping) /\ r[j] = ping[j])
    BY RisingAppend DEF Chain
  <1>. HIDE DEF r
  <1>3. ASSUME NEW j \in 1 .. Len(r) PROVE r[j] < v + 1
    <2>1. \A u \in 1 .. Len(ping) : ping[u] \in Nat /\ ping[u] < v
      BY DEF Chain
    <2>2. r[j] = v \/ (r[j] \in Nat /\ r[j] < v)
      BY <1>2, <2>1
    <2>. QED  BY <2>2
  <1>4. Chain(got, pong, r, v + 1)
    BY <1>1, <1>2, <1>3 DEF Chain
  <1>. QED  BY <1>1, <1>4 DEF r

\* node_b takes a ping and answers it with its successor, or fails to.
LEMMA ChainAnswer ==
    ASSUME NEW got \in Seq(Nat), NEW pong \in Seq(Nat), NEW ping \in Seq(Nat), NEW v \in Nat,
           Chain(got, pong, ping, v), ping # <<>>
    PROVE  /\ Chain(got, pong, Tail(ping), v)
           /\ Chain(got, Append(pong, Head(ping) + 1), Tail(ping), v)
  <1>. DEFINE r == Tail(ping)
              h == Head(ping)
              q == Append(pong, h + 1)
  <1>1. /\ r \in Seq(Nat) /\ h \in Nat /\ h = ping[1] /\ 1 \in 1 .. Len(ping) /\ Rising(r)
        /\ \A j \in 1 .. Len(r) : j + 1 \in 1 .. Len(ping) /\ r[j] = ping[j + 1] /\ h < r[j]
    BY RisingTail DEF Chain
  <1>2. /\ \A j \in 1 .. Len(got) : got[j] \in Nat /\ got[j] < h + 1
        /\ \A j \in 1 .. Len(pong) : pong[j] \in Nat /\ pong[j] < h + 1
        /\ h + 1 \in Nat /\ h + 1 >= 1 /\ h + 1 <= v
    BY <1>1 DEF Chain
  <1>3. /\ Rising(q)
        /\ \A j \in 1 .. Len(q) : q[j] = h + 1 \/ (j \in 1 .. Len(pong) /\ q[j] = pong[j])
    BY <1>2, RisingAppend DEF Chain
  <1>4. \A j \in 1 .. Len(r) : r[j] \in Nat /\ h + 1 <= r[j]
    BY <1>1
  <1>. HIDE DEF r, h, q
  <1>5. Chain(got, pong, r, v)
    BY <1>1 DEF Chain
  <1>6. \A j \in 1 .. Len(q) : /\ q[j] >= 1 /\ q[j] <= v
                               /\ \A u \in 1 .. Len(r) : q[j] <= r[u]
    BY <1>2, <1>3, <1>4, <1>5 DEF Chain
  <1>7. \A j \in 1 .. Len(got) : \A u \in 1 .. Len(q) : got[j] < q[u]
    BY <1>2, <1>3 DEF Chain
  <1>8. Chain(got, q, r, v)
    BY <1>3, <1>5, <1>6, <1>7 DEF Chain
  <1>. QED  BY <1>5, <1>8 DEF r, h, q

\* node_a receives a pong.
LEMMA ChainReceive ==
    ASSUME NEW got \in Seq(Nat), NEW pong \in Seq(Nat), NEW ping \in Seq(Nat), NEW v \in Nat,
           Chain(got, pong, ping, v), pong # <<>>
    PROVE  Chain(Append(got, Head(pong)), Tail(pong), ping, v)
  <1>. DEFINE r == Tail(pong)
              h == Head(pong)
              q == Append(got, h)
  <1>1. /\ r \in Seq(Nat) /\ h \in Nat /\ h = pong[1] /\ 1 \in 1 .. Len(pong) /\ Rising(r)
        /\ \A j \in 1 .. Len(r) : j + 1 \in 1 .. Len(pong) /\ r[j] = pong[j + 1] /\ h < r[j]
    BY RisingTail DEF Chain
  <1>2. \A j \in 1 .. Len(got) : got[j] < h
    BY <1>1 DEF Chain
  <1>3. /\ Rising(q)
        /\ \A j \in 1 .. Len(q) : q[j] = h \/ (j \in 1 .. Len(got) /\ q[j] = got[j])
    BY <1>1, <1>2, RisingAppend DEF Chain
  <1>. HIDE DEF r, h, q
  <1>4. \A j \in 1 .. Len(q) :
          /\ q[j] >= 1 /\ q[j] <= v
          /\ \A u \in 1 .. Len(r) : q[j] < r[u]
          /\ \A u \in 1 .. Len(ping) : q[j] <= ping[u]
    BY <1>1, <1>3 DEF Chain
  <1>5. \A j \in 1 .. Len(r) : /\ r[j] >= 1 /\ r[j] <= v
                               /\ \A u \in 1 .. Len(ping) : r[j] <= ping[u]
    BY <1>1 DEF Chain
  <1>6. Chain(q, r, ping, v)
    BY <1>1, <1>3, <1>4, <1>5 DEF Chain
  <1>. QED  BY <1>6 DEF r, h, q

\* A queue that is thrown away leaves a chain.
LEMMA ChainDrop ==
    ASSUME NEW got, NEW pong, NEW ping, NEW v, Chain(got, pong, ping, v)
    PROVE  Chain(got, <<>>, ping, v) /\ Chain(got, pong, <<>>, v)
  BY DEF Chain, Rising

\* The invariant of MicroRosApps holds when an image starts.
LEMMA AppsStart == ASSUME Apps!Init PROVE AppsInv
  <1>1. AppTypes
    BY DEF Apps!Init, AppTypes, NodeStates, Apps!NONE, Apps!Nodes, Apps!Topics
  <1>2. TransportInv
    BY DEF Apps!Init, TransportInv
  <1>3. SilentInv
    BY DEF Apps!Init, SilentInv, Apps!Nodes
  <1>4. Chain(pongs, queue["pong"], queue["ping"], pub_msg["a"])
    BY DEF Apps!Init, Chain, Rising, Apps!Topics
  <1>. QED  BY <1>1, <1>2, <1>3, <1>4 DEF AppsInv

\* What the invariant needs of a step that leaves the messages alone.
LEMMA QuietStepKeeps ==
    ASSUME AppsInv, UNCHANGED <<app, queue, pub_msg, pongs>>,
           mainpc' \in {"start", "join", "reboot"}, nodepc' \in [Apps!Nodes -> NodeStates],
           mainpc' = "start" => nodepc'["a"] = "idle",
           nodepc["a"] \in {"spin", "end"} => nodepc'["a"] \in {"spin", "end"},
           app = "multi" => nodepc'["b"] \in {"idle", "end"},
           \A t \in Apps!Nodes : /\ options'[t] \in {Apps!NONE, Apps!SessionIdx[t]}
                                 /\ session'[t] \in {Apps!NONE, Apps!SessionIdx[t]},
           options' \in [Apps!Nodes -> Int], session' \in [Apps!Nodes -> Int]
    PROVE  AppsInv'
  <1>1. AppTypes' /\ TransportInv'
    BY DEF AppsInv, AppTypes, TransportInv
  <1>2. SilentInv'
    BY DEF AppsInv, SilentInv
  <1>. QED  BY <1>1, <1>2 DEF AppsInv, Chain

\* main starts the threads, or joins them.
LEMMA MainAppKeeps == ASSUME AppsInv, Apps!MainStart \/ Apps!MainJoin PROVE AppsInv'
  <1>1. /\ UNCHANGED <<app, queue, pub_msg, pongs, options, session>>
        /\ mainpc' \in {"join", "reboot"}
        /\ nodepc' \in [Apps!Nodes -> NodeStates]
    BY DEF AppsInv, AppTypes, NodeStates, Apps!MainStart, Apps!MainJoin
  <1>2. nodepc["a"] \in {"spin", "end"} => nodepc'["a"] \in {"spin", "end"}
    BY DEF AppsInv, SilentInv, Apps!MainStart, Apps!MainJoin
  <1>3. app = "multi" => nodepc'["b"] \in {"idle", "end"}
    BY DEF AppsInv, SilentInv, Apps!MainStart, Apps!MainJoin, Apps!Nodes, Apps!Threads
  <1>. QED  BY <1>1, <1>2, <1>3, QuietStepKeeps DEF AppsInv, AppTypes, TransportInv

\* A thread that sets itself up, or gives up: its own options and its own session.
LEMMA SetupKeeps ==
    ASSUME AppsInv, NEW t \in Apps!Nodes,
           \/ Apps!SetTransport(t) \/ Apps!PingAnswered(t) \/ Apps!SupportInit(t)
           \/ Apps!CreateEntities(t) \/ Apps!SetupFails(t)
    PROVE  AppsInv'
  <1>1. /\ UNCHANGED <<app, queue, pub_msg, pongs, mainpc>>
        /\ options' = options \/ options' = [options EXCEPT ![t] = Apps!SessionIdx[t]]
        /\ session' = session \/ session' = [session EXCEPT ![t] = options[t]]
    BY DEF Apps!SetTransport, Apps!PingAnswered, Apps!SupportInit, Apps!CreateEntities,
           Apps!SetupFails
  <1>2. PICK s \in NodeStates :
          nodepc' = [nodepc EXCEPT ![t] = s] /\ nodepc[t] \notin {"idle", "spin", "end"}
    BY DEF NodeStates, Apps!SetTransport, Apps!PingAnswered, Apps!SupportInit,
           Apps!CreateEntities, Apps!SetupFails, Apps!At
  <1>3. /\ nodepc' \in [Apps!Nodes -> NodeStates] /\ mainpc' \in {"start", "join", "reboot"}
        /\ \A u \in Apps!Nodes : nodepc[u] \in {"idle", "spin", "end"} => nodepc'[u] = nodepc[u]
    BY <1>1, <1>2 DEF AppsInv, AppTypes
  <1>4. Apps!SessionIdx[t] \in Int
    BY DEF Apps!SessionIdx, Apps!Nodes
  <1>5. options' \in [Apps!Nodes -> Int] /\ session' \in [Apps!Nodes -> Int]
    BY <1>1, <1>4 DEF AppsInv, AppTypes
  <1>6. \A u \in Apps!Nodes : /\ options'[u] \in {Apps!NONE, Apps!SessionIdx[u]}
                              /\ session'[u] \in {Apps!NONE, Apps!SessionIdx[u]}
    BY <1>1 DEF AppsInv, AppTypes, TransportInv
  <1>7. mainpc' = "start" => nodepc'["a"] = "idle"
    BY <1>1, <1>3 DEF AppsInv, SilentInv, Apps!Nodes
  <1>8. /\ nodepc["a"] \in {"spin", "end"} => nodepc'["a"] \in {"spin", "end"}
        /\ app = "multi" => nodepc'["b"] \in {"idle", "end"}
    BY <1>3 DEF AppsInv, SilentInv, Apps!Nodes
  <1>. QED  BY <1>1, <1>3, <1>5, <1>6, <1>7, <1>8, QuietStepKeeps

\* A pass of an executor ends.
LEMMA PassKeeps == ASSUME AppsInv, NEW t \in Apps!Nodes, Apps!Pass(t) PROVE AppsInv'
  <1>1. UNCHANGED <<app, queue, pub_msg, pongs, options, session, mainpc, nodepc>>
    BY DEF Apps!Pass
  <1>. QED  BY <1>1, QuietStepKeeps DEF AppsInv, AppTypes, TransportInv, SilentInv

\* The executor is made: node_a's number is 0 before and after.
LEMMA CreateExecutorKeeps ==
    ASSUME AppsInv, NEW t \in Apps!Nodes, Apps!CreateExecutor(t)
    PROVE  AppsInv'
  <1>1. /\ nodepc[t] = "executor" /\ nodepc' = [nodepc EXCEPT ![t] = "spin"]
        /\ UNCHANGED <<app, mainpc, options, session, queue, pongs>>
        /\ pub_msg' = IF app = "local" THEN [pub_msg EXCEPT ![t] = 0] ELSE [s \in Apps!Nodes |-> 0]
    BY DEF Apps!CreateExecutor, Apps!At
  <1>2. t = "a" => pub_msg["a"] = 0
    BY <1>1 DEF AppsInv, SilentInv
  <1>3. t # "a" => t = "b" /\ app = "local"
    BY <1>1 DEF AppsInv, AppTypes, SilentInv, Apps!Nodes
  <1>4. pub_msg' \in [Apps!Nodes -> Nat] /\ pub_msg'["a"] = pub_msg["a"]
    BY <1>1, <1>2, <1>3 DEF AppsInv, AppTypes, Apps!Nodes
  <1>5. nodepc' \in [Apps!Nodes -> NodeStates]
    BY <1>1 DEF AppsInv, AppTypes, NodeStates
  <1>6. AppTypes' /\ TransportInv'
    BY <1>1, <1>4, <1>5 DEF AppsInv, AppTypes, TransportInv
  <1>7. SilentInv'
    <2>1. mainpc # "start" \/ t # "a"
      BY <1>1 DEF AppsInv, SilentInv
    <2>. QED  BY <1>1, <1>3, <1>4, <2>1 DEF AppsInv, AppTypes, SilentInv, Apps!Nodes
  <1>. QED  BY <1>1, <1>4, <1>6, <1>7 DEF AppsInv

\* What the invariant needs of a step that only moves messages.
LEMMA MessageStepKeeps ==
    ASSUME AppsInv, UNCHANGED <<app, mainpc, nodepc, options, session>>,
           queue' \in [Apps!Topics -> Seq(Nat)], pongs' \in Seq(Nat),
           pub_msg' \in [Apps!Nodes -> Nat], nodepc["a"] \in {"spin", "end"} \/ pub_msg'["a"] = 0,
           Chain(pongs, queue["pong"], queue["ping"], pub_msg["a"])'
    PROVE  AppsInv'
  <1>1. AppTypes' /\ TransportInv'
    BY DEF AppsInv, AppTypes, TransportInv
  <1>2. SilentInv'
    BY DEF AppsInv, SilentInv
  <1>. QED  BY <1>1, <1>2 DEF AppsInv

\* The parts of the chain are typed.
LEMMA ChainTyped ==
    ASSUME AppsInv
    PROVE  /\ pongs \in Seq(Nat) /\ queue["pong"] \in Seq(Nat) /\ queue["ping"] \in Seq(Nat)
           /\ pub_msg["a"] \in Nat /\ pub_msg["b"] \in Nat
           /\ Chain(pongs, queue["pong"], queue["ping"], pub_msg["a"])
  BY DEF AppsInv, AppTypes, Apps!Topics, Apps!Nodes

\* node_a's timer.
LEMMA TimerAKeeps == ASSUME AppsInv, Apps!TimerA PROVE AppsInv'
  <1>1. /\ nodepc["a"] = "spin" /\ UNCHANGED <<app, mainpc, nodepc, options, session, pongs>>
        /\ pub_msg' = [pub_msg EXCEPT !["a"] = @ + 1]
        /\ queue' = queue \/ queue' = [queue EXCEPT !["ping"] = Append(@, pub_msg["a"])]
    BY DEF Apps!TimerA, Apps!Spinning, Apps!Published, Apps!Publishes
  <1>2. pub_msg' \in [Apps!Nodes -> Nat] /\ pub_msg'["a"] = pub_msg["a"] + 1
    BY <1>1, ChainTyped DEF AppsInv, AppTypes, Apps!Nodes
  <1>3. /\ queue' \in [Apps!Topics -> Seq(Nat)] /\ queue'["pong"] = queue["pong"]
        /\ queue'["ping"] \in {queue["ping"], Append(queue["ping"], pub_msg["a"])}
    <2>1. Append(queue["ping"], pub_msg["a"]) \in Seq(Nat)
      BY ChainTyped
    <2>2. queue \in [Apps!Topics -> Seq(Nat)]
      BY DEF AppsInv, AppTypes
    <2>. QED  BY <1>1, <2>1, <2>2 DEF Apps!Topics
  <1>4. Chain(pongs, queue["pong"], queue["ping"], pub_msg["a"])'
    <2>1. /\ Chain(pongs, queue["pong"], queue["ping"], pub_msg["a"] + 1)
          /\ Chain(pongs, queue["pong"], Append(queue["ping"], pub_msg["a"]), pub_msg["a"] + 1)
      BY ChainTyped, ChainSend
    <2>. QED  BY <1>1, <1>2, <1>3, <2>1
  <1>. QED  BY <1>1, <1>2, <1>3, <1>4, MessageStepKeeps DEF AppsInv, AppTypes

\* The second timer of micro_ros_multinode.
LEMMA TimerBKeeps == ASSUME AppsInv, Apps!TimerB PROVE AppsInv'
  <1>1. /\ nodepc["a"] = "spin" /\ UNCHANGED <<app, mainpc, nodepc, options, session, queue, pongs>>
        /\ pub_msg' = [pub_msg EXCEPT !["b"] = @ + 10]
    BY DEF Apps!TimerB, Apps!Spinning
  <1>2. pub_msg' \in [Apps!Nodes -> Nat] /\ pub_msg'["a"] = pub_msg["a"]
    BY <1>1, ChainTyped DEF AppsInv, AppTypes, Apps!Nodes
  <1>3. Chain(pongs, queue["pong"], queue["ping"], pub_msg["a"])'
    BY <1>1, <1>2, ChainTyped
  <1>. QED  BY <1>1, <1>2, <1>3, MessageStepKeeps DEF AppsInv, AppTypes

\* node_a receives a pong.
LEMMA OnPongKeeps == ASSUME AppsInv, Apps!OnPong PROVE AppsInv'
  <1>1. /\ nodepc["a"] = "spin" /\ UNCHANGED <<app, mainpc, nodepc, options, session, pub_msg>>
        /\ queue["pong"] # <<>> /\ pongs' = Append(pongs, Head(queue["pong"]))
        /\ queue' = [queue EXCEPT !["pong"] = Tail(@)]
    BY DEF Apps!OnPong, Apps!Spinning
  <1>2. Tail(queue["pong"]) \in Seq(Nat) /\ Head(queue["pong"]) \in Nat
    BY <1>1, ChainTyped
  <1>3. /\ queue' \in [Apps!Topics -> Seq(Nat)] /\ pongs' \in Seq(Nat)
        /\ queue'["pong"] = Tail(queue["pong"]) /\ queue'["ping"] = queue["ping"]
    BY <1>1, <1>2, ChainTyped DEF AppsInv, AppTypes, Apps!Topics
  <1>4. Chain(pongs, queue["pong"], queue["ping"], pub_msg["a"])'
    BY <1>1, <1>3, ChainTyped, ChainReceive
  <1>. QED  BY <1>1, <1>3, <1>4, MessageStepKeeps DEF AppsInv, AppTypes

\* node_b receives a ping and answers it.
LEMMA OnPingKeeps == ASSUME AppsInv, Apps!OnPing PROVE AppsInv'
  <1>. DEFINE w == Head(queue["ping"]) + 1
              q == [queue EXCEPT !["ping"] = Tail(@)]
  <1>1. /\ UNCHANGED <<app, mainpc, nodepc, options, session, pongs>>
        /\ queue["ping"] # <<>> /\ pub_msg' = [pub_msg EXCEPT !["b"] = w]
        /\ queue' \in Apps!Published("b", q, pub_msg'["b"])
    BY DEF Apps!OnPing
  <1>2. Tail(queue["ping"]) \in Seq(Nat) /\ Head(queue["ping"]) \in Nat /\ w \in Nat
    BY <1>1, ChainTyped
  <1>3. pub_msg' \in [Apps!Nodes -> Nat] /\ pub_msg'["a"] = pub_msg["a"] /\ pub_msg'["b"] = w
    BY <1>1, <1>2 DEF AppsInv, AppTypes, Apps!Nodes
  <1>4. /\ q \in [Apps!Topics -> Seq(Nat)] /\ q["ping"] = Tail(queue["ping"])
        /\ q["pong"] = queue["pong"]
    BY <1>2 DEF AppsInv, AppTypes, Apps!Topics
  <1>. HIDE DEF w, q
  <1>5. queue' = q \/ queue' = [q EXCEPT !["pong"] = Append(@, w)]
    BY <1>1, <1>3 DEF Apps!Published, Apps!Publishes
  <1>6. /\ queue' \in [Apps!Topics -> Seq(Nat)] /\ queue'["ping"] = Tail(queue["ping"])
        /\ queue'["pong"] \in {queue["pong"], Append(queue["pong"], w)}
    <2>1. Append(queue["pong"], w) \in Seq(Nat)
      BY <1>2, ChainTyped
    <2>. QED  BY <1>4, <1>5, <2>1 DEF Apps!Topics
  <1>7. Chain(pongs, queue["pong"], queue["ping"], pub_msg["a"])'
    <2>1. /\ Chain(pongs, queue["pong"], Tail(queue["ping"]), pub_msg["a"])
          /\ Chain(pongs, Append(queue["pong"], w), Tail(queue["ping"]), pub_msg["a"])
      BY <1>1, ChainTyped, ChainAnswer DEF w
    <2>. QED  BY <1>1, <1>3, <1>6, <2>1
  <1>8. nodepc["a"] \in {"spin", "end"} \/ pub_msg'["a"] = 0
    BY <1>3 DEF AppsInv, SilentInv
  <1>. QED  BY <1>1, <1>3, <1>6, <1>7, <1>8, MessageStepKeeps DEF AppsInv, AppTypes

\* The time is over: the session is closed and its queue thrown away.
LEMMA FinishKeeps == ASSUME AppsInv, NEW t \in Apps!Nodes, Apps!Finish(t) PROVE AppsInv'
  <1>1. /\ nodepc[t] = "spin" /\ nodepc' = [nodepc EXCEPT ![t] = "end"]
        /\ queue' = [queue EXCEPT ![Apps!Subscribes[t]] = <<>>]
        /\ session' = [session EXCEPT ![t] = Apps!NONE]
        /\ UNCHANGED <<app, mainpc, options, pub_msg, pongs>>
    BY DEF Apps!Finish, Apps!At
  <1>2. /\ nodepc' \in [Apps!Nodes -> NodeStates] /\ session' \in [Apps!Nodes -> Int]
        /\ queue' \in [Apps!Topics -> Seq(Nat)]
    <2>1. <<>> \in Seq(Nat) /\ Apps!NONE \in Int /\ "end" \in NodeStates
      BY DEF Apps!NONE, NodeStates
    <2>. QED  BY <1>1, <2>1 DEF AppsInv, AppTypes
  <1>3. AppTypes' /\ TransportInv'
    BY <1>1, <1>2 DEF AppsInv, AppTypes, TransportInv
  <1>4. SilentInv'
    BY <1>1 DEF AppsInv, AppTypes, SilentInv, Apps!Nodes
  <1>5. /\ queue'["pong"] \in {queue["pong"], <<>>} /\ queue'["ping"] \in {queue["ping"], <<>>}
        /\ queue'["pong"] = queue["pong"] \/ queue'["ping"] = queue["ping"]
    BY <1>1 DEF AppsInv, AppTypes, Apps!Subscribes, Apps!Topics, Apps!Nodes
  <1>6. Chain(pongs, queue["pong"], queue["ping"], pub_msg["a"])'
    BY <1>1, <1>5, ChainTyped, ChainDrop
  <1>. QED  BY <1>3, <1>4, <1>6 DEF AppsInv

\* Every step of MicroRosApps keeps the invariant.
LEMMA AppsKeep == ASSUME AppsInv, [Apps!Next]_appsVars PROVE AppsInv'
  <1>1. CASE Apps!Next
    BY <1>1, MainAppKeeps, SetupKeeps, CreateExecutorKeeps, PassKeeps, FinishKeeps, TimerAKeeps,
       TimerBKeeps, OnPongKeeps, OnPingKeeps DEF Apps!Next
  <1>2. CASE UNCHANGED appsVars
    BY <1>2 DEF appsVars, AppsInv, AppTypes, TransportInv, SilentInv
  <1>. QED  BY <1>1, <1>2

\* The sessions of micro_ros_local, opened by two threads at the same time, are each on
\* their own queue of the loopback transport, and node_a receives pongs only for pings
\* that it sent, in their order: for any queue and any running time.
THEOREM AppsAreSound == MCSpec => []AppsSound
  <1>. DEFINE PInv == program = "apps" => AppsInv
  <1>1. MCInit => PInv
    BY AppsStart DEF MCInit
  <1>2. PInv /\ [MCNext]_mcVars => PInv'
    <2>. SUFFICES ASSUME PInv, [MCNext]_mcVars, program' = "apps" PROVE AppsInv'
      OBVIOUS
    <2>1. program = "apps" /\ [Apps!Next]_appsVars
      BY DEF MCNext, mcVars
    <2>. QED  BY <2>1, AppsKeep
  <1>3. PInv => AppsSound
    <2>. SUFFICES ASSUME AppsInv PROVE Apps!SessionsApart /\ Apps!PongsAnswerPings
      BY DEF AppsSound
    <2>1. Apps!SessionsApart
      BY DEF AppsInv, TransportInv, Apps!SessionsApart
    <2>2. DOMAIN pongs = 1 .. Len(pongs) /\ \A j \in 1 .. Len(pongs) : pongs[j] \in Nat
      BY ChainTyped
    <2>3. Apps!PongsAnswerPings
      BY <2>2, ChainTyped DEF Apps!PongsAnswerPings, Chain, Rising
    <2>. QED  BY <2>1, <2>3
  <1>. QED  BY <1>1, <1>2, <1>3, PTL DEF MCSpec

-----------------------------------------------------------------------------
(* FlowSensor: counting modulo the size of a register. *)

\* A number in the range is its own remainder.
LEMMA ModSmall == ASSUME NEW w \in Nat, NEW x \in 0 .. w - 1 PROVE x % w = x
  OBVIOUS

\* One below the range comes back from above.
LEMMA ModBelow ==
    ASSUME NEW w \in Nat, w > 0, NEW x \in Int, -w <= x, x < 0
    PROVE  x % w = x + w
  OBVIOUS

\* One above the range starts again from below.
LEMMA ModAbove ==
    ASSUME NEW w \in Nat, w > 0, NEW x \in Int, w <= x, x < w + w
    PROVE  x % w = x - w
  OBVIOUS

\* A remainder is in the range.
LEMMA ModRange == ASSUME NEW w \in Nat, w > 0, NEW x \in Int PROVE x % w \in 0 .. w - 1
  OBVIOUS

\* A byte and a register have at least one value, and the sensor moves along its axes.
LEMMA FlowConstants ==
    BYTE \in Nat /\ BYTE > 0 /\ Flow!WRAP \in Nat /\ Flow!WRAP > 0 /\ Moving \subseteq Flow!Axes
  <1>1. BYTE \in Nat /\ BYTE > 0 /\ Moving \subseteq Flow!Axes
    BY SamplesAssumption DEF Flow!Axes
  <1>2. \A x \in Nat : x > 0 => x * x \in Nat /\ x * x > 0
    OBVIOUS
  <1>. QED  BY <1>1, <1>2 DEF Flow!WRAP

Word == 0 .. Flow!WRAP - 1

\* The pattern of a number is a register's value, and a register's value is its own pattern.
LEMMA PatternWord ==
    /\ \A x \in Int : Flow!Pattern(x) \in Word
    /\ \A x \in Word : Flow!Pattern(x) = x
  BY FlowConstants, ModRange, ModSmall DEF Flow!Pattern, Word

\* What adding a register's value or less, in either direction, does to another one.
LEMMA PatternAdd ==
    ASSUME NEW x \in Word, NEW y \in Int, -Flow!WRAP <= y, y <= Flow!WRAP
    PROVE  \/ x + y < 0 /\ Flow!Pattern(x + y) = x + y + Flow!WRAP
           \/ 0 <= x + y /\ x + y < Flow!WRAP /\ Flow!Pattern(x + y) = x + y
           \/ Flow!WRAP <= x + y /\ Flow!Pattern(x + y) = x + y - Flow!WRAP
  <1>1. Flow!WRAP \in Nat /\ Flow!WRAP > 0 /\ x \in Int /\ 0 <= x /\ x < Flow!WRAP
    BY FlowConstants DEF Word
  <1>2. CASE x + y < 0
    BY <1>1, <1>2, ModBelow DEF Flow!Pattern
  <1>3. CASE 0 <= x + y /\ x + y < Flow!WRAP
    BY <1>1, <1>3, ModSmall DEF Flow!Pattern
  <1>4. CASE Flow!WRAP <= x + y
    BY <1>1, <1>4, ModAbove DEF Flow!Pattern
  <1>. QED  BY <1>1, <1>2, <1>3, <1>4

\* A register's value read as an int16_t differs from it by nothing or by the register's size.
LEMMA SignedWord ==
    ASSUME NEW x \in Word
    PROVE  Flow!Signed(x) \in Int /\ Flow!Signed(x) \in {x, x - Flow!WRAP}
  BY FlowConstants DEF Flow!Signed, Word

\* A burst that prints all that has moved leaves nothing owed.
LEMMA BurstSettles == ASSUME NEW x \in Word PROVE Flow!Pattern(x - Flow!Signed(x)) = 0
  <1>1. Flow!WRAP \in Nat /\ Flow!WRAP > 0 /\ x \in Int
    BY FlowConstants DEF Word
  <1>2. x - Flow!Signed(x) = 0 \/ x - Flow!Signed(x) = Flow!WRAP
    BY <1>1, SignedWord
  <1>3. Flow!Pattern(0) = 0
    BY <1>1, ModSmall DEF Flow!Pattern
  <1>4. Flow!Pattern(Flow!WRAP) = 0
    BY <1>1, ModAbove DEF Flow!Pattern
  <1>. QED  BY <1>2, <1>3, <1>4

\* A count of what the delta registers hold takes it off what is owed.
LEMMA CountSettles ==
    ASSUME NEW x \in Word, NEW y \in Word
    PROVE  Flow!Pattern(Flow!Pattern(x + y) + Flow!Signed(Flow!Pattern(-y))) = x
  <1>. DEFINE w == Flow!WRAP
              s == Flow!Pattern(x + y)
              e == Flow!Pattern(-y)
              d == Flow!Signed(e)
  <1>1. w \in Nat /\ w > 0 /\ x \in Int /\ y \in Int /\ 0 <= x /\ x < w /\ 0 <= y /\ y < w
    BY FlowConstants DEF Word
  <1>2. s \in Word /\ s \in {x + y, x + y - w}
    <2>1. s \in Word
      BY <1>1, PatternWord
    <2>2. s = x + y \/ s = x + y - w
      BY <1>1, PatternAdd
    <2>. QED  BY <2>1, <2>2
  <1>3. e \in Word /\ (e = -y \/ e = w - y)
    <2>1. 0 \in Word /\ 0 + (-y) = -y
      BY <1>1 DEF Word
    <2>2. Flow!Pattern(0 + (-y)) = e
      BY <2>1
    <2>3. \/ Flow!Pattern(0 + (-y)) = 0 + (-y) + w
          \/ Flow!Pattern(0 + (-y)) = 0 + (-y)
          \/ Flow!Pattern(0 + (-y)) = 0 + (-y) - w /\ w <= 0 + (-y)
      BY <1>1, <2>1, PatternAdd
    <2>. QED  BY <1>1, <2>2, <2>3, PatternWord
  <1>4. d \in Int /\ (d = -y \/ d = w - y \/ d = -y - w)
    <2>1. d \in Int /\ (d = e \/ d = e - w)
      BY <1>3, SignedWord
    <2>. HIDE DEF w, s, e, d
    <2>. QED  BY <1>1, <1>3, <2>1 DEF Word
  <1>5. e # -y - w /\ d >= -w /\ d <= w
    <2>. HIDE DEF s
    <2>1. d = e \/ d = e - w
      BY <1>3, SignedWord
    <2>2. 0 <= e /\ e < w /\ e \in Int
      <3>1. e \in 0 .. w - 1
        BY <1>3 DEF Word
      <3>. HIDE DEF w, e
      <3>. QED  BY <1>1, <3>1
    <2>. HIDE DEF w, e, d
    <2>. QED  BY <1>1, <2>1, <2>2
  <1>6. \/ Flow!Pattern(s + d) = s + d + w
        \/ Flow!Pattern(s + d) = s + d
        \/ Flow!Pattern(s + d) = s + d - w
    BY <1>2, <1>4, <1>5, PatternAdd
  <1>7. Flow!Pattern(s + d) \in Word
    BY <1>2, <1>4, PatternWord DEF Word
  <1>8. s \in Int
    BY <1>2 DEF Word
  <1>. DEFINE z == Flow!Pattern(s + d)
  <1>9. z \in Int /\ 0 <= z /\ z < w
    BY <1>1, <1>7 DEF Word
  <1>10. z = s + d + w \/ z = s + d \/ z = s + d - w
    BY <1>6
  <1>11. z = x
    <2>. HIDE DEF w, s, e, d, z
    <2>. QED  BY <1>1, <1>2, <1>4, <1>8, <1>9, <1>10
  <1>. QED  BY <1>11

\* It does not matter whether the sensor moves before or after the motion is taken.
LEMMA MoveLater ==
    ASSUME NEW x \in Word, NEW y \in Word, NEW s \in {-1, 1}
    PROVE  Flow!Pattern(Flow!Pattern(x + y) + s) = Flow!Pattern(Flow!Pattern(x + s) + y)
  <1>. DEFINE w == Flow!WRAP
              a == Flow!Pattern(x + y)
              b == Flow!Pattern(x + s)
              c == Flow!Pattern(a + s)
              d == Flow!Pattern(b + y)
  <1>1. /\ w \in Nat /\ w > 0 /\ x \in Int /\ y \in Int /\ 0 <= x /\ x < w /\ 0 <= y /\ y < w
        /\ s \in Int /\ -w <= s /\ s <= w
    BY FlowConstants DEF Word
  <1>2. a \in Word /\ b \in Word
    BY <1>1, PatternWord
  <1>3. c \in Word /\ d \in Word
    BY <1>1, <1>2, PatternWord DEF Word
  <1>4. a = x + y \/ a = x + y - w \/ a = x + y + w
    BY <1>1, PatternAdd
  <1>5. b = x + s \/ b = x + s - w \/ b = x + s + w
    BY <1>1, PatternAdd
  <1>6. c = a + s \/ c = a + s - w \/ c = a + s + w
    BY <1>1, <1>2, PatternAdd
  <1>7. d = b + y \/ d = b + y - w \/ d = b + y + w
    BY <1>1, <1>2, PatternAdd
  <1>8. /\ a \in Int /\ b \in Int /\ c \in Int /\ d \in Int
        /\ 0 <= c /\ c < w /\ 0 <= d /\ d < w /\ 0 <= a /\ a < w /\ 0 <= b /\ b < w
    BY <1>1, <1>2, <1>3 DEF Word
  <1>9. c = d
    <2>. HIDE DEF w, a, b, c, d
    <2>. QED  BY <1>1, <1>4, <1>5, <1>6, <1>7, <1>8
  <1>. QED  BY <1>9

\* The two bytes of a register make it up.
LEMMA BytesMakeWord ==
    ASSUME NEW x \in Word
    PROVE  /\ Flow!Half(x, "hi") \in Nat /\ Flow!Half(x, "lo") \in Nat
           /\ Flow!Half(x, "hi") * BYTE + Flow!Half(x, "lo") = x
  <1>1. BYTE \in Nat /\ BYTE > 0 /\ x \in Nat
    BY FlowConstants DEF Word
  <1>2. x \div BYTE \in Nat /\ x % BYTE \in Nat /\ x % BYTE = x - (x \div BYTE) * BYTE
    BY <1>1
  <1>. QED  BY <1>1, <1>2 DEF Flow!Half

-----------------------------------------------------------------------------
(* FlowSensor: the inductive invariant. *)

\* The blocks of the register table: there is a last one, which is for page 0.
BLOCKS == Len(Flow!Blocks)

FlowTypes ==
    /\ fprog \in {"test", "bringup"}
    /\ flowpc \in {"start", "ids", "reset", "rejected", "table", "wait", "count", "bytes", "end"}
    /\ spoiled \in BOOLEAN /\ wired \in BOOLEAN /\ blk \in Nat /\ flowRet \in {-1, 0, 1}
    /\ written \in [Flow!Pages -> 0 .. BLOCKS]
    /\ acc \in [Flow!Axes -> Word] /\ deltas \in [Flow!Axes -> Word] /\ owed \in [Flow!Axes -> Word]
    /\ axis \in Flow!Axes /\ bytes \in [Flow!Halves -> Int]

\* The identities are asked for on page 0; init has returned 0 only once it is through.
ProbeInv ==
    /\ flowpc = "ids" => page = 0
    /\ flowpc = "rejected" => spoiled \/ ~wired
    /\ flowRet = 0 => flowpc \in {"wait", "count", "bytes", "end"}

\* Block b of the table is the last one up to c that is for page p.
LastFor(p, b, c) ==
    b \in 1 .. c /\ Flow!Blocks[b] = p /\ \A d \in b + 1 .. c : Flow!Blocks[d] # p

\* Without a failed transfer each page holds the last of the blocks so far that are for it.
PagesInv ==
    /\ flowpc = "table" => blk \in 1 .. BLOCKS
    /\ flowpc = "table" /\ ~spoiled =>
          \A p \in Flow!Pages : (\E b \in 1 .. blk - 1 : Flow!Blocks[b] = p)
                                   => LastFor(p, written[p], blk - 1)
    /\ flowRet = 0 /\ ~spoiled =>
          page = 0 /\ \A p \in Flow!Pages : LastFor(p, written[p], BLOCKS)

Trusted == flowRet = 0 /\ ~spoiled /\ wired

\* What is owed is what the sensor has gathered, and in the middle of a count also what the
\* delta registers hold of the axes still to be counted.
OwedInv ==
    /\ flowpc = "table" /\ ~spoiled => acc = Flow!Zero /\ owed = Flow!Zero
    /\ Trusted /\ flowpc \in {"wait", "count"} => owed = acc
    /\ Trusted /\ flowpc = "bytes" =>
          /\ owed[axis] = Flow!Pattern(acc[axis] + deltas[axis])
          /\ axis = "y" => owed["x"] = Flow!Pattern(acc["x"] + deltas["x"])
          /\ axis = "x" => owed["y"] = acc["y"]
          /\ \A h \in Flow!Halves : bytes[h] \in {-1, Flow!Half(deltas[axis], h)}

FlowInv == FlowTypes /\ ProbeInv /\ PagesInv /\ OwedInv

\* The table's shape.
LEMMA TableShape ==
    /\ BLOCKS = 18 /\ Flow!Blocks \in Seq(Nat) /\ Flow!Blocks[18] = 0
    /\ \A p \in Flow!Pages : \E b \in 1 .. BLOCKS : Flow!Blocks[b] = p
  BY DEF BLOCKS, Flow!Blocks, Flow!Pages

\* A page's last block is what the table gives it.
LEMMA LastIsTable ==
    ASSUME written \in [Flow!Pages -> 0 .. BLOCKS],
           \A p \in Flow!Pages : LastFor(p, written[p], BLOCKS)
    PROVE  written = Flow!Table
  <1>1. ASSUME NEW p \in Flow!Pages PROVE written[p] = Flow!Table[p]
    <2>. DEFINE Last(b) == Flow!Blocks[b] = p /\ \A c \in b + 1 .. BLOCKS : Flow!Blocks[c] # p
    <2>1. written[p] \in 1 .. BLOCKS /\ Last(written[p])
      BY DEF LastFor
    <2>2. ASSUME NEW b \in 1 .. BLOCKS, Last(b) PROVE b = written[p]
      <3>. HIDE DEF Last
      <3>3. BLOCKS \in Nat
        BY TableShape
      <3>4. b \in Nat /\ written[p] \in Nat /\ b <= BLOCKS /\ written[p] <= BLOCKS
        BY <2>1, <3>3
      <3>1. ~ (b < written[p])
        <4>. SUFFICES ASSUME b < written[p] PROVE FALSE
          OBVIOUS
        <4>1. written[p] \in b + 1 .. BLOCKS
          BY <3>3, <3>4
        <4>. QED  BY <2>1, <2>2, <4>1 DEF Last
      <3>2. ~ (written[p] < b)
        <4>. SUFFICES ASSUME written[p] < b PROVE FALSE
          OBVIOUS
        <4>1. b \in written[p] + 1 .. BLOCKS
          BY <3>3, <3>4
        <4>. QED  BY <2>1, <2>2, <4>1 DEF Last
      <3>. QED  BY <3>1, <3>2, <3>4
    <2>3. Flow!Table[p] = CHOOSE b \in 1 .. BLOCKS : Last(b)
      BY DEF Flow!Table, BLOCKS
    <2>. HIDE DEF Last
    <2>. QED  BY <2>1, <2>2, <2>3
  <1>2. Flow!Table = [p \in Flow!Pages |-> Flow!Table[p]]
    BY DEF Flow!Table
  <1>. QED  BY <1>1, <1>2

\* Nothing has moved or been printed in a register of zeros.
LEMMA ZeroTyped ==
    /\ Flow!Zero \in [Flow!Axes -> Word] /\ \A a \in Flow!Axes : Flow!Zero[a] = 0
    /\ Flow!NoBytes \in [Flow!Halves -> Int] /\ \A h \in Flow!Halves : Flow!NoBytes[h] = -1
    /\ Flow!Blank \in [Flow!Pages -> 0 .. BLOCKS] /\ Flow!Table \in [Flow!Pages -> 0 .. BLOCKS]
  <1>1. 0 \in Word
    BY FlowConstants DEF Word
  <1>2. Flow!Zero \in [Flow!Axes -> Word] /\ \A a \in Flow!Axes : Flow!Zero[a] = 0
    BY <1>1 DEF Flow!Zero
  <1>3. Flow!NoBytes \in [Flow!Halves -> Int] /\ \A h \in Flow!Halves : Flow!NoBytes[h] = -1
    BY DEF Flow!NoBytes
  <1>4. BLOCKS \in Nat
    BY TableShape
  <1>5. Flow!Blank \in [Flow!Pages -> 0 .. BLOCKS]
    BY <1>4 DEF Flow!Blank
  <1>6. ASSUME NEW p \in Flow!Pages PROVE Flow!Table[p] \in 0 .. BLOCKS
    <2>. DEFINE Last(b) == Flow!Blocks[b] = p /\ \A c \in b + 1 .. BLOCKS : Flow!Blocks[c] # p
    <2>1. Flow!Table[p] = CHOOSE b \in 1 .. BLOCKS : Last(b)
      BY DEF Flow!Table, BLOCKS
    <2>2. \E b \in 1 .. BLOCKS : Last(b)
      BY TableShape DEF Flow!Pages, Flow!Blocks
    <2>3. Flow!Table[p] \in 1 .. BLOCKS
      <3>. HIDE DEF Last
      <3>. QED  BY <2>1, <2>2
    <2>. QED  BY <1>4, <2>3
  <1>7. Flow!Table \in [Flow!Pages -> 0 .. BLOCKS]
    <2>1. Flow!Table = [p \in Flow!Pages |-> Flow!Table[p]]
      BY DEF Flow!Table
    <2>. QED  BY <1>6, <2>1
  <1>. QED  BY <1>2, <1>3, <1>5, <1>7

\* The invariant of FlowSensor holds at the start.
LEMMA FlowStart == ASSUME Flow!Init PROVE FlowInv
  <1>1. FlowTypes
    BY ZeroTyped DEF Flow!Init, FlowTypes, Flow!Axes
  <1>2. flowpc = "start" /\ flowRet = 1
    BY DEF Flow!Init
  <1>3. ProbeInv /\ PagesInv /\ OwedInv
    BY <1>2 DEF ProbeInv, PagesInv, OwedInv, Trusted
  <1>. QED  BY <1>1, <1>3 DEF FlowInv

\* The steps that lead to the reset pin or away from a failed boot.
LEMMA FlowBootKeeps ==
    ASSUME FlowInv, Flow!ConfigFails \/ Flow!Rejected \/ Flow!WarmReset \/ Flow!ResetPin
    PROVE  FlowInv'
  <1>1. /\ flowpc' \in {"start", "end", "wait", "ids"} /\ flowRet' # 0 /\ flowRet' \in {-1, 1}
        /\ flowpc' = "ids" => page' = 0
    BY DEF FlowInv, FlowTypes, ProbeInv, Flow!ConfigFails, Flow!Rejected, Flow!WarmReset, Flow!ResetPin
  <1>2. FlowTypes'
    <2>1. CASE Flow!ConfigFails \/ Flow!Rejected
      BY <1>1, <2>1 DEF FlowInv, FlowTypes, Flow!ConfigFails, Flow!Rejected, Flow!chip, Flow!motion
    <2>2. CASE Flow!WarmReset
      BY <1>1, <2>2, ZeroTyped DEF FlowInv, FlowTypes, Flow!WarmReset, Flow!chip, Flow!Axes
    <2>3. CASE Flow!ResetPin
      BY <1>1, <2>3, ZeroTyped DEF FlowInv, FlowTypes, Flow!ResetPin
    <2>. QED  BY <2>1, <2>2, <2>3
  <1>3. ProbeInv' /\ PagesInv' /\ OwedInv'
    BY <1>1 DEF ProbeInv, PagesInv, OwedInv, Trusted
  <1>. QED  BY <1>2, <1>3 DEF FlowInv

\* The identities are read.
LEMMA ReadIdsKeeps == ASSUME FlowInv, Flow!ReadIds PROVE FlowInv'
  <1>1. flowpc = "ids" /\ page = 0 /\ flowRet # 0 /\ FlowTypes
    BY DEF FlowInv, ProbeInv, Flow!ReadIds
  <1>2. /\ flowpc' \in {"reset", "rejected"} /\ flowRet' \in {-1, flowRet}
        /\ UNCHANGED <<fprog, blk, wired, page, written, acc, deltas, axis, bytes, owed>>
        /\ spoiled' \in {TRUE, spoiled}
        /\ flowpc' = "rejected" => spoiled' = TRUE \/ ~wired
    BY <1>1 DEF Flow!ReadIds, Flow!Fine, Flow!Fault, Flow!IdsAnswer, Flow!chip, Flow!motion
  <1>3. FlowTypes'
    BY <1>1, <1>2 DEF FlowTypes
  <1>4. ProbeInv' /\ PagesInv' /\ OwedInv'
    BY <1>1, <1>2 DEF ProbeInv, PagesInv, OwedInv, Trusted
  <1>. QED  BY <1>3, <1>4 DEF FlowInv

\* The power-on reset clears the sensor, or fails and is noticed by nobody.
LEMMA PowerOnKeeps == ASSUME FlowInv, Flow!PowerOnReset PROVE FlowInv'
  <1>1. /\ flowpc' = "table" /\ blk' = 1 /\ flowRet' = flowRet /\ flowRet # 0
        /\ UNCHANGED <<fprog, wired, axis, bytes>> /\ FlowTypes
    BY DEF FlowInv, ProbeInv, Flow!PowerOnReset
  <1>2. /\ written' \in {Flow!Blank, written} /\ acc' = Flow!Zero /\ owed' = Flow!Zero
        /\ deltas' \in {Flow!Zero, acc} /\ spoiled' \in {TRUE, spoiled}
    BY DEF Flow!PowerOnReset, Flow!Fine, Flow!Fault
  <1>3. FlowTypes'
    BY <1>1, <1>2, ZeroTyped DEF FlowTypes
  <1>4. ProbeInv' /\ OwedInv'
    BY <1>1, <1>2 DEF ProbeInv, OwedInv, Trusted
  <1>5. PagesInv'
    BY <1>1, TableShape DEF PagesInv
  <1>. QED  BY <1>3, <1>4, <1>5 DEF FlowInv

\* A block of the table is written to its page, or somewhere or nowhere when a transfer fails.
LEMMA InitRegistersKeeps == ASSUME FlowInv, Flow!InitRegisters PROVE FlowInv'
  <1>1. FlowTypes /\ ProbeInv /\ PagesInv /\ OwedInv /\ flowpc = "table" /\ blk \in 1 .. BLOCKS
    BY DEF FlowInv, PagesInv, Flow!InitRegisters
  <1>2. UNCHANGED <<fprog, wired, acc, deltas, axis, bytes, owed>>
    BY DEF Flow!InitRegisters, Flow!motion
  <1>3. \/ blk < BLOCKS /\ blk' = blk + 1 /\ flowpc' = flowpc /\ flowRet' = flowRet
        \/ blk = BLOCKS /\ blk' = 0 /\ flowpc' = "wait" /\ flowRet' = 0
    BY <1>1, TableShape DEF Flow!InitRegisters, BLOCKS
  <1>4. BLOCKS \in Nat /\ blk \in Nat /\ blk \in 0 .. BLOCKS
    BY <1>1, TableShape
  <1>5. /\ spoiled' \in BOOLEAN
        /\ ~spoiled' => ~spoiled /\ page' = Flow!Blocks[blk]
                        /\ written' = [written EXCEPT ![Flow!Blocks[blk]] = blk]
    <2>1. CASE Flow!Fine /\ page' = Flow!Blocks[blk]
               /\ written' = [written EXCEPT ![Flow!Blocks[blk]] = blk]
      BY <1>1, <2>1 DEF Flow!Fine, FlowTypes
    <2>2. CASE Flow!Fault
      BY <2>2 DEF Flow!Fault
    <2>. QED  BY <2>1, <2>2 DEF Flow!InitRegisters
  <1>6. written' \in [Flow!Pages -> 0 .. BLOCKS]
    BY <1>1, <1>4 DEF Flow!InitRegisters, FlowTypes
  <1>7. FlowTypes'
    <2>1. blk' \in Nat /\ flowpc' \in {"table", "wait"} /\ flowRet' \in {-1, 0, 1}
      BY <1>1, <1>3, <1>4 DEF FlowTypes
    <2>. QED  BY <1>1, <1>2, <1>5, <1>6, <2>1 DEF FlowTypes
  <1>8. ProbeInv'
    BY <1>1, <1>3 DEF ProbeInv
  <1>9. OwedInv'
    BY <1>1, <1>2, <1>3, <1>5 DEF OwedInv, Trusted, ProbeInv
  <1>10. ~spoiled' => \A p \in Flow!Pages : (\E b \in 1 .. blk : Flow!Blocks[b] = p)
                                               => LastFor(p, written'[p], blk)
    <2>. SUFFICES ASSUME ~spoiled', NEW p \in Flow!Pages, NEW b \in 1 .. blk, Flow!Blocks[b] = p
                  PROVE  LastFor(p, written'[p], blk)
      OBVIOUS
    <2>1. CASE Flow!Blocks[blk] = p
      <3>1. written'[p] = blk
        BY <1>1, <1>5, <2>1 DEF FlowTypes
      <3>2. blk \in 1 .. blk /\ \A d \in blk + 1 .. blk : FALSE
        BY <1>1, <1>4
      <3>. QED  BY <2>1, <3>1, <3>2 DEF LastFor
    <2>2. CASE Flow!Blocks[blk] # p
      <3>1. written'[p] = written[p]
        BY <1>1, <1>5, <2>2 DEF FlowTypes
      <3>2. b \in 1 .. blk - 1
        <4>1. b # blk
          BY <2>2
        <4>. QED  BY <1>4, <4>1
      <3>3. LastFor(p, written[p], blk - 1)
        BY <1>1, <1>5, <3>2 DEF PagesInv
      <3>4. written[p] \in 1 .. blk - 1 /\ Flow!Blocks[written[p]] = p
            /\ \A d \in written[p] + 1 .. blk - 1 : Flow!Blocks[d] # p
        BY <3>3 DEF LastFor
      <3>5. written[p] \in 1 .. blk
        BY <1>4, <3>4
      <3>6. ASSUME NEW d \in written[p] + 1 .. blk PROVE Flow!Blocks[d] # p
        <4>1. CASE d = blk
          BY <2>2, <4>1
        <4>2. CASE d # blk
          <5>1. d \in written[p] + 1 .. blk - 1
            BY <1>4, <3>5, <4>2
          <5>. QED  BY <3>4, <5>1
        <4>. QED  BY <4>1, <4>2
      <3>. QED  BY <3>1, <3>4, <3>5, <3>6 DEF LastFor
    <2>. QED  BY <2>1, <2>2
  <1>11. PagesInv'
    <2>1. CASE blk < BLOCKS /\ blk' = blk + 1 /\ flowpc' = flowpc /\ flowRet' = flowRet
      <3>1. blk' \in 1 .. BLOCKS /\ blk' - 1 = blk
        BY <1>4, <2>1
      <3>2. flowRet' # 0
        BY <1>1, <2>1 DEF ProbeInv
      <3>. QED  BY <1>10, <3>1, <3>2 DEF PagesInv
    <2>2. CASE blk = BLOCKS /\ blk' = 0 /\ flowpc' = "wait" /\ flowRet' = 0
      <3>1. ~spoiled' => page' = 0
        BY <1>5, <2>2, TableShape
      <3>2. ~spoiled' => \A p \in Flow!Pages : LastFor(p, written'[p], BLOCKS)
        BY <1>10, <2>2, TableShape
      <3>. QED  BY <2>2, <3>1, <3>2 DEF PagesInv
    <2>. QED  BY <1>3, <2>1, <2>2
  <1>. QED  BY <1>7, <1>8, <1>9, <1>11 DEF FlowInv

\* A burst, or none, in the main loops.
LEMMA BurstKeeps == ASSUME FlowInv, Flow!MotionBurst \/ Flow!NoDistance PROVE FlowInv'
  <1>1. FlowTypes /\ ProbeInv /\ PagesInv /\ OwedInv
    BY DEF FlowInv
  <1>2. /\ flowpc = "wait" /\ flowpc' \in {"wait", "count", "end"}
        /\ UNCHANGED <<fprog, blk, wired, page, written, axis, bytes, flowRet>>
    BY DEF Flow!MotionBurst, Flow!NoDistance, Flow!chip, Flow!motion
  <1>6. spoiled' \in BOOLEAN /\ (spoiled => spoiled')
    <2>1. CASE Flow!Fine \/ UNCHANGED spoiled
      BY <1>1, <2>1 DEF Flow!Fine, FlowTypes
    <2>2. CASE Flow!Fault
      BY <2>2 DEF Flow!Fault
    <2>. QED  BY <2>1, <2>2 DEF Flow!MotionBurst, Flow!NoDistance
  <1>3. ProbeInv' /\ PagesInv'
    BY <1>1, <1>2, <1>6 DEF ProbeInv, PagesInv
  <1>4. CASE UNCHANGED <<deltas, acc, owed>>
    <2>1. FlowTypes'
      BY <1>1, <1>2, <1>4, <1>6 DEF FlowTypes
    <2>2. OwedInv'
      BY <1>1, <1>2, <1>4, <1>6 DEF OwedInv, Trusted
    <2>. QED  BY <1>3, <2>1, <2>2 DEF FlowInv
  <1>5. CASE deltas' = Flow!Taken(acc) /\ acc' = Flow!Zero
             /\ \/ owed' = owed /\ spoiled' = TRUE
                \/ Flow!Report([a \in Flow!Axes |-> Flow!Signed(deltas'[a])])
    <2>1. deltas' \in [Flow!Axes -> Word] /\ (wired => deltas' = acc)
      <3>1. 0 \in Word
        BY FlowConstants DEF Word
      <3>. QED  BY <1>1, <1>5, <3>1 DEF FlowTypes, Flow!Taken
    <2>2. CASE Flow!Report([a \in Flow!Axes |-> Flow!Signed(deltas'[a])])
      <3>1. owed' = [a \in Flow!Axes |-> Flow!Pattern(owed[a] - Flow!Signed(deltas'[a]))]
        BY <2>2 DEF Flow!Report
      <3>2. owed' \in [Flow!Axes -> Word]
        <4>1. \A a \in Flow!Axes : owed[a] - Flow!Signed(deltas'[a]) \in Int
          BY <1>1, <2>1, SignedWord DEF FlowTypes, Word
        <4>. QED  BY <3>1, <4>1, PatternWord
      <3>3. Trusted /\ owed = acc => owed' = Flow!Zero
        <4>. SUFFICES ASSUME Trusted, owed = acc PROVE owed' = Flow!Zero
          OBVIOUS
        <4>1. \A a \in Flow!Axes : owed'[a] = 0
          BY <1>1, <2>1, <3>1, BurstSettles DEF FlowTypes, Trusted
        <4>. QED  BY <3>2, <4>1, ZeroTyped
      <3>4. FlowTypes'
        BY <1>1, <1>2, <1>5, <1>6, <2>1, <3>2, ZeroTyped DEF FlowTypes
      <3>5. OwedInv'
        BY <1>1, <1>2, <1>5, <1>6, <3>3 DEF OwedInv, Trusted
      <3>. QED  BY <1>3, <3>4, <3>5 DEF FlowInv
    <2>3. CASE owed' = owed /\ spoiled' = TRUE
      <3>1. FlowTypes'
        BY <1>1, <1>2, <1>5, <1>6, <2>1, <2>3, ZeroTyped DEF FlowTypes
      <3>2. OwedInv'
        BY <1>2, <2>3 DEF OwedInv, Trusted
      <3>. QED  BY <1>3, <3>1, <3>2 DEF FlowInv
    <2>. QED  BY <1>5, <2>2, <2>3
  <1>. QED  BY <1>4, <1>5 DEF Flow!MotionBurst, Flow!NoDistance, Flow!Fault, Flow!motion

\* A count begins: the motion gathered so far is moved to the delta registers.
LEMMA LatchKeeps == ASSUME FlowInv, Flow!LatchCount PROVE FlowInv'
  <1>1. FlowTypes /\ ProbeInv /\ PagesInv /\ OwedInv
    BY DEF FlowInv
  <1>2. /\ flowpc = "count" /\ flowpc' = "bytes" /\ axis' = "y" /\ bytes' = Flow!NoBytes
        /\ UNCHANGED <<fprog, blk, wired, page, written, owed, flowRet>>
        /\ \/ spoiled' = spoiled /\ deltas' = Flow!Taken(acc) /\ acc' = Flow!Zero
           \/ spoiled' = TRUE /\ deltas' = deltas /\ acc' = acc
    BY DEF Flow!LatchCount, Flow!chip, Flow!Fine, Flow!Fault
  <1>3. ProbeInv' /\ PagesInv'
    BY <1>1, <1>2 DEF ProbeInv, PagesInv
  <1>4. CASE spoiled' = spoiled /\ deltas' = Flow!Taken(acc) /\ acc' = Flow!Zero
    <2>1. deltas' \in [Flow!Axes -> Word] /\ (wired => deltas' = acc)
      <3>1. 0 \in Word
        BY FlowConstants DEF Word
      <3>. QED  BY <1>1, <1>4, <3>1 DEF FlowTypes, Flow!Taken
    <2>2. FlowTypes'
      BY <1>1, <1>2, <1>4, <2>1, ZeroTyped DEF FlowTypes, Flow!Axes
    <2>3. Trusted => \A a \in Flow!Axes : owed[a] = Flow!Pattern(acc'[a] + deltas'[a])
      <3>. SUFFICES ASSUME Trusted, NEW a \in Flow!Axes
                    PROVE  owed[a] = Flow!Pattern(acc'[a] + deltas'[a])
        OBVIOUS
      <3>1. acc'[a] = 0 /\ deltas'[a] = owed[a] /\ owed[a] \in Word
        BY <1>1, <1>2, <1>4, <2>1, ZeroTyped DEF FlowTypes, OwedInv, Trusted
      <3>2. 0 + owed[a] = owed[a]
        BY <3>1 DEF Word
      <3>. QED  BY <3>1, <3>2, PatternWord
    <2>4. OwedInv'
      BY <1>2, <1>4, <2>3, ZeroTyped DEF OwedInv, Trusted, Flow!Axes
    <2>. QED  BY <1>3, <2>2, <2>4 DEF FlowInv
  <1>5. CASE spoiled' = TRUE /\ deltas' = deltas /\ acc' = acc
    <2>1. FlowTypes'
      BY <1>1, <1>2, <1>5, ZeroTyped DEF FlowTypes, Flow!Axes
    <2>2. OwedInv'
      BY <1>2, <1>5 DEF OwedInv, Trusted
    <2>. QED  BY <1>3, <2>1, <2>2 DEF FlowInv
  <1>. QED  BY <1>2, <1>4, <1>5

\* A byte of a count is read, in either order.
LEMMA CountByteKeeps == ASSUME FlowInv, Flow!CountByte PROVE FlowInv'
  <1>1. FlowTypes /\ ProbeInv /\ PagesInv /\ OwedInv
    BY DEF FlowInv
  <1>2. /\ flowpc = "bytes"
        /\ UNCHANGED <<fprog, flowpc, blk, wired, page, written, acc, deltas, axis, owed, flowRet>>
    BY DEF Flow!CountByte, Flow!chip
  <1>3. PICK h \in Flow!Halves :
          \/ spoiled' = spoiled /\ bytes' = [bytes EXCEPT ![h] = Flow!Half(deltas[axis], h)]
          \/ spoiled' = TRUE /\ bytes' = [bytes EXCEPT ![h] = 0]
    BY DEF Flow!CountByte, Flow!Fine, Flow!Fault
  <1>4. Flow!Half(deltas[axis], h) \in Int
    <2>1. deltas[axis] \in Word
      BY <1>1 DEF FlowTypes
    <2>. QED  BY <2>1, BytesMakeWord DEF Flow!Halves
  <1>5. FlowTypes'
    <2>1. bytes' \in [Flow!Halves -> Int]
      BY <1>1, <1>3, <1>4 DEF FlowTypes
    <2>2. spoiled' \in BOOLEAN
      BY <1>1, <1>3 DEF FlowTypes
    <2>. QED  BY <1>1, <1>2, <2>1, <2>2 DEF FlowTypes
  <1>6. ProbeInv' /\ PagesInv'
    BY <1>1, <1>2, <1>3 DEF ProbeInv, PagesInv
  <1>7. OwedInv'
    <2>1. CASE spoiled' = TRUE
      BY <1>2, <2>1 DEF OwedInv, Trusted
    <2>2. CASE spoiled' = spoiled /\ bytes' = [bytes EXCEPT ![h] = Flow!Half(deltas[axis], h)]
      <3>1. \A g \in Flow!Halves : bytes'[g] \in {bytes[g], Flow!Half(deltas[axis], g)}
        BY <1>1, <2>2 DEF FlowTypes
      <3>. QED  BY <1>1, <1>2, <2>2, <3>1 DEF OwedInv, Trusted
    <2>. QED  BY <1>3, <2>1, <2>2
  <1>. QED  BY <1>5, <1>6, <1>7 DEF FlowInv

\* The count of an axis is printed.
LEMMA CountAxisKeeps == ASSUME FlowInv, Flow!CountAxis PROVE FlowInv'
  <1>1. FlowTypes /\ ProbeInv /\ PagesInv /\ OwedInv
    BY DEF FlowInv
  <1>. DEFINE z == Flow!Count(bytes["hi"], bytes["lo"])
  <1>2. /\ flowpc = "bytes" /\ bytes["hi"] # -1 /\ bytes["lo"] # -1
        /\ owed' = [owed EXCEPT ![axis] = Flow!Pattern(owed[axis] + z)]
        /\ bytes' = Flow!NoBytes
        /\ \/ axis = "y" /\ axis' = "x" /\ flowpc' = "bytes"
           \/ axis # "y" /\ axis' = "y" /\ flowpc' = "wait"
        /\ UNCHANGED <<fprog, blk, spoiled, wired, page, written, acc, deltas, flowRet>>
    BY DEF Flow!CountAxis, Flow!chip, Flow!Halves
  <1>3. axis \in {"x", "y"} /\ axis \in Flow!Axes /\ owed[axis] \in Word /\ deltas[axis] \in Word
        /\ acc[axis] \in Word /\ bytes["hi"] \in Int /\ bytes["lo"] \in Int
    BY <1>1 DEF FlowTypes, Flow!Axes, Flow!Halves
  <1>4. owed[axis] + z \in Int
    <2>1. -(bytes["hi"] * BYTE + bytes["lo"]) \in Int
      BY <1>3, FlowConstants
    <2>2. Flow!Pattern(-(bytes["hi"] * BYTE + bytes["lo"])) \in Word
      BY <2>1, PatternWord
    <2>3. z \in Int
      BY <2>2, SignedWord DEF Flow!Count
    <2>4. owed[axis] \in Int
      BY <1>3 DEF Word
    <2>. QED  BY <2>3, <2>4
  <1>5. owed' \in [Flow!Axes -> Word]
    <2>1. Flow!Pattern(owed[axis] + z) \in Word
      BY <1>4, PatternWord
    <2>. HIDE DEF z
    <2>. QED  BY <1>1, <1>2, <2>1 DEF FlowTypes
  <1>6. FlowTypes'
    <2>. HIDE DEF z
    <2>. QED  BY <1>1, <1>2, <1>5, ZeroTyped DEF FlowTypes, Flow!Axes
  <1>7. ProbeInv' /\ PagesInv'
    <2>. HIDE DEF z
    <2>. QED  BY <1>1, <1>2 DEF ProbeInv, PagesInv
  <1>8. Trusted => owed'[axis] = acc[axis]
    <2>. SUFFICES ASSUME Trusted PROVE owed'[axis] = acc[axis]
      OBVIOUS
    <2>1. /\ owed[axis] = Flow!Pattern(acc[axis] + deltas[axis])
          /\ bytes["hi"] = Flow!Half(deltas[axis], "hi")
          /\ bytes["lo"] = Flow!Half(deltas[axis], "lo")
      BY <1>1, <1>2 DEF OwedInv, Flow!Halves
    <2>2. bytes["hi"] * BYTE + bytes["lo"] = deltas[axis]
      BY <1>3, <2>1, BytesMakeWord
    <2>3. z = Flow!Signed(Flow!Pattern(-deltas[axis]))
      BY <2>2 DEF Flow!Count
    <2>4. Flow!Pattern(owed[axis] + z) = acc[axis]
      BY <1>3, <2>1, <2>3, CountSettles
    <2>. HIDE DEF z
    <2>. QED  BY <1>1, <1>2, <1>3, <2>4 DEF FlowTypes
  <1>9. \A a \in Flow!Axes : a # axis => owed'[a] = owed[a]
    <2>. HIDE DEF z
    <2>. QED  BY <1>1, <1>2 DEF FlowTypes
  <1>10. OwedInv'
    <2>. HIDE DEF z
    <2>1. CASE axis = "y"
      BY <1>1, <1>2, <1>8, <1>9, <2>1, ZeroTyped DEF OwedInv, Trusted, Flow!Axes
    <2>2. CASE axis = "x"
      <3>1. flowpc' = "wait"
        BY <1>2, <2>2
      <3>2. Trusted => \A a \in Flow!Axes : owed'[a] = acc[a]
        BY <1>1, <1>2, <1>8, <1>9, <2>2 DEF OwedInv, Flow!Axes
      <3>3. Trusted => owed' = acc
        BY <1>1, <1>5, <3>2 DEF FlowTypes
      <3>. QED  BY <1>2, <3>1, <3>3 DEF OwedInv, Trusted
    <2>. QED  BY <1>3, <2>1, <2>2
  <1>. QED  BY <1>6, <1>7, <1>10 DEF FlowInv

\* The sensor moves while the program reads.
LEMMA MoveKeeps ==
    ASSUME FlowInv, NEW a \in Moving, NEW s \in {-1, 1}, Flow!Move(a, s)
    PROVE  FlowInv'
  <1>1. FlowTypes /\ ProbeInv /\ PagesInv /\ OwedInv /\ a \in Flow!Axes
    BY FlowConstants DEF FlowInv
  <1>2. /\ flowpc \in {"wait", "count", "bytes"}
        /\ owed' = [owed EXCEPT ![a] = Flow!Pattern(owed[a] + s)]
        /\ acc' = [acc EXCEPT ![a] = Flow!Pattern(acc[a] + s)]
        /\ UNCHANGED <<fprog, flowpc, blk, spoiled, wired, page, written, deltas, axis, bytes, flowRet>>
    BY DEF Flow!Move, Flow!chip
  <1>3. Flow!Pattern(owed[a] + s) \in Word /\ Flow!Pattern(acc[a] + s) \in Word
    <2>1. owed[a] \in Int /\ acc[a] \in Int
      BY <1>1 DEF FlowTypes, Word
    <2>2. owed[a] + s \in Int /\ acc[a] + s \in Int
      BY <2>1
    <2>. QED  BY <2>2, PatternWord
  <1>4. owed' \in [Flow!Axes -> Word] /\ acc' \in [Flow!Axes -> Word]
    BY <1>1, <1>2, <1>3 DEF FlowTypes
  <1>5. FlowTypes'
    BY <1>1, <1>2, <1>4 DEF FlowTypes
  <1>6. ProbeInv' /\ PagesInv'
    BY <1>1, <1>2 DEF ProbeInv, PagesInv
  <1>7. ASSUME NEW b \in Flow!Axes, owed[b] = acc[b] PROVE owed'[b] = acc'[b]
    BY <1>1, <1>2, <1>7 DEF FlowTypes
  <1>8. ASSUME NEW b \in Flow!Axes, owed[b] = Flow!Pattern(acc[b] + deltas[b])
        PROVE  owed'[b] = Flow!Pattern(acc'[b] + deltas[b])
    <2>1. acc[b] \in Word /\ deltas[b] \in Word
      BY <1>1 DEF FlowTypes
    <2>2. CASE b = a
      <3>1. owed'[b] = Flow!Pattern(owed[b] + s) /\ acc'[b] = Flow!Pattern(acc[b] + s)
        BY <1>1, <1>2, <2>2 DEF FlowTypes
      <3>. QED  BY <1>8, <2>1, <3>1, MoveLater
    <2>3. CASE b # a
      BY <1>1, <1>2, <1>8, <2>3 DEF FlowTypes
    <2>. QED  BY <2>2, <2>3
  <1>9. OwedInv'
    <2>1. CASE flowpc \in {"wait", "count"}
      <3>1. Trusted => owed' = acc'
        <4>. SUFFICES ASSUME Trusted PROVE owed' = acc'
          OBVIOUS
        <4>1. owed = acc
          BY <1>1, <2>1 DEF OwedInv
        <4>2. \A b \in Flow!Axes : owed'[b] = acc'[b]
          BY <1>7, <4>1
        <4>. QED  BY <1>4, <4>2
      <3>. QED  BY <1>2, <2>1, <3>1 DEF OwedInv, Trusted
    <2>2. CASE flowpc = "bytes"
      <3>1. "x" \in Flow!Axes /\ "y" \in Flow!Axes /\ axis \in Flow!Axes
        BY <1>1 DEF FlowTypes, Flow!Axes
      <3>. SUFFICES ASSUME Trusted
                    PROVE  /\ owed'[axis] = Flow!Pattern(acc'[axis] + deltas[axis])
                           /\ axis = "y" => owed'["x"] = Flow!Pattern(acc'["x"] + deltas["x"])
                           /\ axis = "x" => owed'["y"] = acc'["y"]
                           /\ \A h \in Flow!Halves : bytes[h] \in {-1, Flow!Half(deltas[axis], h)}
        BY <1>2, <2>2 DEF OwedInv, Trusted
      <3>. QED  BY <1>1, <1>7, <1>8, <2>2, <3>1 DEF OwedInv
    <2>. QED  BY <1>2, <2>1, <2>2
  <1>. QED  BY <1>5, <1>6, <1>9 DEF FlowInv

\* Every step of FlowSensor keeps the invariant.
LEMMA FlowKeeps == ASSUME FlowInv, [Flow!Next]_flowVars PROVE FlowInv'
  <1>1. CASE Flow!Next
    BY <1>1, FlowBootKeeps, ReadIdsKeeps, PowerOnKeeps, InitRegistersKeeps, BurstKeeps, LatchKeeps,
       CountByteKeeps, CountAxisKeeps, MoveKeeps DEF Flow!Next
  <1>2. CASE UNCHANGED flowVars
    <2>1. FlowTypes' /\ ProbeInv'
      BY <1>2 DEF flowVars, FlowInv, FlowTypes, ProbeInv
    <2>2. PagesInv'
      BY <1>2 DEF flowVars, FlowInv, PagesInv
    <2>3. OwedInv'
      BY <1>2 DEF flowVars, FlowInv, OwedInv, Trusted
    <2>. QED  BY <2>1, <2>2, <2>3 DEF FlowInv
  <1>. QED  BY <1>1, <1>2

\* A sensor that is there is accepted by a boot without a failed transfer, after which the
\* whole register table is written; no motion is printed twice and none is left out while
\* no transfer fails, although the sensor moves while it is read and all counts wrap.
THEOREM FlowIsTrusted == MCSpec => []FlowTrusted
  <1>. DEFINE FInv == program = "flow" => FlowInv
  <1>1. MCInit => FInv
    BY FlowStart DEF MCInit
  <1>2. FInv /\ [MCNext]_mcVars => FInv'
    <2>. SUFFICES ASSUME FInv, [MCNext]_mcVars, program' = "flow" PROVE FlowInv'
      OBVIOUS
    <2>1. program = "flow" /\ [Flow!Next]_flowVars
      BY DEF MCNext, mcVars, bringupVars
    <2>. QED  BY <2>1, FlowKeeps
  <1>3. FInv => FlowTrusted
    <2>. SUFFICES ASSUME FlowInv
                  PROVE  Flow!AcceptedWhenClean /\ Flow!TableWritten /\ Flow!MotionAccounted
      BY DEF FlowTrusted
    <2>1. Flow!AcceptedWhenClean
      BY DEF FlowInv, ProbeInv, Flow!AcceptedWhenClean
    <2>2. Flow!TableWritten
      BY LastIsTable DEF FlowInv, FlowTypes, PagesInv, Flow!TableWritten
    <2>3. Flow!MotionAccounted
      BY DEF FlowInv, OwedInv, Trusted, Flow!MotionAccounted
    <2>. QED  BY <2>1, <2>2, <2>3
  <1>. HIDE DEF FInv
  <1>. QED  BY <1>1, <1>2, <1>3, PTL DEF MCSpec

-----------------------------------------------------------------------------
(* TofBringup: the inductive invariant. *)

ByOne   == {"probe", "default", "readdress", "reinit", "fetch", "retry", "refetch"}
Naming  == {"program", "probe", "default", "readdress"}
Named   == {"init", "reinit", "poll", "fetch", "retry", "refetch"}
BoardStates ==
    {"start", "end", "failed", "low", "config", "tests", "toggle", "read back", "lower", "raise",
     "rename", "reinit1", "enable", "measure"} \union ByOne \union Naming \union Named

BringupTypes ==
    /\ bprog \in {"l5", "l1", "toggle"} /\ tpc \in BoardStates
    /\ floating \in BOOLEAN /\ keeps \in BOOLEAN
    /\ cfg \in [Tof!RegSet -> SUBSET Tof!Chans] /\ gpo \in SUBSET Tof!Chans
    /\ addr \in [Tof!Chans -> Nat] /\ inited \in SUBSET Tof!Chans
    /\ idx \in 1 .. N + 1 /\ faults \in Nat /\ resets \in Nat
    /\ tpc \in Naming \union Named \union {"start", "low", "config"} => idx \in 1 .. N
    /\ tpc \in {"start", "low", "config", "tests"} => idx = 1

\* Every channel is an output.
AllDriven == \A s \in Tof!Chans : \A r \in Tof!RegSet : s \in cfg[r]

\* The sensors that are enabled wherever the program relies on it.
EnabledInv ==
    /\ tpc \in ByOne => AllDriven /\ gpo = {idx}
    /\ tpc = "lower" => AllDriven /\ \A t \in 1 .. idx - 1 : Tof!AllChans[t] \notin gpo
    /\ tpc = "raise" => AllDriven /\ gpo = {}
    /\ tpc \in {"rename", "reinit1", "enable"} => AllDriven /\ gpo = {Tof!L1}
    /\ tpc = "measure" => AllDriven /\ gpo = {1, Tof!L1}

\* A sensor is at the default address or at its own.
OwnAddresses ==
    /\ \A s \in Tof!L5 : addr[s] \in {Tof!DEFAULT, Tof!NewAddr(s)}
    /\ addr[Tof!L1] \in {Tof!DEFAULT, Tof!L1_NEW}

AnsweredInv == answered.by \subseteq {answered.driver}

\* How far a boot without a failed transfer is.
CleanInv ==
    /\ tpc = "failed" => ~ (keeps /\ faults = 0)
    /\ faults = 0 /\ tpc \in {"default", "readdress"} => addr[idx] = Tof!DEFAULT
    /\ keeps /\ faults = 0 /\ tpc \in Naming => \A s \in Tof!L5 : s < idx => addr[s] = Tof!NewAddr(s)
    /\ keeps /\ faults = 0 /\ tpc \in Named => \A s \in Tof!L5 : addr[s] = Tof!NewAddr(s)
    /\ tpc = "reinit1" /\ faults = 0 => addr[Tof!L1] = Tof!L1_NEW
    /\ tpc \in {"enable", "measure"} => addr[Tof!L1] = Tof!L1_NEW /\ Tof!L1 \in inited

BringupInv == BringupTypes /\ EnabledInv /\ OwnAddresses /\ AnsweredInv /\ CleanInv

\* The channels, and the addresses, which are all different.
LEMMA Channels ==
    /\ N \in Nat /\ N >= 1 /\ N <= 5
    /\ Tof!L5 = 1 .. N /\ Tof!L1 = 6 /\ Tof!L1 \notin Tof!L5 /\ Tof!L1 \in Tof!Chans
    /\ 1 \in Tof!L5 /\ Tof!L5 \subseteq Tof!Chans
    /\ \A s \in Tof!Chans : s \in Tof!L5 \/ s = Tof!L1
    /\ \A s \in Tof!L5 : Tof!NewAddr(s) \in Nat /\ Tof!NewAddr(s) # Tof!DEFAULT
                         /\ Tof!NewAddr(s) # Tof!L1_NEW
    /\ \A s, t \in Tof!L5 : Tof!NewAddr(s) = Tof!NewAddr(t) => s = t
    /\ Tof!DEFAULT \in Nat /\ Tof!L1_NEW \in Nat /\ Tof!DEFAULT # Tof!L1_NEW
  <1>1. N \in Nat /\ N >= 1 /\ N <= 5
    BY SamplesAssumption
  <1>2. /\ Tof!L5 = 1 .. N /\ Tof!L1 = 6 /\ Tof!L1 \notin Tof!L5 /\ Tof!L1 \in Tof!Chans
        /\ 1 \in Tof!L5 /\ Tof!L5 \subseteq Tof!Chans
        /\ \A s \in Tof!Chans : s \in Tof!L5 \/ s = Tof!L1
    BY <1>1 DEF Tof!L5, Tof!L1, Tof!Chans
  <1>3. \A s \in Tof!L5 : Tof!NewAddr(s) = 48 + s
    BY <1>1, <1>2 DEF Tof!NewAddr, Tof!BASE
  <1>4. \A s \in Tof!L5 : s \in Nat /\ s >= 1
    BY <1>1, <1>2
  <1>. QED  BY <1>1, <1>2, <1>3, <1>4 DEF Tof!DEFAULT, Tof!L1_NEW

\* All the channels, in the order they are configured in.
LEMMA ChannelList ==
    /\ Tof!AllChans \in [1 .. N + 1 -> Tof!Chans] /\ Len(Tof!AllChans) = N + 1
    /\ \A s \in Tof!Chans : \E t \in 1 .. N + 1 : Tof!AllChans[t] = s
    /\ Tof!AllChans[N + 1] = Tof!L1
  <1>1. N \in Nat
    BY Channels
  <1>2. \A t \in 1 .. N + 1 : t <= N => t \in Tof!L5
    BY <1>1, Channels
  <1>3. Tof!AllChans \in [1 .. N + 1 -> Tof!Chans]
    BY <1>2, Channels DEF Tof!AllChans
  <1>4. Len(Tof!AllChans) = N + 1
    <2>1. Tof!AllChans \in Seq(Tof!Chans) /\ DOMAIN Tof!AllChans = 1 .. N + 1
      BY <1>1, <1>3
    <2>2. \A x, y \in Nat : 1 .. x = 1 .. y => x = y
      <3>. SUFFICES ASSUME NEW x \in Nat, NEW y \in Nat, 1 .. x = 1 .. y, x # y PROVE FALSE
        OBVIOUS
      <3>1. CASE x < y
        <4>1. y \in 1 .. y /\ y \notin 1 .. x
          BY <3>1
        <4>. QED  BY <4>1
      <3>2. CASE y < x
        <4>1. x \in 1 .. x /\ x \notin 1 .. y
          BY <3>2
        <4>. QED  BY <4>1
      <3>. QED  BY <3>1, <3>2
    <2>3. Len(Tof!AllChans) \in Nat /\ 1 .. Len(Tof!AllChans) = 1 .. N + 1
      BY <2>1
    <2>4. N + 1 \in Nat
      BY <1>1
    <2>. QED  BY <2>2, <2>3, <2>4
  <1>5. ASSUME NEW s \in Tof!Chans PROVE \E t \in 1 .. N + 1 : Tof!AllChans[t] = s
    <2>1. CASE s \in Tof!L5
      <3>1. s \in 1 .. N + 1 /\ s <= N
        BY <1>1, <2>1, Channels
      <3>. QED  BY <3>1 DEF Tof!AllChans
    <2>2. CASE s = Tof!L1
      <3>1. N + 1 \in 1 .. N + 1 /\ ~ (N + 1 <= N)
        BY <1>1
      <3>. QED  BY <2>2, <3>1 DEF Tof!AllChans
    <2>. QED  BY <2>1, <2>2, Channels
  <1>6. Tof!AllChans[N + 1] = Tof!L1
    <2>1. N + 1 \in 1 .. N + 1 /\ ~ (N + 1 <= N)
      BY <1>1
    <2>. QED  BY <2>1 DEF Tof!AllChans
  <1>. QED  BY <1>3, <1>4, <1>5, <1>6

\* Configuring some bits of some channels leaves registers of channels.
LEMMA ConfiguredTyped ==
    ASSUME cfg \in [Tof!RegSet -> SUBSET Tof!Chans],
           NEW e \in Nat, NEW c \in [1 .. e -> Tof!Chans], NEW x \in 0 .. 3 * e
    PROVE  Tof!Configured(c, x) \in [Tof!RegSet -> SUBSET Tof!Chans]
  <1>1. ASSUME NEW y \in 0 .. x - 1 PROVE 1 + (y \div 3) \in 1 .. e
    <2>1. x \in Int /\ x <= 3 * e /\ y \in Nat /\ y < x
      OBVIOUS
    <2>2. y \div 3 \in Nat /\ 3 * (y \div 3) <= y
      BY <2>1
    <2>. QED  BY <2>1, <2>2
  <1>2. ASSUME NEW r \in Tof!RegSet
        PROVE  {c[1 + (y \div 3)] : y \in {w \in 0 .. x - 1 : Tof!Regs[1 + (w % 3)] = r}}
                 \in SUBSET Tof!Chans
    BY <1>1
  <1>. QED  BY <1>2 DEF Tof!Configured

\* Configuring all bits of all channels drives them all.
LEMMA ConfiguredAll ==
    ASSUME cfg \in [Tof!RegSet -> SUBSET Tof!Chans]
    PROVE  /\ Tof!Configured(Tof!AllChans, 3 * (N + 1)) \in [Tof!RegSet -> SUBSET Tof!Chans]
           /\ \A s \in Tof!Chans : \A r \in Tof!RegSet :
                 s \in Tof!Configured(Tof!AllChans, 3 * (N + 1))[r]
  <1>. DEFINE b == 3 * (N + 1)
  <1>1. N \in Nat /\ N + 1 \in Nat /\ b \in 0 .. 3 * (N + 1) /\ b \in Nat
    BY Channels
  <1>2. Tof!Configured(Tof!AllChans, b) \in [Tof!RegSet -> SUBSET Tof!Chans]
    BY <1>1, ChannelList, ConfiguredTyped
  <1>3. ASSUME NEW s \in Tof!Chans, NEW r \in Tof!RegSet
        PROVE  s \in Tof!Configured(Tof!AllChans, b)[r]
    <2>1. PICK t \in 1 .. N + 1 : Tof!AllChans[t] = s
      BY ChannelList
    <2>2. PICK u \in 1 .. 3 : Tof!Regs[u] = r
      BY DEF Tof!RegSet
    <2>3. PICK y \in Int : y = 3 * (t - 1) + (u - 1)
      BY <1>1
    <2>4. y \in 0 .. b - 1
      BY <1>1, <2>3
    <2>5. y \div 3 = t - 1 /\ y % 3 = u - 1
      BY <1>1, <2>3
    <2>6. 1 + (y \div 3) = t /\ 1 + (y % 3) = u
      BY <1>1, <2>5
    <2>. HIDE DEF b
    <2>7. y \in {w \in 0 .. b - 1 : Tof!Regs[1 + (w % 3)] = r}
      BY <2>2, <2>4, <2>6
    <2>8. Tof!AllChans[1 + (y \div 3)] = s
      BY <2>1, <2>6
    <2>. QED  BY <2>7, <2>8 DEF Tof!Configured
  <1>. QED  BY <1>2, <1>3

\* With every channel driven, those sensors hear that are enabled.
LEMMA DrivenHears ==
    ASSUME gpo \in SUBSET Tof!Chans, AllDriven
    PROVE  \A a \in Nat : Tof!Hears(a) = {s \in gpo : addr[s] = a}
  BY DEF AllDriven, Tof!Hears, Tof!Awake, Tof!Driven

\* What the sensors keep when some of them are disabled.
LEMMA Followed ==
    ASSUME BringupInv, NEW w, Tof!Follow(w)
    PROVE  /\ addr' \in [Tof!Chans -> Nat] /\ inited' \in SUBSET Tof!Chans
           /\ \A s \in Tof!L5 : addr'[s] \in {Tof!DEFAULT, Tof!NewAddr(s)}
           /\ addr'[Tof!L1] \in {Tof!DEFAULT, Tof!L1_NEW}
           /\ keeps => \A s \in Tof!L5 : addr'[s] = addr[s]
           /\ \A s \in Tof!Chans : s \in w => addr'[s] = addr[s] /\ (s \in inited => s \in inited')
  <1>1. /\ addr' = [s \in Tof!Chans |-> IF Tof!Remembers(s, w) THEN addr[s] ELSE Tof!DEFAULT]
        /\ inited' = {s \in inited : Tof!Remembers(s, w)}
    BY DEF Tof!Follow
  <1>2. addr \in [Tof!Chans -> Nat] /\ inited \in SUBSET Tof!Chans /\ OwnAddresses
    BY DEF BringupInv, BringupTypes
  <1>3. addr' \in [Tof!Chans -> Nat] /\ \A s \in Tof!Chans : addr'[s] \in {addr[s], Tof!DEFAULT}
    BY <1>1, <1>2, Channels
  <1>4. \A s \in Tof!Chans : Tof!Remembers(s, w) => addr'[s] = addr[s]
    BY <1>1
  <1>5. inited' \in SUBSET Tof!Chans
    BY <1>1, <1>2
  <1>6. \A s \in Tof!L5 : addr'[s] \in {Tof!DEFAULT, Tof!NewAddr(s)}
    BY <1>2, <1>3, Channels DEF OwnAddresses
  <1>7. addr'[Tof!L1] \in {Tof!DEFAULT, Tof!L1_NEW}
    BY <1>2, <1>3, Channels DEF OwnAddresses
  <1>8. keeps => \A s \in Tof!L5 : addr'[s] = addr[s]
    BY <1>4, Channels DEF Tof!Remembers
  <1>9. \A s \in Tof!Chans : s \in w => addr'[s] = addr[s] /\ (s \in inited => s \in inited')
    BY <1>1, <1>4 DEF Tof!Remembers
  <1>. QED  BY <1>3, <1>5, <1>6, <1>7, <1>8, <1>9

\* A transfer that fails is counted.
LEMMA FaultCounted == ASSUME BringupInv, Tof!Fault PROVE faults' \in Nat /\ faults' # 0
  BY DEF BringupInv, BringupTypes, Tof!Fault

\* A boot that gives up for a reason keeps the invariant.
LEMMA GivesUp ==
    ASSUME BringupInv, tpc' = "failed", faults' \in Nat, ~ (keeps /\ faults' = 0),
           UNCHANGED <<bprog, floating, keeps, resets, answered>>,
           cfg' \in [Tof!RegSet -> SUBSET Tof!Chans], gpo' \in SUBSET Tof!Chans,
           addr' \in [Tof!Chans -> Nat], inited' \in SUBSET Tof!Chans, idx' \in 1 .. N + 1,
           OwnAddresses'
    PROVE  BringupInv'
  <1>1. BringupTypes'
    BY DEF BringupInv, BringupTypes, BoardStates, Naming, Named
  <1>2. EnabledInv' /\ CleanInv'
    BY DEF EnabledInv, CleanInv, ByOne, Naming, Named
  <1>3. AnsweredInv'
    BY DEF BringupInv, AnsweredInv
  <1>. QED  BY <1>1, <1>2, <1>3 DEF BringupInv

\* The configuration of channels fails on the way.
LEMMA ConfigFailsKeeps ==
    ASSUME BringupInv, NEW e \in Nat, NEW c \in [1 .. e -> Tof!Chans], Len(c) = e,
           Tof!ConfigFails(c), Tof!Stay, UNCHANGED idx
    PROVE  BringupInv'
  <1>1. faults' \in Nat /\ faults' # 0 /\ tpc' = "failed"
    BY FaultCounted DEF Tof!ConfigFails
  <1>2. PICK x \in 0 .. 3 * e : Tof!Expander(Tof!Configured(c, x), gpo)
    BY DEF Tof!ConfigFails
  <1>3. cfg' = Tof!Configured(c, x) /\ gpo' = gpo /\ \E w : Tof!Follow(w)
    BY <1>2 DEF Tof!Expander
  <1>4. cfg' \in [Tof!RegSet -> SUBSET Tof!Chans] /\ gpo' \in SUBSET Tof!Chans /\ idx' \in 1 .. N + 1
    BY <1>3, ConfiguredTyped DEF BringupInv, BringupTypes
  <1>5. addr' \in [Tof!Chans -> Nat] /\ inited' \in SUBSET Tof!Chans /\ OwnAddresses'
    BY <1>3, Followed DEF OwnAddresses
  <1>. QED  BY <1>1, <1>4, <1>5, GivesUp DEF Tof!Stay

\* The invariant of TofBringup holds at the start.
LEMMA BringupStart == ASSUME Tof!Init PROVE BringupInv
  <1>1. tpc = "start" /\ idx = 1 /\ faults = 0 /\ resets = 0 /\ answered = Tof!Nobody
    BY DEF Tof!Init
  <1>2. /\ addr \in [Tof!Chans -> Nat] /\ OwnAddresses
    <2>1. CASE addr \in [Tof!Chans -> {Tof!DEFAULT}]
      BY <2>1, Channels DEF OwnAddresses
    <2>2. CASE addr = [s \in Tof!Chans |-> IF s = Tof!L1 THEN Tof!DEFAULT ELSE Tof!NewAddr(s)]
      BY <2>2, Channels DEF OwnAddresses
    <2>. QED  BY <2>1, <2>2 DEF Tof!Init
  <1>3. 1 \in 1 .. N /\ 1 \in 1 .. N + 1
    BY Channels
  <1>4. BringupTypes
    BY <1>1, <1>2, <1>3 DEF Tof!Init, BringupTypes, BoardStates
  <1>5. EnabledInv /\ CleanInv
    BY <1>1 DEF EnabledInv, CleanInv, ByOne, Naming, Named
  <1>6. AnsweredInv
    BY <1>1 DEF AnsweredInv, Tof!Nobody
  <1>. QED  BY <1>2, <1>4, <1>5, <1>6 DEF BringupInv

\* The steps that touch neither the bus nor where the program relies on it.
LEMMA BringupQuietKeeps ==
    ASSUME BringupInv, Tof!WarmReset \/ Tof!NotReady \/ Tof!Ready \/ Tof!RegisterTests \/ Tof!ReadBack
    PROVE  BringupInv'
  <1>1. /\ UNCHANGED <<bprog, cfg, gpo, floating, addr, inited, keeps>>
        /\ tpc' \in {"start", "end", "low", "config", "tests", "failed", "toggle"}
        /\ idx' \in 1 .. N + 1
        /\ tpc' \in {"start", "low", "config", "tests"} => idx' = 1
        /\ faults' \in Nat /\ resets' \in Nat
        /\ tpc' = "failed" => faults' # 0
        /\ answered' \in {answered, Tof!Nobody}
    <2>1. CASE Tof!WarmReset
      <3>1. 1 \in 1 .. N + 1
        BY Channels
      <3>2. resets' \in Nat
        BY <2>1 DEF Tof!WarmReset, BringupInv, BringupTypes
      <3>. QED  BY <2>1, <3>1, <3>2 DEF Tof!WarmReset, Tof!expander, Tof!sensors
    <2>2. CASE Tof!NotReady \/ Tof!RegisterTests \/ Tof!ReadBack
      <3>1. idx \in 1 .. N + 1 /\ resets \in Nat /\ faults \in Nat /\ (tpc = "tests" => idx = 1)
        BY DEF BringupInv, BringupTypes
      <3>2. UNCHANGED faults \/ Tof!Fault
        BY <2>2 DEF Tof!NotReady, Tof!RegisterTests, Tof!ReadBack
      <3>3. faults' \in Nat
        BY <3>1, <3>2, FaultCounted
      <3>4. tpc' = "failed" => faults' # 0
        BY <2>2, FaultCounted DEF Tof!NotReady, Tof!RegisterTests, Tof!ReadBack
      <3>. QED  BY <2>2, <3>1, <3>3, <3>4 DEF Tof!NotReady, Tof!RegisterTests, Tof!ReadBack, Tof!Stay, Tof!locals
    <2>3. CASE Tof!Ready
      <3>1. /\ bprog \in {"l5", "l1", "toggle"} /\ tpc = "start" /\ idx = 1 /\ idx \in 1 .. N + 1
            /\ faults \in Nat /\ resets \in Nat
        BY <2>3 DEF Tof!Ready, BringupInv, BringupTypes
      <3>2. tpc' \in {"low", "config", "tests"}
        BY <2>3, <3>1 DEF Tof!Ready
      <3>. QED  BY <2>3, <3>1, <3>2 DEF Tof!Ready, Tof!Stay, Tof!locals
    <2>. QED  BY <2>1, <2>2, <2>3
  <1>2. BringupTypes'
    <2>1. 1 \in 1 .. N
      BY Channels
    <2>. QED  BY <1>1, <2>1 DEF BringupInv, BringupTypes, BoardStates, Naming, Named
  <1>3. EnabledInv' /\ CleanInv'
    BY <1>1 DEF EnabledInv, CleanInv, ByOne, Naming, Named
  <1>4. AnsweredInv' /\ OwnAddresses'
    BY <1>1 DEF BringupInv, AnsweredInv, OwnAddresses, Tof!Nobody
  <1>. QED  BY <1>2, <1>3, <1>4 DEF BringupInv

-----------------------------------------------------------------------------
(* vl35l5cx_test *)

\* Everything is put low before the first sensor is programmed.
LEMMA ForceLowKeeps == ASSUME BringupInv, Tof!ForceLow PROVE BringupInv'
  <1>1. tpc = "low" /\ Tof!Stay /\ UNCHANGED idx
    BY DEF Tof!ForceLow
  <1>2. idx = 1 /\ idx \in 1 .. N /\ idx \in 1 .. N + 1
    BY <1>1 DEF BringupInv, BringupTypes
  <1>3. CASE Tof!ConfigFails(Tof!AllChans)
    <2>1. N + 1 \in Nat
      BY Channels
    <2>. QED  BY <1>1, <1>3, <2>1, ChannelList, ConfigFailsKeeps
  <1>4. CASE /\ Tof!Expander(Tof!Configured(Tof!AllChans, 3 * (N + 1)), {})
             /\ \/ tpc' = "program" /\ UNCHANGED faults
                \/ tpc' = "failed" /\ Tof!Fault
    <2>1. cfg' = Tof!Configured(Tof!AllChans, 3 * (N + 1)) /\ gpo' = {} /\ \E w : Tof!Follow(w)
      BY <1>4 DEF Tof!Expander
    <2>2. cfg' \in [Tof!RegSet -> SUBSET Tof!Chans] /\ gpo' \in SUBSET Tof!Chans
      BY <2>1, ConfiguredAll DEF BringupInv, BringupTypes
    <2>3. addr' \in [Tof!Chans -> Nat] /\ inited' \in SUBSET Tof!Chans /\ OwnAddresses'
      BY <2>1, Followed DEF OwnAddresses
    <2>4. CASE tpc' = "failed" /\ Tof!Fault
      BY <1>1, <1>2, <2>2, <2>3, <2>4, FaultCounted, GivesUp DEF Tof!Stay
    <2>5. CASE tpc' = "program" /\ UNCHANGED faults
      <3>1. BringupTypes'
        BY <1>1, <1>2, <2>2, <2>3, <2>5 DEF BringupInv, BringupTypes, BoardStates, Naming, Tof!Stay
      <3>2. EnabledInv'
        BY <2>5 DEF EnabledInv, ByOne
      <3>3. CleanInv'
        <4>1. \A s \in Tof!L5 : ~ (s < idx)
          BY <1>2, Channels
        <4>. QED  BY <1>1, <2>5, <4>1 DEF CleanInv, Named
      <3>4. AnsweredInv'
        BY <1>1 DEF BringupInv, AnsweredInv, Tof!Stay
      <3>. QED  BY <2>3, <3>1, <3>2, <3>3, <3>4 DEF BringupInv
    <2>. QED  BY <1>4, <2>4, <2>5
  <1>. QED  BY <1>3, <1>4 DEF Tof!ForceLow

\* One sensor is enabled, and no other.
LEMMA EnableOneKeeps == ASSUME BringupInv, Tof!EnableOne PROVE BringupInv'
  <1>1. tpc \in {"program", "init", "poll"} /\ Tof!Stay /\ UNCHANGED idx
    BY DEF Tof!EnableOne, Tof!AfterEnable
  <1>2. idx \in 1 .. N /\ idx \in 1 .. N + 1 /\ idx \in Tof!L5 /\ idx \in Tof!Chans
    BY <1>1, Channels DEF BringupInv, BringupTypes, Naming, Named
  <1>3. CASE Tof!ConfigFails(Tof!AllChans)
    <2>1. N + 1 \in Nat
      BY Channels
    <2>. QED  BY <1>1, <1>3, <2>1, ChannelList, ConfigFailsKeeps
  <1>4. CASE /\ cfg' = Tof!Configured(Tof!AllChans, 3 * (N + 1)) /\ Tof!Follow({})
             /\ \/ gpo' = {idx} /\ tpc' = Tof!AfterEnable[tpc] /\ UNCHANGED faults
                \/ gpo' \in {{}, {idx}} /\ tpc' = "failed" /\ Tof!Fault
    <2>1. cfg' \in [Tof!RegSet -> SUBSET Tof!Chans] /\ gpo' \in SUBSET Tof!Chans /\ AllDriven'
      BY <1>2, <1>4, ConfiguredAll DEF BringupInv, BringupTypes, AllDriven
    <2>2. addr' \in [Tof!Chans -> Nat] /\ inited' \in SUBSET Tof!Chans /\ OwnAddresses'
      BY <1>4, Followed DEF OwnAddresses
    <2>3. CASE tpc' = "failed" /\ Tof!Fault
      BY <1>1, <1>2, <2>1, <2>2, <2>3, FaultCounted, GivesUp DEF Tof!Stay
    <2>4. CASE gpo' = {idx} /\ tpc' = Tof!AfterEnable[tpc] /\ UNCHANGED faults
      <3>1. /\ tpc = "program" => tpc' = "probe"
            /\ tpc = "init" => tpc' = "reinit"
            /\ tpc = "poll" => tpc' = "fetch"
        BY <2>4 DEF Tof!AfterEnable
      <3>2. tpc' \in {"probe", "reinit", "fetch"}
        BY <1>1, <3>1
      <3>3. BringupTypes'
        BY <1>1, <1>2, <2>1, <2>2, <2>4, <3>2
           DEF BringupInv, BringupTypes, BoardStates, Naming, Named, Tof!Stay
      <3>4. EnabledInv'
        BY <1>1, <2>1, <2>4, <3>2 DEF EnabledInv, ByOne
      <3>5. keeps => \A s \in Tof!L5 : addr'[s] = addr[s]
        BY <1>4, Followed
      <3>6. CleanInv'
        BY <1>1, <2>4, <3>1, <3>5 DEF BringupInv, CleanInv, Naming, Named, Tof!Stay
      <3>7. AnsweredInv'
        BY <1>1 DEF BringupInv, AnsweredInv, Tof!Stay
      <3>. QED  BY <2>2, <3>3, <3>4, <3>6, <3>7 DEF BringupInv
    <2>. QED  BY <1>4, <2>3, <2>4
  <1>5. \/ Tof!ConfigFails(Tof!AllChans)
        \/ /\ cfg' = Tof!Configured(Tof!AllChans, 3 * (N + 1)) /\ Tof!Follow({})
           /\ \/ gpo' = {idx} /\ tpc' = Tof!AfterEnable[tpc] /\ UNCHANGED faults
              \/ gpo' \in {{}, {idx}} /\ tpc' = "failed" /\ Tof!Fault
    BY DEF Tof!EnableOne
  <1>. QED  BY <1>3, <1>4, <1>5

\* Which sensors hear and are identified while one is enabled.
LEMMA OneHears ==
    ASSUME BringupInv, tpc \in ByOne
    PROVE  /\ idx \in Tof!L5 /\ idx \in 1 .. N /\ idx \in 1 .. N + 1
           /\ \A a \in Nat : Tof!Hears(a) = IF addr[idx] = a THEN {idx} ELSE {}
           /\ \A a \in Nat : Tof!Identified(a) = Tof!Hears(a)
           /\ Tof!NewAddr(idx) \in Nat /\ Tof!DEFAULT \in Nat
  <1>1. idx \in 1 .. N
    BY DEF BringupInv, BringupTypes, ByOne, Naming, Named
  <1>2. idx \in Tof!L5 /\ idx \in 1 .. N + 1 /\ idx # Tof!L1
    BY <1>1, Channels
  <1>3. AllDriven /\ gpo = {idx} /\ gpo \in SUBSET Tof!Chans
    BY DEF BringupInv, BringupTypes, EnabledInv
  <1>4. \A a \in Nat : Tof!Hears(a) = {s \in {idx} : addr[s] = a}
    BY <1>3, DrivenHears
  <1>5. \A a \in Nat : Tof!Hears(a) = IF addr[idx] = a THEN {idx} ELSE {}
    BY <1>4
  <1>6. \A a \in Nat : Tof!Identified(a) = Tof!Hears(a)
    BY <1>2, <1>5 DEF Tof!Identified
  <1>. QED  BY <1>1, <1>2, <1>5, <1>6, Channels

\* Where the program goes after a sensor is done.
LEMMA Advanced ==
    ASSUME BringupInv, tpc \in ByOne, NEW x, NEW y, Tof!Advance(x, y)
    PROVE  /\ idx' \in 1 .. N /\ idx' \in 1 .. N + 1
           /\ \/ tpc' = x /\ idx' = idx + 1
              \/ tpc' = y /\ idx = N
  <1>1. idx \in 1 .. N /\ N \in Nat /\ N >= 1
    BY OneHears, Channels
  <1>2. CASE idx < N
    BY <1>1, <1>2 DEF Tof!Advance
  <1>3. CASE ~ (idx < N)
    BY <1>1, <1>3 DEF Tof!Advance
  <1>. QED  BY <1>2, <1>3

\* A sensor that has its address is done: the step to the next one keeps the invariant.
LEMMA NamedKeeps ==
    ASSUME BringupInv, tpc \in ByOne \intersect Naming, Tof!Advance("program", "init"),
           UNCHANGED <<bprog, floating, keeps, resets, answered, cfg, gpo, inited, faults>>,
           addr' \in [Tof!Chans -> Nat], OwnAddresses',
           \A s \in Tof!L5 : s # idx => addr'[s] = addr[s],
           addr'[idx] = Tof!NewAddr(idx)
    PROVE  BringupInv'
  <1>1. /\ idx' \in 1 .. N /\ idx' \in 1 .. N + 1
        /\ \/ tpc' = "program" /\ idx' = idx + 1
           \/ tpc' = "init" /\ idx = N
    BY Advanced
  <1>2. BringupTypes'
    BY <1>1 DEF BringupInv, BringupTypes, BoardStates, Naming, Named
  <1>3. EnabledInv' /\ AnsweredInv'
    BY <1>1 DEF BringupInv, EnabledInv, AnsweredInv, ByOne
  <1>4. CleanInv'
    <2>1. idx \in 1 .. N /\ idx \in Tof!L5 /\ N \in Nat /\ Tof!L5 = 1 .. N
      BY OneHears, Channels
    <2>2. keeps /\ faults = 0 => \A s \in Tof!L5 : s < idx => addr[s] = Tof!NewAddr(s)
      BY DEF BringupInv, CleanInv
    <2>3. keeps /\ faults = 0 => \A s \in Tof!L5 : s <= idx => addr'[s] = Tof!NewAddr(s)
      BY <2>1, <2>2
    <2>4. CASE tpc' = "program" /\ idx' = idx + 1
      <3>1. \A s \in Tof!L5 : s < idx' => s <= idx
        BY <2>1, <2>4
      <3>. QED  BY <2>3, <2>4, <3>1 DEF CleanInv, Naming, Named
    <2>5. CASE tpc' = "init" /\ idx = N
      <3>1. \A s \in Tof!L5 : s <= idx
        BY <2>1, <2>5
      <3>. QED  BY <2>3, <2>5, <3>1 DEF CleanInv, Naming, Named
    <2>. QED  BY <1>1, <2>4, <2>5
  <1>. QED  BY <1>2, <1>3, <1>4 DEF BringupInv

\* Is the sensor at its address already?
LEMMA ProbeTargetKeeps == ASSUME BringupInv, Tof!ProbeTarget PROVE BringupInv'
  <1>1. tpc = "probe" /\ Tof!Stay /\ UNCHANGED <<cfg, gpo, addr, inited>>
    BY DEF Tof!ProbeTarget
  <1>2. tpc \in ByOne /\ tpc \in Naming
    BY <1>1 DEF ByOne, Naming
  <1>3. /\ idx \in Tof!L5 /\ idx \in 1 .. N /\ idx \in 1 .. N + 1
        /\ Tof!Identified(Tof!NewAddr(idx)) = IF addr[idx] = Tof!NewAddr(idx) THEN {idx} ELSE {}
    BY <1>2, OneHears
  <1>4. CASE Tof!Identified(Tof!NewAddr(idx)) # {} /\ Tof!Advance("program", "init") /\ UNCHANGED faults
    <2>1. addr'[idx] = Tof!NewAddr(idx)
      BY <1>1, <1>3, <1>4
    <2>2. addr' \in [Tof!Chans -> Nat] /\ OwnAddresses'
      BY <1>1 DEF BringupInv, BringupTypes, OwnAddresses
    <2>. QED  BY <1>1, <1>2, <1>4, <2>1, <2>2, NamedKeeps DEF Tof!Stay
  <1>5. CASE /\ IF Tof!Identified(Tof!NewAddr(idx)) = {} THEN UNCHANGED faults ELSE Tof!Fault
             /\ tpc' = "default" /\ UNCHANGED idx
    <2>1. faults' \in Nat /\ (faults' = 0 => faults = 0 /\ addr[idx] = Tof!DEFAULT)
      <3>1. CASE Tof!Fault
        BY <3>1, FaultCounted
      <3>2. CASE Tof!Identified(Tof!NewAddr(idx)) = {} /\ UNCHANGED faults
        <4>1. addr[idx] # Tof!NewAddr(idx)
          BY <1>3, <3>2
        <4>2. addr[idx] \in {Tof!DEFAULT, Tof!NewAddr(idx)}
          BY <1>3 DEF BringupInv, OwnAddresses
        <4>. QED  BY <3>2, <4>1, <4>2 DEF BringupInv, BringupTypes
      <3>. QED  BY <1>5, <3>1, <3>2
    <2>2. BringupTypes'
      BY <1>1, <1>3, <1>5, <2>1 DEF BringupInv, BringupTypes, BoardStates, Naming, Named, Tof!Stay
    <2>3. EnabledInv'
      BY <1>1, <1>2, <1>5 DEF BringupInv, EnabledInv, ByOne, AllDriven
    <2>4. OwnAddresses' /\ AnsweredInv'
      BY <1>1 DEF BringupInv, OwnAddresses, AnsweredInv, Tof!Stay
    <2>5. CleanInv'
      BY <1>1, <1>2, <1>5, <2>1 DEF BringupInv, CleanInv, Naming, Named, Tof!Stay
    <2>. QED  BY <2>2, <2>3, <2>4, <2>5 DEF BringupInv
  <1>. QED  BY <1>4, <1>5 DEF Tof!ProbeTarget

\* Otherwise it is at the default address.
LEMMA ProbeDefaultKeeps == ASSUME BringupInv, Tof!ProbeDefault PROVE BringupInv'
  <1>1. tpc = "default" /\ Tof!Stay /\ UNCHANGED <<cfg, gpo, addr, inited, idx>>
    BY DEF Tof!ProbeDefault
  <1>2. tpc \in ByOne /\ tpc \in Naming
    BY <1>1 DEF ByOne, Naming
  <1>3. /\ idx \in Tof!L5 /\ idx \in 1 .. N /\ idx \in 1 .. N + 1
        /\ Tof!Identified(Tof!DEFAULT) = IF addr[idx] = Tof!DEFAULT THEN {idx} ELSE {}
    BY <1>2, OneHears
  <1>4. OwnAddresses' /\ AnsweredInv'
    BY <1>1 DEF BringupInv, OwnAddresses, AnsweredInv, Tof!Stay
  <1>5. faults = 0 => addr[idx] = Tof!DEFAULT
    BY <1>1 DEF BringupInv, CleanInv
  <1>6. CASE tpc' = "readdress" /\ UNCHANGED faults
    <2>2. BringupTypes'
      BY <1>1, <1>3, <1>6 DEF BringupInv, BringupTypes, BoardStates, Naming, Named, ByOne, Tof!Stay
    <2>3. EnabledInv'
      BY <1>1, <1>2, <1>6 DEF BringupInv, EnabledInv, ByOne, AllDriven
    <2>5. CleanInv'
      BY <1>1, <1>2, <1>6 DEF BringupInv, CleanInv, Naming, Named, Tof!Stay
    <2>. QED  BY <1>4, <2>2, <2>3, <2>5 DEF BringupInv
  <1>7. CASE /\ IF Tof!Identified(Tof!DEFAULT) = {} THEN UNCHANGED faults ELSE Tof!Fault
             /\ tpc' = "failed"
    <2>1. faults' \in Nat /\ faults' # 0
      <3>1. CASE Tof!Fault
        BY <3>1, FaultCounted
      <3>2. CASE Tof!Identified(Tof!DEFAULT) = {} /\ UNCHANGED faults
        BY <1>3, <1>5, <3>2 DEF BringupInv, BringupTypes
      <3>. QED  BY <1>7, <3>1, <3>2
    <2>2. /\ cfg' \in [Tof!RegSet -> SUBSET Tof!Chans] /\ gpo' \in SUBSET Tof!Chans
          /\ addr' \in [Tof!Chans -> Nat] /\ inited' \in SUBSET Tof!Chans /\ idx' \in 1 .. N + 1
      BY <1>1 DEF BringupInv, BringupTypes
    <2>. QED  BY <1>1, <1>4, <1>7, <2>1, <2>2, GivesUp DEF Tof!Stay
  <1>. QED  BY <1>6, <1>7 DEF Tof!ProbeDefault

\* What a new address does to the sensors, when only the one it is for hears.
LEMMA Moved ==
    ASSUME BringupInv, tpc \in ByOne, Tof!Move(Tof!DEFAULT, Tof!NewAddr(idx))
    PROVE  /\ addr' \in [Tof!Chans -> Nat] /\ OwnAddresses'
           /\ \A s \in Tof!L5 : s # idx => addr'[s] = addr[s]
           /\ addr[idx] = Tof!DEFAULT => addr'[idx] = Tof!NewAddr(idx)
  <1>1. /\ addr' = [s \in Tof!Chans |-> IF s \in Tof!Hears(Tof!DEFAULT) THEN Tof!NewAddr(idx) ELSE addr[s]]
        /\ addr \in [Tof!Chans -> Nat] /\ OwnAddresses
    BY DEF Tof!Move, BringupInv, BringupTypes
  <1>2. /\ idx \in Tof!L5 /\ Tof!NewAddr(idx) \in Nat
        /\ Tof!Hears(Tof!DEFAULT) = IF addr[idx] = Tof!DEFAULT THEN {idx} ELSE {}
    BY OneHears
  <1>3. addr' \in [Tof!Chans -> Nat]
    BY <1>1, <1>2
  <1>4. \A s \in Tof!Chans : s # idx => addr'[s] = addr[s]
    BY <1>1, <1>2
  <1>5. addr'[idx] \in {addr[idx], Tof!NewAddr(idx)}
        /\ (addr[idx] = Tof!DEFAULT => addr'[idx] = Tof!NewAddr(idx))
    BY <1>1, <1>2, Channels
  <1>6. OwnAddresses'
    BY <1>1, <1>2, <1>4, <1>5, Channels DEF OwnAddresses
  <1>. QED  BY <1>3, <1>4, <1>5, <1>6, Channels

\* The sensor gets its address, or the attempt fails with or without having moved it.
LEMMA ReaddressKeeps == ASSUME BringupInv, Tof!Readdress PROVE BringupInv'
  <1>1. tpc = "readdress" /\ Tof!Stay /\ UNCHANGED <<cfg, gpo, inited>>
    BY DEF Tof!Readdress
  <1>2. tpc \in ByOne /\ tpc \in Naming
    BY <1>1 DEF ByOne, Naming
  <1>3. /\ idx \in Tof!L5 /\ idx \in 1 .. N /\ idx \in 1 .. N + 1
        /\ Tof!Hears(Tof!DEFAULT) = IF addr[idx] = Tof!DEFAULT THEN {idx} ELSE {}
    BY <1>2, OneHears
  <1>4. CASE Tof!Hears(Tof!DEFAULT) # {} /\ Tof!Move(Tof!DEFAULT, Tof!NewAddr(idx))
             /\ Tof!Advance("program", "init") /\ UNCHANGED faults
    <2>1. addr[idx] = Tof!DEFAULT
      BY <1>3, <1>4
    <2>. QED  BY <1>1, <1>2, <1>4, <2>1, Moved, NamedKeeps DEF Tof!Stay
  <1>5. CASE /\ \/ Tof!Hears(Tof!DEFAULT) = {} /\ UNCHANGED <<addr, faults>>
                \/ Tof!Fault /\ (UNCHANGED addr \/ Tof!Move(Tof!DEFAULT, Tof!NewAddr(idx)))
             /\ tpc' \in {"readdress", "failed"} /\ UNCHANGED idx
    <2>1. faults' \in Nat /\ faults' # 0
      <3>1. CASE Tof!Fault
        BY <3>1, FaultCounted
      <3>2. CASE Tof!Hears(Tof!DEFAULT) = {} /\ UNCHANGED faults
        <4>1. addr[idx] # Tof!DEFAULT
          BY <1>3, <3>2
        <4>. QED  BY <1>1, <3>2, <4>1 DEF BringupInv, BringupTypes, CleanInv
      <3>. QED  BY <1>5, <3>1, <3>2
    <2>2. addr' \in [Tof!Chans -> Nat] /\ OwnAddresses'
      <3>1. CASE UNCHANGED addr
        BY <3>1 DEF BringupInv, BringupTypes, OwnAddresses
      <3>2. CASE Tof!Move(Tof!DEFAULT, Tof!NewAddr(idx))
        BY <1>2, <3>2, Moved
      <3>. QED  BY <1>5, <3>1, <3>2
    <2>3. BringupTypes'
      BY <1>1, <1>3, <1>5, <2>1, <2>2
         DEF BringupInv, BringupTypes, BoardStates, Naming, Named, ByOne, Tof!Stay
    <2>4. EnabledInv'
      BY <1>1, <1>2, <1>5 DEF BringupInv, EnabledInv, ByOne, AllDriven
    <2>5. CleanInv'
      BY <1>5, <2>1 DEF CleanInv
    <2>6. AnsweredInv'
      BY <1>1 DEF BringupInv, AnsweredInv, Tof!Stay
    <2>. QED  BY <2>2, <2>3, <2>4, <2>5, <2>6 DEF BringupInv
  <1>6. \/ /\ Tof!Hears(Tof!DEFAULT) # {} /\ Tof!Move(Tof!DEFAULT, Tof!NewAddr(idx))
           /\ Tof!Advance("program", "init") /\ UNCHANGED faults
        \/ /\ \/ Tof!Hears(Tof!DEFAULT) = {} /\ UNCHANGED <<addr, faults>>
              \/ Tof!Fault /\ (UNCHANGED addr \/ Tof!Move(Tof!DEFAULT, Tof!NewAddr(idx)))
           /\ tpc' \in {"readdress", "failed"} /\ UNCHANGED idx
    BY DEF Tof!Readdress
  <1>. QED  BY <1>4, <1>5, <1>6

\* A step of the initialisation or of the polling, after which all sensors still have
\* their addresses.
LEMMA PollKeeps ==
    ASSUME BringupInv, tpc \in ByOne \intersect Named,
           UNCHANGED <<bprog, floating, keeps, resets, cfg, gpo, addr>>,
           inited' \in SUBSET Tof!Chans, faults' \in Nat, faults' = 0 => faults = 0, AnsweredInv',
           \/ tpc' \in {"retry", "refetch"} /\ idx' = idx
           \/ tpc' \in {"init", "poll"} /\ idx' \in 1 .. N
    PROVE  BringupInv'
  <1>1. idx \in 1 .. N /\ idx' \in 1 .. N /\ idx' \in 1 .. N + 1
    BY OneHears, Channels
  <1>2. BringupTypes'
    BY <1>1 DEF BringupInv, BringupTypes, BoardStates, Naming, Named, ByOne
  <1>3. EnabledInv'
    BY DEF BringupInv, EnabledInv, ByOne, AllDriven
  <1>4. OwnAddresses'
    BY DEF BringupInv, OwnAddresses
  <1>5. CleanInv'
    BY DEF BringupInv, CleanInv, Naming, Named
  <1>. QED  BY <1>2, <1>3, <1>4, <1>5 DEF BringupInv

\* The driver of a sensor is set up.
LEMMA ReinitKeeps == ASSUME BringupInv, Tof!Reinit PROVE BringupInv'
  <1>1. tpc = "reinit" /\ Tof!Stay /\ UNCHANGED <<cfg, gpo, addr>>
    BY DEF Tof!Reinit
  <1>2. tpc \in ByOne /\ tpc \in Named
    BY <1>1 DEF ByOne, Named
  <1>3. /\ idx \in Tof!L5 /\ idx \in 1 .. N /\ idx \in 1 .. N + 1
        /\ Tof!Hears(Tof!NewAddr(idx)) = IF addr[idx] = Tof!NewAddr(idx) THEN {idx} ELSE {}
    BY <1>2, OneHears
  <1>4. inited \in SUBSET Tof!Chans /\ faults \in Nat /\ AnsweredInv'
    BY <1>1 DEF BringupInv, BringupTypes, AnsweredInv, Tof!Stay
  <1>5. CASE /\ Tof!Advance("init", "poll") /\ UNCHANGED faults
             /\ inited' = inited \union Tof!Hears(Tof!NewAddr(idx))
    <2>1. inited' \in SUBSET Tof!Chans
      BY <1>3, <1>4, <1>5, Channels
    <2>2. tpc' \in {"init", "poll"} /\ idx' \in 1 .. N
      BY <1>2, <1>5, Advanced
    <2>. QED  BY <1>1, <1>2, <1>4, <1>5, <2>1, <2>2, PollKeeps DEF Tof!Stay
  <1>6. CASE /\ IF Tof!Hears(Tof!NewAddr(idx)) = {} THEN UNCHANGED faults ELSE Tof!Fault
             /\ tpc' = "failed" /\ UNCHANGED <<inited, idx>>
    <2>1. faults' \in Nat /\ ~ (keeps /\ faults' = 0)
      <3>1. CASE Tof!Fault
        BY <3>1, FaultCounted
      <3>2. CASE Tof!Hears(Tof!NewAddr(idx)) = {} /\ UNCHANGED faults
        <4>1. addr[idx] # Tof!NewAddr(idx)
          BY <1>3, <3>2
        <4>. QED  BY <1>2, <1>3, <1>4, <3>2, <4>1 DEF BringupInv, CleanInv
      <3>. QED  BY <1>6, <3>1, <3>2
    <2>2. /\ cfg' \in [Tof!RegSet -> SUBSET Tof!Chans] /\ gpo' \in SUBSET Tof!Chans
          /\ addr' \in [Tof!Chans -> Nat] /\ inited' \in SUBSET Tof!Chans /\ idx' \in 1 .. N + 1
          /\ OwnAddresses'
      BY <1>1, <1>6 DEF BringupInv, BringupTypes, OwnAddresses
    <2>. QED  BY <1>1, <1>6, <2>1, <2>2, GivesUp DEF Tof!Stay
  <1>. QED  BY <1>5, <1>6 DEF Tof!Reinit

\* A sensor is read, and read again after one reinit.
LEMMA FetchKeeps == ASSUME BringupInv, Tof!Fetch \/ Tof!RetryReinit PROVE BringupInv'
  <1>1. /\ tpc \in {"fetch", "refetch", "retry"}
        /\ UNCHANGED <<bprog, floating, keeps, resets, cfg, gpo, addr>>
    BY DEF Tof!Fetch, Tof!RetryReinit, Tof!Stay
  <1>2. tpc \in ByOne /\ tpc \in Named
    BY <1>1 DEF ByOne, Named
  <1>3. idx \in Tof!L5 /\ Tof!Hears(Tof!NewAddr(idx)) \subseteq {idx}
    BY <1>2, OneHears
  <1>4. inited \in SUBSET Tof!Chans /\ faults \in Nat /\ AnsweredInv
    BY DEF BringupInv, BringupTypes
  <1>5. \/ tpc' \in {"retry", "refetch"} /\ idx' = idx
        \/ tpc' \in {"init", "poll"} /\ idx' \in 1 .. N
    <2>1. CASE Tof!Advance("poll", "poll")
      BY <1>2, <2>1, Advanced
    <2>2. CASE tpc' \in {"retry", "refetch"} /\ idx' = idx
      BY <2>2
    <2>. QED  BY <2>1, <2>2 DEF Tof!Fetch, Tof!RetryReinit
  <1>6. UNCHANGED faults \/ Tof!Fault
    BY DEF Tof!Fetch, Tof!RetryReinit
  <1>7. faults' \in Nat /\ (faults' = 0 => faults = 0)
    BY <1>4, <1>6, FaultCounted
  <1>8. inited' \in SUBSET Tof!Chans
    BY <1>3, <1>4, Channels DEF Tof!Fetch, Tof!RetryReinit
  <1>9. AnsweredInv'
    <2>1. UNCHANGED answered \/ answered' = [driver |-> idx, by |-> Tof!Hears(Tof!NewAddr(idx))]
      BY DEF Tof!Fetch, Tof!RetryReinit, Tof!Stay
    <2>. QED  BY <1>3, <1>4, <2>1 DEF AnsweredInv
  <1>. QED  BY <1>1, <1>2, <1>5, <1>7, <1>8, <1>9, PollKeeps

-----------------------------------------------------------------------------
(* sensor_bringup and ads7128_test *)

\* The channels are made outputs.
LEMMA ConfigureBoardKeeps == ASSUME BringupInv, Tof!Configure PROVE BringupInv'
  <1>1. tpc = "config" /\ Tof!Stay /\ UNCHANGED idx /\ idx = 1 /\ idx \in 1 .. N /\ idx \in 1 .. N + 1
    BY DEF Tof!Configure, Tof!locals, BringupInv, BringupTypes
  <1>. DEFINE e == IF bprog = "l1" THEN N + 1 ELSE 1
  <1>2. e \in Nat /\ Tof!Outputs \in [1 .. e -> Tof!Chans] /\ Len(Tof!Outputs) = e
    <2>1. CASE bprog = "l1"
      BY <2>1, Channels, ChannelList DEF Tof!Outputs
    <2>2. CASE bprog # "l1"
      BY <2>2, Channels DEF Tof!Outputs
    <2>. QED  BY <2>1, <2>2
  <1>. HIDE DEF e
  <1>3. CASE Tof!ConfigFails(Tof!Outputs)
    BY <1>1, <1>2, <1>3, ConfigFailsKeeps
  <1>4. CASE /\ Tof!Expander(Tof!Configured(Tof!Outputs, 3 * Len(Tof!Outputs)), gpo)
             /\ tpc' = (IF bprog = "l1" THEN "lower" ELSE "toggle") /\ UNCHANGED faults
    <2>1. /\ cfg' = Tof!Configured(Tof!Outputs, 3 * Len(Tof!Outputs)) /\ gpo' = gpo
          /\ \E w : Tof!Follow(w)
      BY <1>4 DEF Tof!Expander
    <2>2. cfg' \in [Tof!RegSet -> SUBSET Tof!Chans]
      <3>1. 3 * Len(Tof!Outputs) \in 0 .. 3 * e
        BY <1>2
      <3>. QED  BY <1>2, <2>1, <3>1, ConfiguredTyped DEF BringupInv, BringupTypes
    <2>3. bprog = "l1" => AllDriven'
      <3>. SUFFICES ASSUME bprog = "l1" PROVE AllDriven'
        OBVIOUS
      <3>1. cfg' = Tof!Configured(Tof!AllChans, 3 * (N + 1))
        BY <2>1, ChannelList DEF Tof!Outputs
      <3>. QED  BY <3>1, ConfiguredAll DEF AllDriven, BringupInv, BringupTypes
    <2>4. addr' \in [Tof!Chans -> Nat] /\ inited' \in SUBSET Tof!Chans /\ OwnAddresses'
      BY <2>1, Followed DEF OwnAddresses
    <2>5. BringupTypes'
      BY <1>1, <1>4, <2>1, <2>2, <2>4
         DEF BringupInv, BringupTypes, BoardStates, Naming, Named, Tof!Stay
    <2>6. EnabledInv'
      <3>1. \A t \in 1 .. idx' - 1 : FALSE
        BY <1>1
      <3>. QED  BY <1>4, <2>3, <3>1 DEF EnabledInv, ByOne
    <2>7. CleanInv'
      BY <1>4 DEF CleanInv, Naming, Named
    <2>8. AnsweredInv'
      BY <1>1 DEF BringupInv, AnsweredInv, Tof!Stay
    <2>. QED  BY <2>4, <2>5, <2>6, <2>7, <2>8 DEF BringupInv
  <1>. QED  BY <1>3, <1>4 DEF Tof!Configure

\* What a write to the enables does, whether it is reported as failed or not.
LEMMA GpioWritten ==
    ASSUME BringupInv, NEW c \in Tof!Chans, NEW v,
           Tof!WriteGpio(c, v) \/ Tof!WriteGpioFails(c, v)
    PROVE  /\ cfg' = cfg /\ gpo' \in {gpo, Tof!GpoWith(c, v)} /\ gpo' \in SUBSET Tof!Chans
           /\ addr' \in [Tof!Chans -> Nat] /\ inited' \in SUBSET Tof!Chans /\ OwnAddresses'
           /\ AllDriven => \A s \in gpo' : addr'[s] = addr[s] /\ (s \in inited => s \in inited')
           /\ Tof!WriteGpio(c, v) => gpo' = Tof!GpoWith(c, v) /\ UNCHANGED faults
           /\ Tof!WriteGpioFails(c, v) => faults' \in Nat /\ faults' # 0
           /\ faults' \in Nat
  <1>1. cfg' = cfg /\ gpo' \in {gpo, Tof!GpoWith(c, v)} /\ Tof!Follow(Tof!Awake(cfg, gpo'))
    BY DEF Tof!WriteGpio, Tof!WriteGpioFails, Tof!Expander
  <1>2. gpo \in SUBSET Tof!Chans /\ faults \in Nat
    BY DEF BringupInv, BringupTypes
  <1>3. gpo' \in SUBSET Tof!Chans
    BY <1>1, <1>2 DEF Tof!GpoWith
  <1>4. addr' \in [Tof!Chans -> Nat] /\ inited' \in SUBSET Tof!Chans /\ OwnAddresses'
    BY <1>1, Followed DEF OwnAddresses
  <1>5. AllDriven => \A s \in gpo' : addr'[s] = addr[s] /\ (s \in inited => s \in inited')
    <2>. SUFFICES ASSUME AllDriven, NEW s \in gpo'
                  PROVE  addr'[s] = addr[s] /\ (s \in inited => s \in inited')
      OBVIOUS
    <2>1. s \in Tof!Chans /\ s \in Tof!Awake(cfg, gpo')
      BY <1>3 DEF AllDriven, Tof!Awake, Tof!Driven
    <2>. QED  BY <1>1, <2>1, Followed
  <1>6. Tof!WriteGpio(c, v) => gpo' = Tof!GpoWith(c, v) /\ UNCHANGED faults
    BY DEF Tof!WriteGpio, Tof!Expander
  <1>7. Tof!WriteGpioFails(c, v) => faults' \in Nat /\ faults' # 0
    BY FaultCounted DEF Tof!WriteGpioFails
  <1>8. faults' \in Nat
    BY <1>2, <1>6, <1>7
  <1>. QED  BY <1>1, <1>3, <1>4, <1>5, <1>6, <1>7, <1>8

\* The enables are put low one after the other.
LEMMA LowerKeeps == ASSUME BringupInv, Tof!Lower PROVE BringupInv'
  <1>1. tpc = "lower" /\ Tof!Stay /\ idx \in 1 .. N + 1 /\ N \in Nat
    BY Channels DEF Tof!Lower, BringupInv, BringupTypes
  <1>2. PICK c \in Tof!Chans : c = Tof!AllChans[idx]
    BY <1>1, ChannelList
  <1>3. AllDriven /\ \A t \in 1 .. idx - 1 : Tof!AllChans[t] \notin gpo
    BY <1>1 DEF BringupInv, EnabledInv
  <1>4. CASE Tof!WriteGpioFails(c, 0) /\ tpc' = "failed" /\ UNCHANGED idx
    <2>1. cfg' \in [Tof!RegSet -> SUBSET Tof!Chans]
      BY <1>4, GpioWritten DEF BringupInv, BringupTypes
    <2>. QED  BY <1>1, <1>4, <2>1, GpioWritten, GivesUp DEF Tof!Stay
  <1>5. CASE /\ Tof!WriteGpio(c, 0)
             /\ idx' = IF idx <= N THEN idx + 1 ELSE 1
             /\ tpc' = IF idx <= N THEN "lower" ELSE "raise"
    <2>1. /\ cfg' = cfg /\ gpo' = gpo \ {c} /\ gpo' \in SUBSET Tof!Chans
          /\ addr' \in [Tof!Chans -> Nat] /\ inited' \in SUBSET Tof!Chans /\ OwnAddresses'
          /\ UNCHANGED faults
      BY <1>5, GpioWritten DEF Tof!GpoWith
    <2>2. \A t \in 1 .. idx : Tof!AllChans[t] \notin gpo'
      <3>. SUFFICES ASSUME NEW t \in 1 .. idx PROVE Tof!AllChans[t] \notin gpo'
        OBVIOUS
      <3>1. CASE t = idx
        BY <1>2, <2>1, <3>1
      <3>2. CASE t # idx
        <4>1. t \in 1 .. idx - 1
          BY <1>1, <3>2
        <4>. QED  BY <1>3, <2>1, <4>1
      <3>. QED  BY <3>1, <3>2
    <2>3. \/ tpc' = "lower" /\ idx' \in 1 .. N + 1 /\ idx' - 1 = idx
          \/ tpc' = "raise" /\ idx' \in 1 .. N + 1 /\ idx = N + 1
      BY <1>1, <1>5
    <2>4. tpc' = "raise" => gpo' = {}
      BY <2>1, <2>2, <2>3, ChannelList
    <2>5. BringupTypes'
      BY <1>1, <2>1, <2>3 DEF BringupInv, BringupTypes, BoardStates, Naming, Named, Tof!Stay
    <2>6. EnabledInv'
      BY <1>3, <2>1, <2>2, <2>3, <2>4 DEF EnabledInv, ByOne, AllDriven
    <2>7. CleanInv'
      BY <2>3 DEF CleanInv, Naming, Named
    <2>8. AnsweredInv'
      BY <1>1 DEF BringupInv, AnsweredInv, Tof!Stay
    <2>. QED  BY <2>1, <2>5, <2>6, <2>7, <2>8 DEF BringupInv
  <1>. QED  BY <1>2, <1>4, <1>5 DEF Tof!Lower

\* The VL53L1X is enabled, and later the first VL53L5CX.
LEMMA RaiseKeeps == ASSUME BringupInv, Tof!Raise PROVE BringupInv'
  <1>1. tpc \in {"raise", "enable"} /\ Tof!Stay /\ UNCHANGED idx
    BY DEF Tof!Raise, Tof!locals
  <1>2. PICK c \in Tof!Chans : c = IF tpc = "raise" THEN Tof!L1 ELSE 1
    BY Channels
  <1>3. AllDriven /\ (tpc = "raise" => gpo = {}) /\ (tpc = "enable" => gpo = {Tof!L1})
    BY <1>1 DEF BringupInv, EnabledInv
  <1>4. CASE Tof!WriteGpioFails(c, 1) /\ tpc' = "failed"
    <2>1. cfg' \in [Tof!RegSet -> SUBSET Tof!Chans] /\ idx' \in 1 .. N + 1
      BY <1>1, <1>4, GpioWritten DEF BringupInv, BringupTypes
    <2>. QED  BY <1>1, <1>4, <2>1, GpioWritten, GivesUp DEF Tof!Stay
  <1>5. CASE Tof!WriteGpio(c, 1) /\ tpc' = IF tpc = "raise" THEN "rename" ELSE "measure"
    <2>1. /\ cfg' = cfg /\ gpo' = gpo \union {c} /\ gpo' \in SUBSET Tof!Chans
          /\ addr' \in [Tof!Chans -> Nat] /\ inited' \in SUBSET Tof!Chans /\ OwnAddresses'
          /\ UNCHANGED faults
          /\ \A s \in gpo' : addr'[s] = addr[s] /\ (s \in inited => s \in inited')
      BY <1>3, <1>5, GpioWritten DEF Tof!GpoWith
    <2>2. \/ tpc = "raise" /\ tpc' = "rename" /\ gpo' = {Tof!L1}
          \/ tpc = "enable" /\ tpc' = "measure" /\ gpo' = {1, Tof!L1}
      BY <1>1, <1>2, <1>3, <1>5, <2>1
    <2>3. BringupTypes'
      BY <1>1, <2>1, <2>2 DEF BringupInv, BringupTypes, BoardStates, Naming, Named, Tof!Stay
    <2>4. EnabledInv'
      BY <1>3, <2>1, <2>2 DEF EnabledInv, ByOne, AllDriven
    <2>5. CleanInv'
      BY <2>1, <2>2 DEF BringupInv, CleanInv, Naming, Named
    <2>6. AnsweredInv'
      BY <1>1 DEF BringupInv, AnsweredInv, Tof!Stay
    <2>. QED  BY <2>1, <2>3, <2>4, <2>5, <2>6 DEF BringupInv
  <1>. QED  BY <1>2, <1>4, <1>5 DEF Tof!Raise

\* The VL53L1X is moved away from the default address, or is not, unnoticed.
LEMMA ChangeAddressKeeps == ASSUME BringupInv, Tof!ChangeAddress PROVE BringupInv'
  <1>1. tpc = "rename" /\ tpc' = "reinit1" /\ Tof!Stay /\ UNCHANGED <<cfg, gpo, inited, idx>>
    BY DEF Tof!ChangeAddress, Tof!locals
  <1>2. AllDriven /\ gpo = {Tof!L1} /\ addr \in [Tof!Chans -> Nat] /\ OwnAddresses /\ faults \in Nat
    BY <1>1 DEF BringupInv, BringupTypes, EnabledInv
  <1>3. Tof!Hears(Tof!DEFAULT) = {s \in {Tof!L1} : addr[s] = Tof!DEFAULT}
    BY <1>2, DrivenHears, Channels
  <1>4. ASSUME Tof!Move(Tof!DEFAULT, Tof!L1_NEW)
        PROVE  addr' \in [Tof!Chans -> Nat] /\ OwnAddresses' /\ addr'[Tof!L1] = Tof!L1_NEW
    <2>1. addr' = [s \in Tof!Chans |-> IF s \in Tof!Hears(Tof!DEFAULT) THEN Tof!L1_NEW ELSE addr[s]]
      BY <1>4 DEF Tof!Move
    <2>2. addr' \in [Tof!Chans -> Nat] /\ \A s \in Tof!L5 : addr'[s] = addr[s]
      BY <1>2, <1>3, <2>1, Channels
    <2>3. addr'[Tof!L1] = Tof!L1_NEW
      BY <1>2, <1>3, <2>1, Channels DEF OwnAddresses
    <2>. QED  BY <1>2, <2>2, <2>3 DEF OwnAddresses
  <1>5. addr' \in [Tof!Chans -> Nat] /\ OwnAddresses' /\ faults' \in Nat
        /\ (faults' = 0 => addr'[Tof!L1] = Tof!L1_NEW)
    <2>1. CASE Tof!Move(Tof!DEFAULT, Tof!L1_NEW) /\ (UNCHANGED faults \/ Tof!Fault)
      BY <1>2, <1>4, <2>1, FaultCounted
    <2>2. CASE UNCHANGED addr /\ Tof!Fault
      BY <1>2, <2>2, FaultCounted DEF OwnAddresses
    <2>. QED  BY <2>1, <2>2 DEF Tof!ChangeAddress
  <1>6. BringupTypes'
    BY <1>1, <1>5 DEF BringupInv, BringupTypes, BoardStates, Naming, Named, Tof!Stay
  <1>7. EnabledInv'
    BY <1>1, <1>2 DEF EnabledInv, ByOne, AllDriven
  <1>8. CleanInv'
    BY <1>1, <1>5 DEF CleanInv, Naming, Named
  <1>9. AnsweredInv'
    BY <1>1 DEF BringupInv, AnsweredInv, Tof!Stay
  <1>. QED  BY <1>5, <1>6, <1>7, <1>8, <1>9 DEF BringupInv

\* The VL53L1X alone is enabled: its driver finds it, or it was never moved.
LEMMA ReinitL1Keeps == ASSUME BringupInv, Tof!ReinitL1 PROVE BringupInv'
  <1>1. tpc = "reinit1" /\ Tof!Stay /\ UNCHANGED <<cfg, gpo, addr, idx>>
    BY DEF Tof!ReinitL1, Tof!locals
  <1>2. /\ AllDriven /\ gpo = {Tof!L1} /\ gpo \in SUBSET Tof!Chans /\ inited \in SUBSET Tof!Chans
        /\ faults \in Nat /\ (faults = 0 => addr[Tof!L1] = Tof!L1_NEW)
    BY <1>1 DEF BringupInv, BringupTypes, EnabledInv, CleanInv
  <1>3. Tof!Hears(Tof!L1_NEW) = {s \in {Tof!L1} : addr[s] = Tof!L1_NEW}
    BY <1>2, DrivenHears, Channels
  <1>4. OwnAddresses' /\ AnsweredInv'
    BY <1>1 DEF BringupInv, OwnAddresses, AnsweredInv, Tof!Stay
  <1>5. CASE /\ Tof!Hears(Tof!L1_NEW) # {} /\ inited' = inited \union Tof!Hears(Tof!L1_NEW)
             /\ tpc' = "enable" /\ UNCHANGED faults
    <2>1. addr[Tof!L1] = Tof!L1_NEW /\ Tof!L1 \in inited' /\ inited' \in SUBSET Tof!Chans
      BY <1>2, <1>3, <1>5, Channels
    <2>2. BringupTypes'
      BY <1>1, <1>5, <2>1 DEF BringupInv, BringupTypes, BoardStates, Naming, Named, Tof!Stay
    <2>3. EnabledInv'
      BY <1>1, <1>2, <1>5 DEF EnabledInv, ByOne, AllDriven
    <2>4. CleanInv'
      BY <1>1, <1>5, <2>1 DEF CleanInv, Naming, Named
    <2>. QED  BY <1>4, <2>2, <2>3, <2>4 DEF BringupInv
  <1>6. CASE /\ IF Tof!Hears(Tof!L1_NEW) = {} THEN UNCHANGED faults ELSE Tof!Fault
             /\ tpc' = "failed" /\ UNCHANGED inited
    <2>1. faults' \in Nat /\ ~ (keeps /\ faults' = 0)
      <3>1. CASE Tof!Fault
        BY <3>1, FaultCounted
      <3>2. CASE Tof!Hears(Tof!L1_NEW) = {} /\ UNCHANGED faults
        <4>1. addr[Tof!L1] # Tof!L1_NEW
          BY <1>3, <3>2
        <4>. QED  BY <1>2, <3>2, <4>1
      <3>. QED  BY <1>6, <3>1, <3>2
    <2>2. /\ cfg' \in [Tof!RegSet -> SUBSET Tof!Chans] /\ gpo' \in SUBSET Tof!Chans
          /\ addr' \in [Tof!Chans -> Nat] /\ inited' \in SUBSET Tof!Chans /\ idx' \in 1 .. N + 1
      BY <1>1, <1>6 DEF BringupInv, BringupTypes
    <2>. QED  BY <1>1, <1>4, <1>6, <2>1, <2>2, GivesUp DEF Tof!Stay
  <1>. QED  BY <1>5, <1>6 DEF Tof!ReinitL1

\* The first VL53L5CX is enabled as well, and does not hear what is meant for the VL53L1X.
LEMMA MeasureKeeps == ASSUME BringupInv, Tof!Measure PROVE BringupInv'
  <1>1. /\ tpc = "measure" /\ tpc' \in {"measure", "failed"}
        /\ UNCHANGED <<bprog, floating, keeps, resets, cfg, gpo, addr, inited, idx>>
    BY DEF Tof!Measure
  <1>2. /\ AllDriven /\ gpo = {1, Tof!L1} /\ gpo \in SUBSET Tof!Chans /\ faults \in Nat
        /\ addr[Tof!L1] = Tof!L1_NEW /\ Tof!L1 \in inited /\ OwnAddresses
    BY <1>1 DEF BringupInv, BringupTypes, EnabledInv, CleanInv
  <1>3. Tof!Hears(Tof!L1_NEW) = {s \in {1, Tof!L1} : addr[s] = Tof!L1_NEW}
    BY <1>2, DrivenHears, Channels
  <1>4. addr[1] # Tof!L1_NEW
    BY <1>2, Channels DEF OwnAddresses
  <1>5. Tof!Hears(Tof!L1_NEW) = {Tof!L1}
    BY <1>2, <1>3, <1>4
  <1>6. \/ answered' = [driver |-> Tof!L1, by |-> {Tof!L1}] /\ UNCHANGED <<tpc, faults>>
        \/ UNCHANGED answered /\ Tof!Fault
    BY <1>2, <1>5 DEF Tof!Measure
  <1>7. AnsweredInv'
    BY <1>6 DEF BringupInv, AnsweredInv
  <1>8. faults' \in Nat /\ (tpc' = "failed" => faults' # 0)
    BY <1>1, <1>2, <1>6, FaultCounted
  <1>9. BringupTypes'
    BY <1>1, <1>8 DEF BringupInv, BringupTypes, BoardStates, Naming, Named
  <1>10. EnabledInv'
    BY <1>1, <1>2 DEF EnabledInv, ByOne, AllDriven
  <1>11. CleanInv'
    BY <1>1, <1>2, <1>8 DEF CleanInv, Naming, Named
  <1>12. OwnAddresses'
    BY <1>1 DEF BringupInv, OwnAddresses
  <1>. QED  BY <1>7, <1>9, <1>10, <1>11, <1>12 DEF BringupInv

\* The first channel is toggled.
LEMMA ToggleKeeps == ASSUME BringupInv, Tof!Toggle PROVE BringupInv'
  <1>1. tpc' \in {"toggle", "read back"} /\ Tof!Stay /\ UNCHANGED idx
    BY DEF Tof!Toggle
  <1>2. 1 \in Tof!Chans
    BY Channels
  <1>3. Tof!WriteGpio(1, gpio_state') \/ Tof!WriteGpioFails(1, gpio_state')
    BY DEF Tof!Toggle
  <1>4. /\ cfg' = cfg /\ gpo' \in SUBSET Tof!Chans /\ faults' \in Nat
        /\ addr' \in [Tof!Chans -> Nat] /\ inited' \in SUBSET Tof!Chans /\ OwnAddresses'
    BY <1>2, <1>3, GpioWritten
  <1>5. BringupTypes'
    BY <1>1, <1>4 DEF BringupInv, BringupTypes, BoardStates, Naming, Named, Tof!Stay
  <1>6. EnabledInv' /\ CleanInv'
    BY <1>1 DEF EnabledInv, CleanInv, ByOne, Naming, Named
  <1>7. AnsweredInv'
    BY <1>1 DEF BringupInv, AnsweredInv, Tof!Stay
  <1>. QED  BY <1>4, <1>5, <1>6, <1>7 DEF BringupInv

\* Every step of a bring-up keeps the invariant.
LEMMA BringupKeeps == ASSUME BringupInv, [Tof!Next]_tofVars PROVE BringupInv'
  <1>1. CASE UNCHANGED tofVars
    BY <1>1 DEF tofVars, BringupInv, BringupTypes, EnabledInv,
                AllDriven, OwnAddresses, AnsweredInv, CleanInv
  <1>2. CASE Tof!Next
    BY <1>2, BringupQuietKeeps, ForceLowKeeps, EnableOneKeeps, ProbeTargetKeeps, ProbeDefaultKeeps,
       ReaddressKeeps, ReinitKeeps, FetchKeeps, ConfigureBoardKeeps, LowerKeeps, RaiseKeeps,
       ChangeAddressKeeps, ReinitL1Keeps, MeasureKeeps, ToggleKeeps DEF Tof!Next
  <1>. QED  BY <1>1, <1>2

\* A write to one enable leaves the others as they are.
LEMMA OneEnable == ASSUME BringupInv, [Tof!Next]_tofVars PROVE Tof!OneEnableStep
  <1>. SUFFICES ASSUME tpc \in {"toggle", "raise", "enable"}, resets' = resets
                PROVE  \E c \in Tof!Chans : gpo' \ {c} = gpo \ {c}
    BY DEF Tof!OneEnableStep
  <1>1. 1 \in Tof!Chans /\ Tof!L1 \in Tof!Chans
    BY Channels
  <1>2. CASE UNCHANGED tofVars
    BY <1>1, <1>2 DEF tofVars
  <1>3. ASSUME NEW c \in Tof!Chans, NEW v, Tof!WriteGpio(c, v) \/ Tof!WriteGpioFails(c, v)
        PROVE  gpo' \ {c} = gpo \ {c}
    BY <1>3, GpioWritten DEF Tof!GpoWith
  <1>4. CASE Tof!Toggle
    BY <1>1, <1>3, <1>4 DEF Tof!Toggle
  <1>5. CASE Tof!Raise
    <2>1. PICK c \in Tof!Chans : c = IF tpc = "raise" THEN Tof!L1 ELSE 1
      BY <1>1
    <2>2. Tof!WriteGpio(c, 1) \/ Tof!WriteGpioFails(c, 1)
      BY <1>5, <2>1 DEF Tof!Raise
    <2>. QED  BY <1>3, <2>2
  <1>6. ~ Tof!WarmReset
    BY DEF Tof!WarmReset, BringupInv, BringupTypes
  <1>7. ~ (Tof!NotReady \/ Tof!Ready \/ Tof!ForceLow \/ Tof!EnableOne \/ Tof!ProbeTarget \/ Tof!ProbeDefault)
    BY DEF Tof!NotReady, Tof!Ready, Tof!ForceLow, Tof!EnableOne, Tof!AfterEnable, Tof!ProbeTarget, Tof!ProbeDefault
  <1>8. ~ (Tof!Readdress \/ Tof!Reinit \/ Tof!Fetch \/ Tof!RetryReinit \/ Tof!Configure \/ Tof!Lower)
    BY DEF Tof!Readdress, Tof!Reinit, Tof!Fetch, Tof!RetryReinit, Tof!Configure, Tof!Lower
  <1>9. ~ (Tof!ChangeAddress \/ Tof!ReinitL1 \/ Tof!Measure \/ Tof!RegisterTests \/ Tof!ReadBack)
    BY DEF Tof!ChangeAddress, Tof!ReinitL1, Tof!Measure, Tof!RegisterTests, Tof!ReadBack
  <1>. QED  BY <1>2, <1>4, <1>5, <1>6, <1>7, <1>8, <1>9 DEF Tof!Next

\* Wherever a boot is cut off, a sensor is at the default address or at its own, and a driver
\* is answered by its own sensor alone; a boot without a failed transfer gets through if
\* the sensors keep their addresses; and writing one enable leaves the others as they are.
THEOREM BringupRecovers == MCSpec => Recovers
  <1>. DEFINE TInv == program = "tof" => BringupInv
              Found == program = "tof" => Tof!Findable /\ Tof!CleanBootWorks
              One == program = "tof" => Tof!OneEnableStep
  <1>1. MCInit => TInv
    BY BringupStart DEF MCInit
  <1>2. TInv /\ [MCNext]_mcVars => TInv'
    <2>. SUFFICES ASSUME TInv, [MCNext]_mcVars, program' = "tof" PROVE BringupInv'
      OBVIOUS
    <2>1. program = "tof" /\ [Tof!Next]_tofVars
      BY DEF MCNext, mcVars, bringupVars
    <2>. QED  BY <2>1, BringupKeeps
  <1>3. TInv => Found
    BY DEF BringupInv, OwnAddresses, AnsweredInv, CleanInv, Tof!Findable, Tof!CleanBootWorks
  <1>4. TInv /\ [MCNext]_mcVars => [One]_mcVars
    <2>. SUFFICES ASSUME TInv, MCNext, program = "tof" PROVE Tof!OneEnableStep
      OBVIOUS
    <2>1. Tof!Next
      BY DEF MCNext
    <2>. QED  BY <2>1, OneEnable
  <1>. HIDE DEF TInv, Found, One
  <1>5. MCSpec => [](program = "tof" => Tof!Findable /\ Tof!CleanBootWorks)
    <2>1. MCSpec => []Found
      BY <1>1, <1>2, <1>3, PTL DEF MCSpec
    <2>. QED  BY <2>1, PTL DEF Found
  <1>6. MCSpec => [][program = "tof" => Tof!OneEnableStep]_mcVars
    <2>1. MCSpec => [][One]_mcVars
      BY <1>1, <1>2, <1>4, PTL DEF MCSpec
    <2>. QED  BY <2>1, PTL DEF One
  <1>. QED  BY <1>5, <1>6 DEF Recovers

-----------------------------------------------------------------------------
(* Motors: the inductive invariant. *)

Commands == {"poll", "s", "x", "nl"}

\* motor_4: the motors set_throttle has come past, and all of them once it has succeeded.
ThrottleInv ==
    mprog = "uart" =>
        /\ motors = MOTORS /\ motorAt \in 1 .. MOTORS
        /\ DOMAIN duty = 1 .. MOTORS /\ setOk \in BOOLEAN /\ motorFaults \in Nat
        /\ mpc \in {"start", "not ready", "set"} \union Commands
        /\ mpc \in {"start", "not ready"} => ~ setOk
        /\ mpc = "set" => after \in Commands /\ ~ setOk /\ \A c \in 1 .. MOTORS : c < motorAt => duty[c] = target
        /\ setOk => \A c \in 1 .. MOTORS : duty[c] = throttle_pct

\* actuator_bringup: the motors that are off as long as none failed to be set.
SpinInv ==
    mprog = "spin" =>
        /\ motors = MOTORS /\ motorAt \in 1 .. MOTORS
        /\ DOMAIN duty = 1 .. MOTORS /\ motorFaults \in Nat
        /\ mpc \in {"start", "not ready", "off", "on", "stop", "end"}
        /\ mpc = "start" => motorAt = 1
        /\ motorFaults = 0 /\ mpc = "off" => \A c \in 1 .. MOTORS : c < motorAt => duty[c] = 0
        /\ motorFaults = 0 /\ mpc \in {"on", "end"} => \A c \in 1 .. MOTORS : duty[c] = 0
        /\ motorFaults = 0 /\ mpc = "stop" => \A c \in 1 .. MOTORS : c # motorAt => duty[c] = 0

\* motor_4: the digits kept are the digits typed as long as they fit, and the first three
\* of them after that; what is being applied is what was typed.
TypedInv ==
    mprog = "uart" =>
        /\ throttle_buf \in Seq(Digits) /\ Len(throttle_buf) <= 3
        /\ typed \in [count : Nat, first : Digits \union {0}, number : Nat]
        /\ mpc = "poll" =>
              /\ IF typed.count <= 3 THEN Len(throttle_buf) = typed.count ELSE Len(throttle_buf) = 3
              /\ Len(throttle_buf) > 0 => throttle_buf[1] = typed.first
              /\ typed.count <= 3 => Mot!Value(throttle_buf) = typed.number
              /\ typed.count > 3 /\ typed.first # 0 => typed.number >= 100
        /\ mpc # "poll" => throttle_buf = <<>>
        /\ mpc \in {"start", "not ready"} \/ (mpc = "set" /\ after = "poll") => typed = Mot!NothingTyped
        /\ Mot!NumberAsTyped

MotorInv == ThrottleInv /\ SpinInv /\ TypedInv

\* The invariant of Motors holds at the start.
LEMMA MotorsStart == ASSUME Mot!Init PROVE MotorInv
  <1>1. 1 \in 1 .. MOTORS
    BY SamplesAssumption
  <1>2. DOMAIN duty = 1 .. MOTORS
    BY DEF Mot!Init
  <1>3. mprog # "fixed" => motors = MOTORS
    BY DEF Mot!Init
  <1>4. /\ Mot!NothingTyped \in [count : Nat, first : Digits \union {0}, number : Nat]
        /\ <<>> \in Seq(Digits) /\ Len(<<>>) <= 3
    BY DEF Mot!NothingTyped
  <1>5. TypedInv
    BY <1>4 DEF Mot!Init, TypedInv, Mot!NumberAsTyped
  <1>. QED  BY <1>1, <1>2, <1>3, <1>5 DEF Mot!Init, MotorInv, ThrottleInv, SpinInv

\* What setting one motor does.
LEMMA PwmDone ==
    ASSUME DOMAIN duty = 1 .. MOTORS, NEW c \in 1 .. MOTORS, NEW p, Mot!PwmSet(c, p)
    PROVE  /\ DOMAIN duty' = 1 .. MOTORS
           /\ \A d \in 1 .. MOTORS : d # c => duty'[d] = duty[d]
           /\ motorFaults' = motorFaults => duty'[c] = p \/ motorFaults + 1 = motorFaults
           /\ motorFaults' = motorFaults \/ motorFaults' = motorFaults + 1
  BY DEF Mot!PwmSet

\* Every step of motor_4 keeps what is known of its motors.
LEMMA ThrottleKeeps == ASSUME MotorInv, Mot!Next PROVE ThrottleInv'
  <1>. SUFFICES ASSUME mprog = "uart", mprog' = "uart" PROVE ThrottleInv'
    BY DEF ThrottleInv, Mot!Next, Mot!NotReady, Mot!Ready, Mot!SetThrottle, Mot!Digit, Mot!Command,
           Mot!DoCommand, Mot!AllOff, Mot!SpinOn, Mot!SpinOff
  <1>. USE DEF Commands
  <1>1. /\ motors = MOTORS /\ motorAt \in 1 .. MOTORS
        /\ DOMAIN duty = 1 .. MOTORS /\ setOk \in BOOLEAN /\ motorFaults \in Nat
        /\ mpc \in {"start", "not ready", "set"} \union Commands
    BY DEF MotorInv, ThrottleInv
  <1>2. 1 \in 1 .. MOTORS /\ MOTORS \in Nat /\ \A c \in 1 .. MOTORS : ~ (c < 1)
    BY SamplesAssumption
  <1>3. ASSUME NEW p, NEW a \in Commands, Mot!Call(p, a), UNCHANGED <<motors, duty, motorFaults>>
        PROVE  ThrottleInv'
    BY <1>1, <1>2, <1>3 DEF Mot!Call, ThrottleInv
  <1>4. ASSUME UNCHANGED <<motors, duty, motorFaults, motorAt, setOk, throttle_pct>>, mpc' \in Commands, mpc \in Commands
        PROVE  ThrottleInv'
    BY <1>1, <1>4 DEF MotorInv, ThrottleInv
  <1>5. CASE Mot!NotReady
    BY <1>1, <1>5 DEF Mot!NotReady, MotorInv, ThrottleInv
  <1>6. CASE Mot!Ready
    BY <1>3, <1>6 DEF Mot!Ready
  <1>7. CASE Mot!Digit
    BY <1>4, <1>7 DEF Mot!Digit
  <1>8. CASE Mot!Command
    <2>1. PICK c \in {"s", "x", "nl"} :
            IF throttle_buf = <<>>
            THEN mpc' = c /\ UNCHANGED <<motorAt, target, after, setOk>>
            ELSE Mot!Call(Mot!Clamp(Mot!Value(throttle_buf)), c)
      BY <1>8 DEF Mot!Command
    <2>2. mpc = "poll" /\ UNCHANGED <<motors, duty, motorFaults, throttle_pct>>
      BY <1>8 DEF Mot!Command
    <2>. QED  BY <1>3, <1>4, <2>1, <2>2
  <1>9. CASE Mot!DoCommand
    <2>1. UNCHANGED <<motors, duty, motorFaults, throttle_pct>>
      BY <1>9 DEF Mot!DoCommand
    <2>2. \/ Mot!Call(throttle_pct, "poll") \/ Mot!Call(0, "poll")
          \/ mpc = "nl" /\ mpc' = "poll" /\ UNCHANGED <<motorAt, setOk>>
      BY <1>9 DEF Mot!DoCommand
    <2>. QED  BY <1>3, <1>4, <2>1, <2>2
  <1>10. CASE Mot!SetThrottle
    <2>1. /\ mpc = "set" /\ Mot!PwmSet(motorAt, target) /\ UNCHANGED <<motors, target, after>>
          /\ \/ mpc' = after /\ UNCHANGED <<motorAt, throttle_pct, setOk>>
             \/ ~ Mot!Failed /\ motorAt < motors /\ motorAt' = motorAt + 1 /\ UNCHANGED <<mpc, setOk>>
             \/ /\ ~ Mot!Failed /\ ~ (motorAt < motors) /\ mpc' = after /\ throttle_pct' = target
                /\ setOk' = TRUE /\ UNCHANGED motorAt
      BY <1>10 DEF Mot!SetThrottle
    <2>0. motorAt \in Nat /\ motorAt >= 1 /\ motorAt <= MOTORS /\ motors = MOTORS
          /\ motorFaults + 1 \in Nat /\ motorFaults + 1 # motorFaults
      <3>1. motorAt \in 1 .. MOTORS /\ motorFaults \in Nat /\ motors = MOTORS
        BY <1>1
      <3>. QED  BY <1>2, <3>1
    <2>2. after \in Commands /\ ~ setOk /\ \A c \in 1 .. MOTORS : c < motorAt => duty[c] = target
      BY <2>1 DEF MotorInv, ThrottleInv
    <2>3. /\ DOMAIN duty' = 1 .. MOTORS /\ motorFaults' \in Nat
          /\ \A d \in 1 .. MOTORS : d # motorAt => duty'[d] = duty[d]
      BY <1>1, <2>0, <2>1, PwmDone
    <2>4. CASE mpc' = after /\ UNCHANGED <<motorAt, throttle_pct, setOk>>
      BY <1>1, <2>1, <2>2, <2>3, <2>4 DEF ThrottleInv
    <2>5. CASE ~ Mot!Failed /\ mpc' \in {mpc, after}
      <3>1. duty'[motorAt] = target
        <4>1. motorFaults' = motorFaults
          BY <2>5 DEF Mot!Failed
        <4>. QED  BY <1>1, <2>0, <2>1, <4>1, PwmDone
      <3>2. \A c \in 1 .. MOTORS : c <= motorAt => duty'[c] = target
        <4>1. \A c \in 1 .. MOTORS : c <= motorAt => c < motorAt \/ c = motorAt
          BY <1>2, <2>0
        <4>2. \A c \in 1 .. MOTORS : c < motorAt => c # motorAt
          BY <1>2, <2>0
        <4>. QED  BY <2>2, <2>3, <3>1, <4>1, <4>2
      <3>3. CASE motorAt < motors /\ motorAt' = motorAt + 1 /\ UNCHANGED <<mpc, setOk>>
        <4>1. motorAt' \in 1 .. MOTORS /\ \A c \in 1 .. MOTORS : c < motorAt' => c <= motorAt
          BY <1>2, <2>0, <3>3
        <4>. QED  BY <1>1, <2>1, <2>2, <2>3, <3>2, <3>3, <4>1 DEF ThrottleInv
      <3>4. CASE ~ (motorAt < motors) /\ mpc' = after /\ throttle_pct' = target /\ setOk' = TRUE
                 /\ UNCHANGED motorAt
        <4>1. \A c \in 1 .. MOTORS : c <= motorAt
          BY <1>2, <2>0, <3>4
        <4>. QED  BY <1>1, <2>1, <2>2, <2>3, <3>2, <3>4, <4>1 DEF ThrottleInv
      <3>5. CASE mpc' = after /\ UNCHANGED <<motorAt, throttle_pct, setOk>>
        BY <2>4, <3>5
      <3>. QED  BY <2>1, <2>5, <3>3, <3>4, <3>5
    <2>. QED  BY <2>1, <2>4, <2>5
  <1>11. ~ (Mot!AllOff \/ Mot!SpinOn \/ Mot!SpinOff)
    BY <1>1 DEF Mot!AllOff, Mot!SpinOn, Mot!SpinOff
  <1>. QED  BY <1>5, <1>6, <1>7, <1>8, <1>9, <1>10, <1>11 DEF Mot!Next

\* Every step of actuator_bringup keeps what is known of its motors.
LEMMA SpinKeeps == ASSUME MotorInv, Mot!Next PROVE SpinInv'
  <1>. SUFFICES ASSUME mprog = "spin", mprog' = "spin" PROVE SpinInv'
    BY DEF SpinInv, Mot!Next, Mot!NotReady, Mot!Ready, Mot!SetThrottle, Mot!Digit, Mot!Command,
           Mot!DoCommand, Mot!AllOff, Mot!SpinOn, Mot!SpinOff
  <1>1. /\ motors = MOTORS /\ motorAt \in 1 .. MOTORS
        /\ DOMAIN duty = 1 .. MOTORS /\ motorFaults \in Nat
        /\ mpc \in {"start", "not ready", "off", "on", "stop", "end"}
    BY DEF MotorInv, SpinInv
  <1>2. 1 \in 1 .. MOTORS /\ MOTORS \in Nat /\ \A c \in 1 .. MOTORS : ~ (c < 1)
    BY SamplesAssumption
  <1>0. /\ motorAt \in Nat /\ motorAt >= 1 /\ motorAt <= MOTORS
        /\ motorFaults \in Nat /\ motorFaults + 1 # motorFaults /\ motorFaults + 1 \in Nat
        /\ motorFaults + 1 # 0
    <2>1. motorAt \in 1 .. MOTORS /\ motorFaults \in Nat
      BY <1>1
    <2>. QED  BY <1>2, <2>1
  <1>3. CASE Mot!NotReady
    BY <1>1, <1>3 DEF Mot!NotReady, SpinInv
  <1>4. CASE Mot!Ready
    <2>1. motorAt' = motorAt /\ mpc = "start" /\ mpc' = "off" /\ UNCHANGED <<motors, duty, motorFaults>>
      BY <1>4 DEF Mot!Ready
    <2>. QED  BY <1>1, <1>2, <2>1 DEF MotorInv, SpinInv
  <1>5. CASE Mot!AllOff \/ Mot!SpinOn \/ Mot!SpinOff
    <2>1. PICK p : Mot!PwmSet(motorAt, p) /\ (mpc # "on" => p = 0) /\ UNCHANGED motors
      BY <1>5 DEF Mot!AllOff, Mot!SpinOn, Mot!SpinOff
    <2>2. /\ DOMAIN duty' = 1 .. MOTORS /\ motorFaults' \in Nat
          /\ \A d \in 1 .. MOTORS : d # motorAt => duty'[d] = duty[d]
          /\ motorFaults' = 0 => motorFaults = 0 /\ duty'[motorAt] = p
      BY <1>0, <1>1, <2>1, PwmDone
    <2>3. CASE Mot!AllOff
      <3>1. /\ mpc = "off" /\ p = 0
            /\ \/ motorAt < MOTORS /\ motorAt' = motorAt + 1 /\ mpc' = "off"
               \/ ~ (motorAt < MOTORS) /\ motorAt' = 1 /\ mpc' = "on"
        BY <1>1, <2>1, <2>3 DEF Mot!AllOff
      <3>2. motorFaults' = 0 => \A c \in 1 .. MOTORS : c <= motorAt => duty'[c] = 0
        <4>1. motorFaults' = 0 => \A c \in 1 .. MOTORS : c < motorAt => duty[c] = 0
          BY <2>2, <3>1 DEF MotorInv, SpinInv
        <4>2. \A c \in 1 .. MOTORS : c <= motorAt => c < motorAt \/ c = motorAt
          BY <1>0, <1>2
        <4>3. \A c \in 1 .. MOTORS : c < motorAt => c # motorAt
          BY <1>0, <1>2
        <4>. QED  BY <2>2, <3>1, <4>1, <4>2, <4>3
      <3>3. CASE motorAt < MOTORS /\ motorAt' = motorAt + 1 /\ mpc' = "off"
        <4>1. motorAt' \in 1 .. MOTORS /\ \A c \in 1 .. MOTORS : c < motorAt' => c <= motorAt
          BY <1>0, <1>2, <3>3
        <4>. QED  BY <1>1, <2>1, <2>2, <3>2, <3>3, <4>1 DEF SpinInv
      <3>4. CASE ~ (motorAt < MOTORS) /\ motorAt' = 1 /\ mpc' = "on"
        <4>1. \A c \in 1 .. MOTORS : c <= motorAt
          BY <1>0, <1>2, <3>4
        <4>. QED  BY <1>1, <1>2, <2>1, <2>2, <3>2, <3>4, <4>1 DEF SpinInv
      <3>. QED  BY <3>1, <3>3, <3>4
    <2>4. CASE Mot!SpinOn
      <3>1. mpc = "on" /\ mpc' = "stop" /\ UNCHANGED motorAt
        BY <2>4 DEF Mot!SpinOn
      <3>2. motorFaults' = 0 => \A c \in 1 .. MOTORS : c # motorAt => duty'[c] = 0
        BY <2>2, <3>1 DEF MotorInv, SpinInv
      <3>. QED  BY <1>1, <2>1, <2>2, <3>1, <3>2 DEF SpinInv
    <2>5. CASE Mot!SpinOff
      <3>1. /\ mpc = "stop" /\ p = 0 /\ mpc' \in {"on", "end"} /\ motorAt' \in 1 .. MOTORS
        <4>1. /\ mpc = "stop" /\ p = 0
              /\ \/ motorAt < MOTORS /\ motorAt' = motorAt + 1 /\ mpc' = "on"
                 \/ motorAt' = motorAt /\ mpc' = "end"
          BY <1>1, <2>1, <2>5 DEF Mot!SpinOff
        <4>2. motorAt < MOTORS => motorAt + 1 \in 1 .. MOTORS
          BY <1>0, <1>2
        <4>. QED  BY <1>1, <4>1, <4>2
      <3>2. motorFaults' = 0 => \A c \in 1 .. MOTORS : duty'[c] = 0
        BY <2>2, <3>1 DEF MotorInv, SpinInv
      <3>. QED  BY <1>1, <2>1, <2>2, <3>1, <3>2 DEF SpinInv
    <2>. QED  BY <1>5, <2>3, <2>4, <2>5
  <1>6. ~ (Mot!SetThrottle \/ Mot!Digit \/ Mot!Command \/ Mot!DoCommand)
    BY <1>1 DEF Mot!SetThrottle, Mot!Digit, Mot!Command, Mot!DoCommand
  <1>. QED  BY <1>3, <1>4, <1>5, <1>6 DEF Mot!Next

\* What strtoul makes of up to three digits: a number, to which one more digit is added
\* as to any number in decimal, and which has three places when the first is not zero.
LEMMA ValueOfDigits ==
    ASSUME NEW s \in Seq(Digits), Len(s) <= 3
    PROVE  /\ Mot!Value(s) \in Nat
           /\ s = <<>> => Mot!Value(s) = 0
           /\ Len(s) = 3 /\ s[1] # 0 => Mot!Value(s) >= 100
           /\ \A d \in Digits : Len(s) < 3 => Mot!Value(Append(s, d)) = 10 * Mot!Value(s) + d
  <1>1. \A d \in Digits : d \in Nat /\ d <= 9
    BY SamplesAssumption
  <1>2. Len(s) \in Nat /\ \A j \in 1 .. Len(s) : s[j] \in Digits
    OBVIOUS
  <1>. DEFINE p(j) == IF j <= Len(s) THEN s[Len(s) + 1 - j] ELSE 0
  <1>3. p(1) \in Nat /\ p(2) \in Nat /\ p(3) \in Nat
    BY <1>1, <1>2
  <1>4. Mot!Value(s) = p(1) + 10 * p(2) + 100 * p(3)
    BY DEF Mot!Value
  <1>5. Mot!Value(s) \in Nat
    BY <1>3, <1>4
  <1>6. s = <<>> => Mot!Value(s) = 0
    BY <1>4
  <1>7. Len(s) = 3 /\ s[1] # 0 => Mot!Value(s) >= 100
    <2>1. Len(s) = 3 => p(3) = s[1]
      OBVIOUS
    <2>. HIDE DEF p
    <2>. QED  BY <1>3, <1>4, <2>1
  <1>8. ASSUME NEW d \in Digits, Len(s) < 3
        PROVE  Mot!Value(Append(s, d)) = 10 * Mot!Value(s) + d
    <2>. DEFINE t == Append(s, d)
                q(j) == IF j <= Len(t) THEN t[Len(t) + 1 - j] ELSE 0
    <2>1. Len(t) = Len(s) + 1 /\ t[Len(s) + 1] = d /\ \A j \in 1 .. Len(s) : t[j] = s[j]
      OBVIOUS
    <2>2. Mot!Value(t) = q(1) + 10 * q(2) + 100 * q(3)
      BY DEF Mot!Value
    <2>3. q(1) = d /\ q(2) = p(1) /\ q(3) = p(2) /\ p(3) = 0
      <3>. HIDE DEF t
      <3>. QED  BY <1>2, <1>8, <2>1
    <2>4. \A x, y, z \in Nat : z + 10 * x + 100 * y = 10 * (x + 10 * y + 100 * 0) + z
      OBVIOUS
    <2>5. d \in Nat
      BY <1>1
    <2>. HIDE DEF p, q
    <2>6. Mot!Value(t) = d + 10 * p(1) + 100 * p(2)
      BY <2>2, <2>3
    <2>7. Mot!Value(s) = p(1) + 10 * p(2) + 100 * 0
      BY <1>4, <2>3
    <2>8. d + 10 * p(1) + 100 * p(2) = 10 * (p(1) + 10 * p(2) + 100 * 0) + d
      BY <1>3, <2>4, <2>5
    <2>9. Mot!Value(t) = 10 * Mot!Value(s) + d
      <3>. HIDE DEF t
      <3>. QED  BY <2>6, <2>7, <2>8, Zenon
    <2>. QED  BY <2>9
  <1>. QED  BY <1>5, <1>6, <1>7, <1>8

\* A digit: it is kept while there is room, and the number typed grows with it.
LEMMA DigitKeeps ==
    ASSUME TypedInv, mprog = "uart", mprog' = "uart", Mot!Digit
    PROVE  TypedInv'
  <1>1. /\ throttle_buf \in Seq(Digits) /\ Len(throttle_buf) <= 3 /\ Len(throttle_buf) \in Nat
        /\ typed \in [count : Nat, first : Digits \union {0}, number : Nat]
        /\ mpc = "poll" /\ mpc' = "poll"
        /\ IF typed.count <= 3 THEN Len(throttle_buf) = typed.count ELSE Len(throttle_buf) = 3
        /\ Len(throttle_buf) > 0 => throttle_buf[1] = typed.first
        /\ typed.count <= 3 => Mot!Value(throttle_buf) = typed.number
        /\ typed.count > 3 /\ typed.first # 0 => typed.number >= 100
    BY DEF TypedInv, Mot!Digit
  <1>2. PICK d \in Digits :
            /\ throttle_buf' = IF Len(throttle_buf) < 3 THEN Append(throttle_buf, d) ELSE throttle_buf
            /\ typed' = [count  |-> typed.count + 1,
                         first  |-> IF typed.count = 0 THEN d ELSE typed.first,
                         number |-> 10 * typed.number + d]
    BY DEF Mot!Digit, Mot!THROTTLE_BUF_LEN
  <1>. DEFINE num == typed.number  c == typed.count  v == Mot!Value(throttle_buf)
  <1>3. num \in Nat /\ c \in Nat /\ typed.first \in Digits \union {0} /\ d \in Nat
    BY <1>1, SamplesAssumption
  <1>4. 10 * num + d \in Nat /\ c + 1 \in Nat
    BY <1>3
  <1>5. /\ typed'.count = c + 1 /\ typed'.number = 10 * num + d
        /\ typed'.first = IF c = 0 THEN d ELSE typed.first
        /\ typed' \in [count : Nat, first : Digits \union {0}, number : Nat]
    <2>1. typed'.count = c + 1 /\ typed'.number = 10 * num + d
          /\ typed'.first = IF c = 0 THEN d ELSE typed.first
      BY <1>2
    <2>. HIDE DEF num, c
    <2>2. (IF c = 0 THEN d ELSE typed.first) \in Digits \union {0}
      BY <1>3
    <2>3. typed' = [count |-> c + 1, first |-> IF c = 0 THEN d ELSE typed.first, number |-> 10 * num + d]
      BY <1>2 DEF num, c
    <2>. QED  BY <1>4, <2>1, <2>2, <2>3
  <1>6. ASSUME Len(throttle_buf) < 3
        PROVE  /\ throttle_buf' \in Seq(Digits) /\ Len(throttle_buf') = c + 1 /\ c + 1 <= 3
               /\ Mot!Value(throttle_buf)' = 10 * num + d
               /\ throttle_buf'[1] = typed'.first
    <2>1. c <= 3 /\ Len(throttle_buf) = c /\ v = num
      <3>1. \A x, y \in Nat : x < 3 /\ (IF y <= 3 THEN x = y ELSE x = 3) => y <= 3 /\ x = y
        OBVIOUS
      <3>. HIDE DEF c
      <3>2. (IF c <= 3 THEN Len(throttle_buf) = c ELSE Len(throttle_buf) = 3) /\ (c <= 3 => v = num)
        BY <1>1 DEF c
      <3>. QED  BY <1>1, <1>3, <1>6, <3>1, <3>2
    <2>2. throttle_buf' = Append(throttle_buf, d)
      BY <1>2, <1>6
    <2>3. throttle_buf' \in Seq(Digits) /\ Len(throttle_buf') = c + 1
      BY <1>1, <2>1, <2>2
    <2>4. throttle_buf'[1] = typed'.first
      <3>1. CASE c = 0
        BY <1>1, <1>5, <2>1, <2>2, <3>1
      <3>2. CASE c # 0
        <4>1. throttle_buf'[1] = throttle_buf[1]
          BY <1>1, <1>3, <2>1, <2>2, <3>2
        <4>. QED  BY <1>1, <1>3, <1>5, <2>1, <3>2, <4>1
      <3>. QED  BY <3>1, <3>2
    <2>5. Mot!Value(Append(throttle_buf, d)) = 10 * v + d
      BY <1>1, <1>6, ValueOfDigits
    <2>6. Mot!Value(throttle_buf)' = Mot!Value(Append(throttle_buf, d))
      BY <2>2 DEF Mot!Value
    <2>7. c + 1 <= 3
      BY <1>3, <1>6, <2>1
    <2>. QED  BY <2>1, <2>3, <2>4, <2>5, <2>6, <2>7
  <1>7. ASSUME ~ (Len(throttle_buf) < 3)
        PROVE  /\ throttle_buf' = throttle_buf /\ Len(throttle_buf) = 3 /\ c >= 3
               /\ typed'.first = typed.first /\ throttle_buf[1] = typed.first
               /\ typed.first # 0 => 10 * num + d >= 100
    <2>1. Len(throttle_buf) = 3 /\ c >= 3 /\ c # 0
      <3>1. \A x, y \in Nat : x <= 3 /\ ~ (x < 3) /\ (IF y <= 3 THEN x = y ELSE x = 3) => x = 3 /\ y >= 3 /\ y # 0
        OBVIOUS
      <3>. HIDE DEF c
      <3>2. IF c <= 3 THEN Len(throttle_buf) = c ELSE Len(throttle_buf) = 3
        BY <1>1 DEF c
      <3>. QED  BY <1>1, <1>3, <1>7, <3>1, <3>2
    <2>2. throttle_buf' = throttle_buf /\ typed'.first = typed.first /\ throttle_buf[1] = typed.first
      BY <1>1, <1>2, <1>5, <1>7, <2>1
    <2>3. typed.first # 0 => num >= 100
      <3>1. typed.first # 0 => v >= 100
        BY <1>1, <2>1, <2>2, ValueOfDigits
      <3>. QED  BY <1>1, <1>3, <3>1
    <2>4. typed.first # 0 => 10 * num + d >= 100
      BY <1>3, <2>3
    <2>. QED  BY <2>1, <2>2, <2>4
  <1>8. Mot!NumberAsTyped'
    BY <1>1 DEF Mot!NumberAsTyped
  <1>9. mpc' = "poll"
    BY <1>1
  <1>. HIDE DEF num, c, v
  <1>10. CASE Len(throttle_buf) < 3
    <2>1. /\ throttle_buf' \in Seq(Digits) /\ Len(throttle_buf') = c + 1 /\ c + 1 <= 3
          /\ Mot!Value(throttle_buf)' = typed'.number /\ typed'.count = c + 1
          /\ throttle_buf'[1] = typed'.first
      BY <1>5, <1>6, <1>10
    <2>2. ~ (typed'.count > 3)
      BY <1>4, <2>1
    <2>. QED  BY <1>5, <1>8, <1>9, <2>1, <2>2 DEF TypedInv
  <1>11. CASE ~ (Len(throttle_buf) < 3)
    <2>1. /\ throttle_buf' \in Seq(Digits) /\ Len(throttle_buf') = 3 /\ Len(throttle_buf') <= 3
          /\ typed'.count > 3
          /\ throttle_buf'[1] = typed'.first
          /\ typed'.first # 0 => typed'.number >= 100
      <3>1. c + 1 > 3
        BY <1>3, <1>7, <1>11 DEF c
      <3>. QED  BY <1>1, <1>5, <1>7, <1>11, <3>1
    <2>2. ~ (typed'.count <= 3)
      <3>1. c + 1 > 3 /\ typed'.count = c + 1
        BY <1>5, <2>1
      <3>. QED  BY <1>4, <3>1
    <2>. QED  BY <1>5, <1>8, <1>9, <2>1, <2>2 DEF TypedInv
  <1>. QED  BY <1>10, <1>11

\* Another character: what is applied is the number typed, or at least 100 like it.
LEMMA CommandKeeps ==
    ASSUME TypedInv, mprog = "uart", mprog' = "uart", Mot!Command
    PROVE  TypedInv'
  <1>1. /\ throttle_buf \in Seq(Digits) /\ Len(throttle_buf) <= 3 /\ Len(throttle_buf) \in Nat
        /\ typed \in [count : Nat, first : Digits \union {0}, number : Nat]
        /\ typed.number \in Nat /\ typed.count \in Nat
        /\ IF typed.count <= 3 THEN Len(throttle_buf) = typed.count ELSE Len(throttle_buf) = 3
        /\ Len(throttle_buf) > 0 => throttle_buf[1] = typed.first
        /\ typed.count <= 3 => Mot!Value(throttle_buf) = typed.number
        /\ typed.count > 3 /\ typed.first # 0 => typed.number >= 100
    BY DEF TypedInv, Mot!Command
  <1>2. throttle_buf' = <<>> /\ typed' = typed /\ throttle_buf' \in Seq(Digits) /\ Len(throttle_buf') <= 3
    BY DEF Mot!Command
  <1>3. PICK c \in {"s", "x", "nl"} :
            IF throttle_buf = <<>>
            THEN mpc' = c /\ UNCHANGED <<motorAt, target, after, setOk>>
            ELSE Mot!Call(Mot!Clamp(Mot!Value(throttle_buf)), c)
    BY DEF Mot!Command
  <1>4. CASE throttle_buf = <<>>
    BY <1>1, <1>2, <1>3, <1>4 DEF TypedInv, Mot!NumberAsTyped
  <1>5. CASE throttle_buf # <<>>
    <2>1. mpc' = "set" /\ after' = c /\ target' = Mot!Clamp(Mot!Value(throttle_buf))
      BY <1>3, <1>5 DEF Mot!Call
    <2>2. (typed.first # 0 \/ typed.count <= 3) =>
              Mot!Clamp(Mot!Value(throttle_buf)) = Mot!Clamp(typed.number)
      <3>1. CASE typed.count <= 3
        BY <1>1, <3>1
      <3>2. CASE typed.count > 3 /\ typed.first # 0
        <4>1. Len(throttle_buf) = 3 /\ throttle_buf[1] # 0 /\ typed.number >= 100
          BY <1>1, <3>2
        <4>2. Mot!Value(throttle_buf) \in Nat /\ Mot!Value(throttle_buf) >= 100
          BY <1>1, <4>1, ValueOfDigits
        <4>3. \A x \in Nat : x >= 100 => Mot!Clamp(x) = 100
          BY DEF Mot!Clamp
        <4>. QED  BY <1>1, <4>1, <4>2, <4>3
      <3>. QED  BY <1>1, <3>1, <3>2
    <2>3. Mot!NumberAsTyped'
      <3>1. Mot!Clamp(typed.number)' = Mot!Clamp(typed.number)
        BY <1>2 DEF Mot!Clamp
      <3>. QED  BY <1>2, <2>1, <2>2, <3>1 DEF Mot!NumberAsTyped, Mot!THROTTLE_BUF_LEN
    <2>. QED  BY <1>1, <1>2, <1>3, <2>1, <2>3 DEF TypedInv
  <1>. QED  BY <1>4, <1>5

\* Every step of motor_4 keeps what is known of the number typed.
LEMMA TypedKeeps == ASSUME MotorInv, Mot!Next PROVE TypedInv'
  <1>. SUFFICES ASSUME mprog = "uart", mprog' = "uart" PROVE TypedInv'
    BY DEF TypedInv, Mot!NumberAsTyped, Mot!Next, Mot!NotReady, Mot!Ready, Mot!SetThrottle, Mot!Digit,
           Mot!Command, Mot!DoCommand, Mot!AllOff, Mot!SpinOn, Mot!SpinOff
  <1>. USE DEF Commands
  <1>1. mpc \in {"start", "not ready", "set"} \union Commands /\ (mpc = "set" => after \in Commands)
    BY DEF MotorInv, ThrottleInv
  <1>2. TypedInv
    BY DEF MotorInv
  <1>3. /\ Mot!NothingTyped \in [count : Nat, first : Digits \union {0}, number : Nat]
        /\ Mot!NothingTyped.count = 0 /\ Mot!NothingTyped.number = 0
        /\ <<>> \in Seq(Digits) /\ Len(<<>>) = 0 /\ Mot!Value(<<>>) = 0
    <2>0. <<>> \in Seq(Digits) /\ Len(<<>>) <= 3
      OBVIOUS
    <2>1. Mot!Value(<<>>) = 0
      BY <2>0, ValueOfDigits
    <2>. QED  BY <2>1 DEF Mot!NothingTyped
  <1>4. ASSUME throttle_buf' = <<>>, typed' = Mot!NothingTyped
        PROVE  TypedInv'
    <2>1. Mot!NumberAsTyped'
      BY <1>3, <1>4 DEF Mot!NumberAsTyped
    <2>2. Mot!Value(throttle_buf)' = 0
      BY <1>3, <1>4 DEF Mot!Value
    <2>. QED  BY <1>3, <1>4, <2>1, <2>2 DEF TypedInv
  <1>5. CASE Mot!NotReady \/ Mot!Ready
    <2>1. mpc = "start" /\ UNCHANGED <<throttle_buf, typed>>
      BY <1>5 DEF Mot!NotReady, Mot!Ready
    <2>. QED  BY <1>2, <1>4, <2>1 DEF TypedInv
  <1>6. CASE Mot!Digit
    BY <1>2, <1>6, DigitKeeps
  <1>7. CASE Mot!Command
    BY <1>2, <1>7, CommandKeeps
  <1>8. CASE Mot!DoCommand
    <2>1. mpc # "poll" /\ throttle_buf' = throttle_buf /\ typed' = Mot!NothingTyped
      BY <1>8 DEF Mot!DoCommand
    <2>. QED  BY <1>2, <1>4, <2>1 DEF TypedInv
  <1>9. CASE Mot!SetThrottle
    <2>1. /\ mpc = "set" /\ UNCHANGED <<target, after, throttle_buf, typed>>
          /\ mpc' = "set" \/ mpc' = after
      BY <1>9 DEF Mot!SetThrottle
    <2>2. CASE after = "poll"
      BY <1>2, <1>4, <2>1, <2>2 DEF TypedInv
    <2>3. CASE after # "poll"
      <3>1. Mot!NumberAsTyped'
        <4>1. Mot!Clamp(typed.number)' = Mot!Clamp(typed.number)
          BY <2>1 DEF Mot!Clamp
        <4>. QED  BY <1>1, <1>2, <2>1, <2>3, <4>1 DEF TypedInv, Mot!NumberAsTyped
      <3>2. mpc' # "poll" /\ mpc' \notin {"start", "not ready"} /\ after' # "poll"
        BY <1>1, <2>1, <2>3
      <3>. QED  BY <1>2, <2>1, <3>1, <3>2 DEF TypedInv
    <2>. QED  BY <2>2, <2>3
  <1>10. ~ (Mot!AllOff \/ Mot!SpinOn \/ Mot!SpinOff)
    BY <1>1 DEF Mot!AllOff, Mot!SpinOn, Mot!SpinOff
  <1>. QED  BY <1>5, <1>6, <1>7, <1>8, <1>9, <1>10 DEF Mot!Next

\* Between commands all motors of motor_4 turn at the remembered throttle unless the last
\* command failed part of the way, the throttle applied is the number typed, at most 100,
\* however long it is, and the bring-up of the actuators turns one motor at a time and
\* none once it is done; for any number of motors and of characters.
THEOREM MotorsDoAsTold ==
    MCSpec => []MotorsAsTold
  <1>. DEFINE PInv == program = "motors" => MotorInv
  <1>1. MCInit => PInv
    BY MotorsStart DEF MCInit
  <1>2. PInv /\ [MCNext]_mcVars => PInv'
    <2>. SUFFICES ASSUME PInv, [MCNext]_mcVars, program' = "motors" PROVE MotorInv'
      OBVIOUS
    <2>1. program = "motors" /\ [Mot!Next]_motorsVars
      BY DEF MCNext, mcVars, bringupVars
    <2>2. CASE Mot!Next
      BY <2>1, <2>2, ThrottleKeeps, SpinKeeps, TypedKeeps DEF MotorInv
    <2>3. CASE UNCHANGED motorsVars
      BY <2>1, <2>3 DEF motorsVars, MotorInv, ThrottleInv, SpinInv, TypedInv, Mot!NumberAsTyped, Mot!Value,
                        Mot!Clamp
    <2>. QED  BY <2>1, <2>2, <2>3
  <1>3. PInv => MotorsAsTold
    <2>. SUFFICES ASSUME MotorInv
                  PROVE  Mot!MotorsAgree /\ Mot!NumberAsTyped /\ Mot!OneMotorAtATime
      BY DEF MotorsAsTold
    <2>1. Mot!MotorsAgree
      BY DEF MotorInv, ThrottleInv, Mot!MotorsAgree, Commands
    <2>2. Mot!NumberAsTyped
      BY DEF MotorInv, TypedInv, Mot!NumberAsTyped
    <2>3. Mot!OneMotorAtATime
      <3>. SUFFICES ASSUME mprog = "spin", mpc \in {"on", "stop", "end"}, motorFaults = 0,
                           NEW c \in 1 .. MOTORS, duty[c] # 0
                    PROVE  mpc = "stop" /\ c = motorAt
        BY DEF MotorInv, SpinInv, Mot!OneMotorAtATime
      <3>. QED  BY DEF MotorInv, SpinInv
    <2>. QED  BY <2>1, <2>2, <2>3
  <1>. HIDE DEF PInv
  <1>. QED  BY <1>1, <1>2, <1>3, PTL DEF MCSpec
=============================================================================
