---------------------------- MODULE ExecutorRunner ----------------------------
(***************************************************************************)
(* samples/executorch/executor_runner: the models baked into the image are *)
(* run one after the other, each ITERS times, out of one static pool.      *)
(*                                                                         *)
(* A model has the inputs its method wants (sig, by size; 0 is an input    *)
(* that is no tensor), the inputs baked in for it and its planned buffer.  *)
(* The planned input i holds what the baked input gave ("baked"), the      *)
(* all-ones fill ("ones"), whatever the pool held ("left"), or what an     *)
(* execution has left in it ("spent").  Errors are only logged, so the     *)
(* runner goes on after nearly all of them; the first use of a program or  *)
(* a method that did not load traps.  ExecuTorch itself is external: what  *)
(* load_method takes out of the pool is any allocations that fit.  The     *)
(* cycle counts, the trace of the last iteration and the output checksums  *)
(* change nothing and are left out.                                        *)
(***************************************************************************)
EXTENDS Naturals, Sequences

CONSTANTS ALIGN, POOL,       \* kDefaultAlignment, method_allocation_pool_size
          Aligns,            \* the alignments load_method asks for
          PTR,               \* sizeof(void *)
          ITERS, MAX_BAKED,  \* MB_EXEC_ITERS, the size of _in_d
          Sizes, NMODELS, MAX_SIG

VARIABLES
    model, epc, mi, it,      \* the model being run, the mi-th
    poolEnd, used_,          \* what the pool's allocator has handed out; what the runner counts
    slot, planned,           \* the input being prepared; the planned inputs
    logged,                  \* an error of these inputs or of the method has been logged
    ran                      \* the model's last execution: on what, logged or not

execVars == <<model, epc, mi, it, poolEnd, used_, slot, planned, logged, ran>>

Seqs(S, low, high) == UNION {[1 .. n -> S] : n \in low .. high}
ModelSet == [sig : Seqs(Sizes \union {0}, 1, MAX_SIG), baked : Seqs(Sizes, 0, MAX_BAKED + 1), plan : Sizes]

NotRun == [on |-> <<>>, logged |-> FALSE]

Init ==
    /\ model \in ModelSet
    /\ epc = "main" /\ mi = 1 /\ it = 0
    /\ poolEnd = 0 /\ used_ = 0
    /\ slot = 0 /\ planned = <<>> /\ logged = FALSE /\ ran = NotRun

\* g_n_inputs, clamped to the tables' size.
BakedCount == IF Len(model.baked) > MAX_BAKED THEN MAX_BAKED ELSE Len(model.baked)

-----------------------------------------------------------------------------
(* RiscvMemoryAllocator *)

AlignUp(n, alignment) == ((n + alignment - 1) \div alignment) * alignment

\* MemoryAllocator::allocate: the end of an allocation of size n.
EndOf(n, alignment) == AlignUp(poolEnd, alignment) + n
Fits(n, alignment) == EndOf(n, alignment) <= POOL

\* used_ after an allocation of size n.  (u | (alignment - 1)) + 1 is the next multiple
\* above u, also when u is one already.
Counted(u, n, alignment) ==
    IF n % alignment = 0 THEN u + n ELSE (u \div alignment + 1) * alignment + n

allocate(n, alignment) ==
    poolEnd' = EndOf(n, alignment) /\ used_' = Counted(used_, n, alignment)

-----------------------------------------------------------------------------
(* main, mb_et_region *)

Start ==
    /\ epc = "main" /\ epc' = "model"
    /\ UNCHANGED <<model, mi, it, poolEnd, used_, slot, planned, logged, ran>>

\* The thread cannot be pinned, or the thread pool cannot be clamped.
Panic ==
    /\ epc = "main" /\ epc' = "panic"
    /\ UNCHANGED <<model, mi, it, poolEnd, used_, slot, planned, logged, ran>>

\* run_one_pte up to load_method: fresh allocators, then the planned buffer.
LoadModel ==
    /\ epc = "model" /\ Fits(model.plan, ALIGN)
    /\ allocate(model.plan, ALIGN)
    /\ epc' = "load"
    /\ UNCHANGED <<model, mi, it, slot, planned, logged, ran>>

\* load_method allocates out of the same pool, with the alignment of what it makes.
LoadAllocates ==
    /\ epc = "load"
    /\ \E n \in Sizes, alignment \in Aligns :
         Fits(n, alignment) /\ allocate(n, alignment)
    /\ UNCHANGED <<model, epc, mi, it, slot, planned, logged, ran>>

\* The method is loaded.
LoadMethod ==
    /\ epc = "load" /\ epc' = "prepare"
    /\ planned' = [i \in DOMAIN model.sig |-> "left"]
    /\ UNCHANGED <<model, mi, it, poolEnd, used_, slot, logged, ran>>

\* The program, its meta data or the method did not load, or the planned buffer is NULL.
LoadFails ==
    /\ epc \in {"model", "load"} /\ epc' = "trap"
    /\ UNCHANGED <<model, mi, it, poolEnd, used_, slot, planned, logged, ran>>

-----------------------------------------------------------------------------
(* prepare_input_tensors *)

PrepareFails == epc' = "execute" /\ slot' = 0 /\ logged' = TRUE

\* The table of pointers.
PreparePointers ==
    /\ epc = "prepare" /\ slot = 0
    /\ LET n == PTR * Len(model.sig) IN
         IF Fits(n, ALIGN)
           THEN allocate(n, ALIGN) /\ slot' = 1 /\ UNCHANGED <<epc, logged>>
           ELSE PrepareFails /\ UNCHANGED <<poolEnd, used_>>
    /\ UNCHANGED <<model, mi, it, planned, ran>>

\* To the next input, or done.
NextInput ==
    IF slot < Len(model.sig) THEN slot' = slot + 1 /\ UNCHANGED epc
                             ELSE slot' = 0 /\ epc' = "execute"

SkipNonTensor ==
    /\ epc = "prepare" /\ slot > 0 /\ model.sig[slot] = 0
    /\ NextInput
    /\ UNCHANGED <<model, mi, it, poolEnd, used_, planned, logged, ran>>

NoRoom ==
    /\ epc = "prepare" /\ slot > 0 /\ model.sig[slot] > 0 /\ ~Fits(model.sig[slot], ALIGN)
    /\ PrepareFails
    /\ UNCHANGED <<model, mi, it, poolEnd, used_, planned, ran>>

Mismatch == slot <= BakedCount /\ model.baked[slot] # model.sig[slot]

\* What the new buffer holds when it is handed to set_input.  Only Int and Float tensors
\* are filled with ones.
Filled ==
    CASE slot <= BakedCount /\ ~Mismatch -> {"baked"}
      [] BakedCount = 0                  -> {"ones", "left"}
      [] OTHER                           -> {"left"}

\* A buffer of its own, filled, and set_input, which copies it into the plan.  A size
\* that does not match is logged, but its error is overwritten by set_input's.
PrepareInput ==
    /\ epc = "prepare" /\ slot > 0 /\ model.sig[slot] > 0
    /\ Fits(model.sig[slot], ALIGN) /\ allocate(model.sig[slot], ALIGN)
    /\ \/ /\ \E c \in Filled : planned' = [planned EXCEPT ![slot] = c]
          /\ logged' = (logged \/ Mismatch)
          /\ NextInput
       \/ /\ PrepareFails /\ UNCHANGED planned          \* set_input refuses it
    /\ UNCHANGED <<model, mi, it, ran>>

-----------------------------------------------------------------------------
(* The iterations *)

\* Mutant of Execute: the inputs are not established again (MB_NO_INPUT_REINIT).
ExecuteAgain ==
    /\ epc = "execute"
    /\ ran' = [on |-> planned, logged |-> logged]
    /\ planned' = [i \in DOMAIN planned |-> "spent"]
    /\ it' = it + 1
    /\ epc' = IF it + 1 < ITERS THEN "execute" ELSE "outputs"
    /\ UNCHANGED <<model, mi, poolEnd, used_, slot, logged>>

\* method->execute(): the planner may have reused the planned inputs.  Before the next
\* one they are prepared again, out of the same pool; the result is not looked at.
Execute ==
    /\ epc = "execute"
    /\ ran' = [on |-> planned, logged |-> logged]
    /\ planned' = [i \in DOMAIN planned |-> "spent"]
    /\ it' = it + 1
    /\ epc' = IF it + 1 < ITERS THEN "prepare" ELSE "outputs"
    /\ logged' = (logged /\ it + 1 = ITERS)
    /\ UNCHANGED <<model, mi, poolEnd, used_, slot>>

\* The outputs are printed, and run_one_pte's allocators are gone; the next model starts.
Outputs ==
    /\ epc = "outputs"
    /\ poolEnd' = 0 /\ used_' = 0 /\ it' = 0 /\ planned' = <<>> /\ logged' = FALSE
    /\ ran' = NotRun
    /\ IF mi < NMODELS
         THEN mi' = mi + 1 /\ epc' = "model" /\ model' \in ModelSet
         ELSE epc' = "reboot" /\ UNCHANGED <<mi, model>>
    /\ UNCHANGED slot

Next ==
    \/ Start \/ Panic \/ LoadModel \/ LoadAllocates \/ LoadMethod \/ LoadFails
    \/ PreparePointers \/ SkipNonTensor \/ NoRoom \/ PrepareInput
    \/ Execute \/ Outputs

Spec == Init /\ [][Next]_execVars

-----------------------------------------------------------------------------
(* Properties *)

\* An execution for which nothing was logged ran on inputs established for it: no input
\* that an earlier execution has used up, and every baked input in its place.
QuietMeansFresh ==
    ran # NotRun /\ ~ran.logged =>
        \A i \in DOMAIN model.sig : model.sig[i] > 0 =>
            /\ ran.on[i] # "spent"
            /\ i <= BakedCount => ran.on[i] = "baked"

\* The comment in allocate (riscv_executor_runner.cpp:182-183): the count is kept "in sync"
\* with what MemoryAllocator::allocate hands out.  (The code looks at the size to tell
\* whether there was padding; the allocator looks at the address.)
UsedInSync == used_ = poolEnd
=============================================================================
