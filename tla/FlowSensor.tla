------------------------------ MODULE FlowSensor ------------------------------
(***************************************************************************)
(* The driver of the PMW3901 optical flow sensor and the two programs that *)
(* use it:                                                                 *)
(*   "test"     samples/riskybird/pmw3901_test: bursts and counts in turn  *)
(*   "bringup"  samples/riskybird/sensor_bringup: a burst whenever the     *)
(*              distance sensor has answered                               *)
(*                                                                         *)
(* The driver looks at no error of the bus: a read that fails returns 0, a *)
(* write that fails is lost (MAX_FAULTS of them per boot).  The registers  *)
(* are paged, and the page is itself selected by a register write.  The    *)
(* processor may be reset at any time; the sensor, which is external, is   *)
(* not, and keeps its page and its registers.  Reading register 0x02, or a *)
(* burst, moves the motion gathered since the last time to the delta       *)
(* registers; the sensor moves, along the Moving axes, while the program   *)
(* reads, and all motion is counted modulo the 16 bits of a register.      *)
(* BYTE stands for the 256 values of a byte.                               *)
(***************************************************************************)
EXTENDS Integers, Sequences

CONSTANTS BYTE, Moving, MAX_FAULTS, MAX_RESETS

Axes  == {"y", "x"}
WRAP  == BYTE * BYTE
Halves == {"hi", "lo"}

\* The pages init_registers selects, in order; each is followed by writes to that page.
Blocks == <<0, 3, 5, 6, 8, 9, 10, 0, 20, 21, 7, 16, 7, 7, 6, 13, 0, 0>>
Pages  == {Blocks[b] : b \in 1 .. Len(Blocks)}

\* What a page holds once the whole table has been written to the right pages.
Table == [p \in Pages |-> CHOOSE b \in 1 .. Len(Blocks) :
              Blocks[b] = p /\ \A c \in b + 1 .. Len(Blocks) : Blocks[c] # p]
Blank == [p \in Pages |-> 0]

VARIABLES
    fprog, flowpc, blk,
    spoiled, fresets, flowFaults, \* a transfer failed since the boot; budgets
    wired, page, written,         \* the sensor: answers; page; last block written to each page
    acc, deltas,                  \* motion not yet taken; delta registers
    axis, bytes,                  \* the count being read
    owed,                         \* all motion less what has been printed
    flowRet                       \* what pmw3901_init returned

chip    == <<wired, page, written>>
motion  == <<acc, deltas, axis, bytes, owed>>
flowVars == <<fprog, flowpc, blk, spoiled, fresets, flowFaults, chip, motion, flowRet>>

Zero == [a \in Axes |-> 0]
NoBytes == [h \in Halves |-> -1]

Init ==
    /\ fprog \in {"test", "bringup"} /\ flowpc = "start" /\ blk = 0
    /\ spoiled = FALSE /\ fresets = 0 /\ flowFaults = 0
    /\ wired \in BOOLEAN /\ page \in {0, 7} /\ written \in {Blank, Table}
    /\ acc = Zero /\ deltas = Zero /\ owed = Zero
    /\ axis = "y" /\ bytes = NoBytes
    /\ flowRet = 1

Fault == flowFaults < MAX_FAULTS /\ flowFaults' = flowFaults + 1 /\ spoiled' = TRUE
Fine  == UNCHANGED <<flowFaults, spoiled>>

\* A 16 bit pattern as the int16_t it stands for, and the pattern of a number.
Signed(w) == IF w >= WRAP \div 2 THEN w - WRAP ELSE w
Pattern(i) == i % WRAP

-----------------------------------------------------------------------------
(* Start *)

\* pmw3901_init_config or a readiness check fails.  The test gives up; the bring-up goes on.
ConfigFails ==
    /\ flowpc = "start"
    /\ flowpc' = (IF fprog = "test" THEN "end" ELSE "wait")
    /\ UNCHANGED <<fprog, blk, spoiled, fresets, flowFaults, chip, motion, flowRet>>

\* pmw3901_init_config, then the first half of pmw3901_init: the reset pin is pulsed,
\* then the chip select.
ResetPin ==
    /\ flowpc = "start" /\ flowpc' = "ids"
    /\ page' = 0 /\ written' = Blank
    /\ acc' = Zero /\ deltas' = Zero /\ owed' = Zero
    /\ UNCHANGED <<fprog, blk, spoiled, fresets, flowFaults, wired, axis, bytes, flowRet>>

\* The two identity registers exist on page 0 only.
IdsAnswer == wired /\ page = 0

\* One of the two identities suffices; then the power-on reset is written.
ReadIds ==
    /\ flowpc = "ids"
    /\ \/ /\ IdsAnswer /\ Fine
          /\ flowpc' = "reset" /\ UNCHANGED flowRet
       \/ /\ IdsAnswer /\ Fault              \* one of them was not read
          /\ flowpc' \in {"reset", "rejected"}
          /\ flowRet' = (IF flowpc' = "rejected" THEN -1 ELSE flowRet)
       \/ /\ ~IdsAnswer /\ Fine
          /\ flowpc' = "rejected" /\ flowRet' = -1
    /\ UNCHANGED <<fprog, blk, fresets, chip, motion>>

\* pmw3901_init failed.
Rejected ==
    /\ flowpc = "rejected"
    /\ flowpc' = (IF fprog = "test" THEN "end" ELSE "wait")
    /\ UNCHANGED <<fprog, blk, spoiled, fresets, flowFaults, chip, motion, flowRet>>

\* The power-on reset (register 0x3A), then the reads of the motion registers.
PowerOnReset ==
    /\ flowpc = "reset" /\ flowpc' = "table" /\ blk' = 1
    /\ \/ /\ Fine /\ written' = Blank /\ page' = 0
          /\ deltas' = Zero /\ acc' = Zero /\ owed' = Zero
       \/ /\ Fault /\ UNCHANGED <<written, page>>
          /\ deltas' = acc /\ acc' = Zero /\ owed' = Zero
    /\ UNCHANGED <<fprog, fresets, wired, axis, bytes, flowRet>>

\* init_registers: select a page, write its registers.  A lost select sends the writes
\* to the page selected before.  After the last block the identities are read again, but
\* only logged, and pmw3901_init returns 0.
InitRegisters ==
    /\ flowpc = "table"
    /\ \/ Fine  /\ page' = Blocks[blk] /\ written' = [written EXCEPT ![Blocks[blk]] = blk]
       \/ Fault /\ page' = page /\ written' = [written EXCEPT ![page] = blk]
       \/ Fault /\ page' = Blocks[blk] /\ UNCHANGED written
    /\ IF blk < Len(Blocks)
         THEN blk' = blk + 1 /\ UNCHANGED <<flowpc, flowRet>>
         ELSE blk' = 0 /\ flowpc' = "wait" /\ flowRet' = 0
    /\ UNCHANGED <<fprog, fresets, wired, motion>>

-----------------------------------------------------------------------------
(* Reading *)

\* What the sensor gives for the motion it has gathered.
Taken(w) == [a \in Axes |-> IF wired THEN w[a] ELSE 0]

\* d is printed.
Report(d) == owed' = [a \in Axes |-> Pattern(owed[a] - d[a])]

\* pmw3901_read_motion_burst: the deltas as they are.  The test reads a count next.
MotionBurst ==
    /\ flowpc = "wait"
    /\ flowpc' = (IF fprog = "test" THEN "count" ELSE "wait")
    /\ \/ Fine /\ deltas' = Taken(acc) /\ acc' = Zero
          /\ Report([a \in Axes |-> Signed(deltas'[a])])
       \/ Fault /\ UNCHANGED owed               \* all zeros are printed
          /\ \/ UNCHANGED <<deltas, acc>>
             \/ deltas' = Taken(acc) /\ acc' = Zero
    /\ UNCHANGED <<fprog, blk, fresets, chip, axis, bytes, flowRet>>

\* In the bring-up the distance sensor fails: no burst this time, and the tenth time in
\* a row ends the program.
NoDistance ==
    /\ fprog = "bringup" /\ flowpc = "wait" /\ flowpc' \in {"wait", "end"}
    /\ UNCHANGED <<fprog, blk, spoiled, fresets, flowFaults, chip, motion, flowRet>>

\* Mutant of LatchCount: register 0x02 is not read first.
LatchCountSkipped ==
    /\ flowpc = "count" /\ flowpc' = "bytes" /\ axis' = "y" /\ bytes' = NoBytes
    /\ Fine /\ UNCHANGED <<deltas, acc>>
    /\ UNCHANGED <<fprog, blk, fresets, chip, owed, flowRet>>

\* pmw3901_read_motion_count reads register 0x02 first.
LatchCount ==
    /\ flowpc = "count" /\ flowpc' = "bytes" /\ axis' = "y" /\ bytes' = NoBytes
    /\ \/ Fine /\ deltas' = Taken(acc) /\ acc' = Zero
       \/ Fault /\ UNCHANGED <<deltas, acc>>
    /\ UNCHANGED <<fprog, blk, fresets, chip, owed, flowRet>>

Half(w, h) == IF h = "hi" THEN w \div BYTE ELSE w % BYTE

\* The two bytes of an axis, which C may read in either order.
CountByte ==
    /\ flowpc = "bytes"
    /\ \E h \in {g \in Halves : bytes[g] = -1} :
         \/ Fine  /\ bytes' = [bytes EXCEPT ![h] = Half(deltas[axis], h)]
         \/ Fault /\ bytes' = [bytes EXCEPT ![h] = 0]
    /\ UNCHANGED <<fprog, flowpc, blk, fresets, chip, acc, deltas, axis, owed, flowRet>>

\* -1 * (hi << 8 | lo), stored in an int16_t.
Count(hi, lo) == Signed(Pattern(-(hi * BYTE + lo)))

\* Both bytes are there: the count of this axis is their negated value, so that what
\* moved is its opposite.
CountAxis ==
    /\ flowpc = "bytes" /\ \A h \in Halves : bytes[h] # -1
    /\ owed' = [owed EXCEPT ![axis] = Pattern(@ + Count(bytes["hi"], bytes["lo"]))]
    /\ bytes' = NoBytes
    /\ IF axis = "y" THEN axis' = "x" /\ UNCHANGED flowpc
                     ELSE axis' = "y" /\ flowpc' = "wait"
    /\ UNCHANGED <<fprog, blk, spoiled, fresets, flowFaults, chip, acc, deltas, flowRet>>

-----------------------------------------------------------------------------
(* The board *)

\* The sensor moves by s along axis a.
Move(a, s) ==
    /\ flowpc \in {"wait", "count", "bytes"}
    /\ owed' = [owed EXCEPT ![a] = Pattern(@ + s)]
    /\ acc' = [acc EXCEPT ![a] = Pattern(@ + s)]
    /\ UNCHANGED <<fprog, flowpc, blk, spoiled, fresets, flowFaults, chip, deltas, axis, bytes, flowRet>>

\* The processor is reset and the program starts again; the sensor is not.
WarmReset ==
    /\ fresets < MAX_RESETS /\ fresets' = fresets + 1
    /\ flowpc' = "start" /\ blk' = 0 /\ spoiled' = FALSE /\ flowFaults' = 0
    /\ axis' = "y" /\ bytes' = NoBytes /\ flowRet' = 1
    /\ UNCHANGED <<fprog, chip, acc, deltas, owed>>

Next ==
    \/ ConfigFails \/ ResetPin \/ ReadIds \/ Rejected \/ PowerOnReset \/ InitRegisters
    \/ MotionBurst \/ NoDistance \/ LatchCount \/ CountByte \/ CountAxis
    \/ \E a \in Moving, s \in {-1, 1} : Move(a, s)
    \/ WarmReset

Spec == Init /\ [][Next]_flowVars

-----------------------------------------------------------------------------
(* Properties *)

\* A sensor that answers is accepted when nothing failed on the bus since the boot, even
\* if the processor was reset while another page was selected: the reset pin comes first.
AcceptedWhenClean ==
    flowpc = "rejected" => spoiled \/ ~wired

\* When pmw3901_init has returned 0 and no transfer was lost, every page holds what the
\* table gives it and page 0, which the reads need, is selected.
TableWritten ==
    flowRet = 0 /\ ~spoiled => written = Table /\ page = 0

\* No motion is printed twice or not at all: what the bursts and the counts have printed,
\* with the sign of the counts reversed, is all (modulo 16 bits) that has moved except what the sensor
\* still holds, although it moves while the bytes are read.
MotionAccounted ==
    flowRet = 0 /\ flowpc = "wait" /\ ~spoiled /\ wired
        => owed = acc
=============================================================================
