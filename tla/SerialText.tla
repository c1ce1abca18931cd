------------------------------ MODULE SerialText ------------------------------
(***************************************************************************)
(* samples/drone_control over a serial line of text: main_mt.cpp with a    *)
(* worker per drone and pybullet_hil_mt.py (firmware = "mt"), or main.cpp, *)
(* which solves in its loop, and pybullet_hil.py ("single").  Both hosts   *)
(* send the state of a drone and wait for its action before they send it   *)
(* again.                                                                  *)
(*                                                                         *)
(* A line carries a drone's id and its state, named by its number.  The    *)
(* serial port may lose or change bytes of a line: it then has too few     *)
(* words (state 0), or reads as another id, another state (Garbage) or     *)
(* both.  Or it loses the end of a line, so that the next one is taken for *)
(* a part of it.  And a line to the host may take longer than the host's   *)
(* readline waits.  MAX_LOSS bounds how often all this happens.            *)
(***************************************************************************)
EXTENDS Integers, Sequences

CONSTANTS NUM_DRONES, NSTATES, MAX_STATES, MAX_LOSS

Drones == 0 .. NUM_DRONES - 1
Places == 1 .. NSTATES

\* What a damaged line reads as: an id below or above those of the drones, a state that
\* nobody sent.  Also an action that the host makes of a part of one.
Ids == -1 .. NUM_DRONES
Garbage == MAX_STATES + 1

VARIABLES
    tfw, tfleet,                \* the firmware; the drones that the host flies
    tline, tlost,              \* the lines to the board; what was damaged or cut so far
    mpc, mid, mstate, mj,      \* main: the line it works on
    tobs, start_sem,
    twpc, tcur, twj, tmutex,   \* the workers
    tout,                      \* the lines to the host; half a line is one without its end
    hnext, pending, sentState, acted,
    misread                    \* history: what was taken for "id", "state" or "action"

board   == <<mpc, mid, mstate, mj>>
shared  == <<tobs, start_sem>>
solvers == <<twpc, tcur, twj, tmutex>>
hil     == <<hnext, pending, sentState, acted>>
textVars == <<tfw, tfleet, tline, tlost, board, shared, solvers, tout, hil, misread>>

Nobody == NUM_DRONES
Started == {d \in Drones : d < tfleet}

Init ==
    /\ tfw \in {"mt", "single"} /\ tfleet \in (IF tfw = "mt" THEN 1 .. NUM_DRONES ELSE {1})
    /\ tline = <<>> /\ tlost = 0
    /\ mpc = "recv" /\ mid = 0 /\ mstate = 0 /\ mj = 1
    /\ tobs = [d \in Drones |-> [j \in Places |-> 0]] /\ start_sem = [d \in Drones |-> 0]
    /\ twpc = [d \in Drones |-> "take"] /\ tcur = [d \in Drones |-> [j \in Places |-> 0]]
    /\ twj = [d \in Drones |-> 1] /\ tmutex = Nobody
    /\ tout = <<>>
    /\ hnext = 0 /\ pending = [d \in Drones |-> TRUE]
    /\ sentState = [d \in Drones |-> 0] /\ acted = [d \in Drones |-> 0]
    /\ misread = {}

-----------------------------------------------------------------------------
(* The host and the line *)

\* control_loop, or the loop in run: the drones' turns come one after another
SendState ==
    /\ hnext < tfleet /\ pending[hnext] /\ sentState[hnext] < MAX_STATES
    /\ tline' = Append(tline, [of |-> hnext, id |-> hnext, k |-> sentState[hnext] + 1, end |-> TRUE])
    /\ pending' = [pending EXCEPT ![hnext] = FALSE]
    /\ sentState' = [sentState EXCEPT ![hnext] = @ + 1]
    /\ hnext' = hnext + 1
    /\ UNCHANGED <<tfw, tfleet, tlost, board, shared, solvers, tout, acted, misread>>

NotPending ==
    /\ hnext < tfleet /\ ~(pending[hnext] /\ sentState[hnext] < MAX_STATES)
    /\ hnext' = hnext + 1
    /\ UNCHANGED <<tfw, tfleet, tline, tlost, board, shared, solvers, tout, pending, sentState, acted, misread>>

\* A line is damaged.  Two lines in a row do not both lose their ends: three lines in
\* one are longer than the board's buffer.
DamageLine ==
    /\ tlost < MAX_LOSS
    /\ \E i \in DOMAIN tline :
          \/ /\ \A h \in DOMAIN tline : h \in {i - 1, i + 1} => tline[h].end
             /\ tline' = [tline EXCEPT ![i].end = FALSE]
          \/ \E id \in Ids, k \in {0, tline[i].k, Garbage} :
                tline' = [tline EXCEPT ![i].id = id, ![i].k = k]
    /\ tlost' = tlost + 1
    /\ UNCHANGED <<tfw, tfleet, board, shared, solvers, tout, hil, misread>>

IsAction(l) == l.kind = "u"

\* control_loop looks at the id.
Apply(l, k) ==
    IF l.id < tfleet
    THEN acted' = [acted EXCEPT ![l.id] = k] /\ pending' = [pending EXCEPT ![l.id] = TRUE]
    ELSE UNCHANGED <<acted, pending>>

\* read_action: a whole line.  Any other than an action is passed over.
ReadAction ==
    /\ hnext = tfleet /\ Len(tout) >= 2 /\ tout[2].kind = "end"
    /\ IF IsAction(tout[1]) THEN Apply(tout[1], tout[1].k) ELSE UNCHANGED <<acted, pending>>
    /\ tout' = Tail(Tail(tout))
    /\ hnext' = IF tfw = "mt" \/ IsAction(tout[1]) THEN 0 ELSE hnext
    /\ UNCHANGED <<tfw, tfleet, tline, tlost, board, shared, solvers, sentState, misread>>

\* The time-out of readline; pybullet_hil.py reads on.
TimeOut ==
    /\ tfw = "mt" /\ hnext = tfleet /\ Len(tout) < 2
    /\ hnext' = 0
    /\ UNCHANGED <<tfw, tfleet, tline, tlost, board, shared, solvers, tout, pending, sentState,
                   acted, misread>>

\* The time-out of readline in a line, which returns what there is of it.  That is passed
\* over, or read as an action, whose last value may lack digits or which is one value for
\* all motors (pybullet_hil.py also takes zeros), or it ends control_loop with an exception.
\* The rest is a line that does not begin as an action does.
CutAction ==
    /\ tlost < MAX_LOSS /\ hnext = tfleet /\ Len(tout) = 1 /\ IsAction(tout[1])
    /\ \/ /\ hnext' = IF tfw = "mt" THEN 0 ELSE hnext
          /\ UNCHANGED <<acted, pending, misread>>
       \/ /\ hnext' = 0
          /\ \/ Apply(tout[1], tout[1].k) /\ misread' = misread
             \/ Apply(tout[1], Garbage) /\ misread' = misread \union {"action"}
       \/ /\ hnext' = tfleet + 1
          /\ UNCHANGED <<acted, pending, misread>>
    /\ tout' = <<[kind |-> "rest"]>> /\ tlost' = tlost + 1
    /\ UNCHANGED <<tfw, tfleet, tline, board, shared, solvers, sentState>>

-----------------------------------------------------------------------------
(* main *)

\* sscanf found all words; main_mt.cpp looks at the id too, but not whether it is negative.
Valid(id, k) == k # 0 /\ (tfw = "mt" => id < NUM_DRONES)

\* recv_str: up to an end of line.  Both programs read the first 13 words of it, whatever
\* follows; the last of them has a digit more, or is the next line's, when an end was lost.
\* main.cpp does not look at the id.
RecvStr ==
    /\ mpc = "recv"
    /\ \E i \in DOMAIN tline :
          /\ tline[i].end /\ \A h \in 1 .. i - 1 : ~tline[h].end
          /\ LET l == tline[1]
             IN  /\ mid' = IF tfw = "mt" THEN l.id ELSE l.of
                 /\ mstate' \in IF i = 1 THEN {l.k} ELSE IF l.k = 0 THEN {0, Garbage} ELSE {Garbage}
                 /\ misread' = misread
                       \union {w \in {"id"} : mid' # l.of /\ Valid(mid', mstate')}
                       \union {w \in {"state"} : mstate' = Garbage /\ Valid(mid', mstate')}
          /\ tline' = SubSeq(tline, i + 1, Len(tline))
    /\ mpc' = "check"
    /\ UNCHANGED <<tfw, tfleet, tlost, mj, shared, solvers, tout, hil>>

\* A negative id stores in front of the array: undefined, and main is not followed beyond.
CheckLine ==
    /\ mpc = "check"
    /\ mpc' = CASE ~Valid(mid, mstate) -> "invalid"
                [] Valid(mid, mstate) /\ tfw = "single" -> "solve"
                [] Valid(mid, mstate) /\ tfw = "mt" -> IF mid < 0 THEN "outside" ELSE "store"
    /\ mj' = 1
    /\ UNCHANGED <<tfw, tfleet, tline, tlost, mid, mstate, shared, solvers, tout, hil, misread>>

SendInvalid ==
    /\ mpc = "invalid" /\ tmutex = Nobody
    /\ tout' = tout \o <<[kind |-> "invalid"], [kind |-> "end"]>>
    /\ mpc' = "recv"
    /\ UNCHANGED <<tfw, tfleet, tline, tlost, mid, mstate, mj, shared, solvers, hil, misread>>

\* main.cpp: solve and send
SolveAndSend ==
    /\ mpc = "solve"
    /\ tout' = Append(tout, [kind |-> "u", id |-> 0, k |-> mstate])
    /\ mpc' = "sent"
    /\ UNCHANGED <<tfw, tfleet, tline, tlost, mid, mstate, mj, shared, solvers, hil, misread>>

EndAnswer ==
    /\ mpc = "sent"
    /\ tout' = Append(tout, [kind |-> "end"])
    /\ mpc' = "recv"
    /\ UNCHANGED <<tfw, tfleet, tline, tlost, mid, mstate, mj, shared, solvers, hil, misread>>

\* Mutant of StoreState: the worker is woken by the first word.
StoreStateEarly ==
    /\ mpc = "store"
    /\ tobs' = [tobs EXCEPT ![mid][mj] = mstate]
    /\ start_sem' = IF mj = 1 THEN [start_sem EXCEPT ![mid] = 1] ELSE start_sem
    /\ mj' = mj + 1
    /\ mpc' = IF mj = NSTATES THEN "recv" ELSE "store"
    /\ UNCHANGED <<tfw, tfleet, tline, tlost, mid, mstate, solvers, tout, hil, misread>>

\* memcpy, word by word; k_sem_give on a semaphore with limit 1
StoreState ==
    /\ mpc = "store"
    /\ tobs' = [tobs EXCEPT ![mid][mj] = mstate]
    /\ start_sem' = IF mj = NSTATES THEN [start_sem EXCEPT ![mid] = 1] ELSE start_sem
    /\ mj' = mj + 1
    /\ mpc' = IF mj = NSTATES THEN "recv" ELSE "store"
    /\ UNCHANGED <<tfw, tfleet, tline, tlost, mid, mstate, solvers, tout, hil, misread>>

-----------------------------------------------------------------------------
(* drone_worker in main_mt.cpp *)

TakeSem(d) ==
    /\ twpc[d] = "take" /\ start_sem[d] = 1
    /\ start_sem' = [start_sem EXCEPT ![d] = 0]
    /\ twpc' = [twpc EXCEPT ![d] = "load"] /\ twj' = [twj EXCEPT ![d] = 1]
    /\ UNCHANGED <<tfw, tfleet, tline, tlost, board, tobs, tcur, tmutex, tout, hil, misread>>

\* matsetv reads the shared state itself.
LoadWord(d) ==
    /\ twpc[d] = "load"
    /\ tcur' = [tcur EXCEPT ![d][twj[d]] = tobs[d][twj[d]]]
    /\ twj' = [twj EXCEPT ![d] = @ + 1]
    /\ twpc' = [twpc EXCEPT ![d] = IF twj[d] = NSTATES THEN "lock" ELSE "load"]
    /\ UNCHANGED <<tfw, tfleet, tline, tlost, board, shared, tmutex, tout, hil, misread>>

\* tiny_solve, then send_str: the line goes out under the mutex
BeginLine(d) ==
    /\ twpc[d] = "lock" /\ tmutex = Nobody
    /\ tmutex' = d /\ twpc' = [twpc EXCEPT ![d] = "send"]
    /\ tout' = Append(tout, [kind |-> "u", id |-> d, k |-> tcur[d][1]])
    /\ UNCHANGED <<tfw, tfleet, tline, tlost, board, shared, tcur, twj, hil, misread>>

EndLine(d) ==
    /\ twpc[d] = "send"
    /\ tmutex' = Nobody /\ twpc' = [twpc EXCEPT ![d] = "take"]
    /\ tout' = Append(tout, [kind |-> "end"])
    /\ UNCHANGED <<tfw, tfleet, tline, tlost, board, shared, tcur, twj, hil, misread>>

Next ==
    \/ SendState \/ NotPending \/ DamageLine \/ ReadAction \/ TimeOut \/ CutAction
    \/ RecvStr \/ CheckLine \/ SendInvalid \/ SolveAndSend \/ EndAnswer \/ StoreState
    \/ \E d \in Drones : TakeSem(d) \/ LoadWord(d) \/ BeginLine(d) \/ EndLine(d)

Spec == Init /\ [][Next]_textVars

-----------------------------------------------------------------------------
\* A worker solves one state, not parts of two, though main stores without a lock:
\* the host does not send a drone's state again before it reads an action for it.  It
\* takes a line accepted with another drone's id to break that, not lost lines or words
\* changed, and not an action cut in two.
StateWhole ==
    "id" \notin misread => \A d \in Drones : twpc[d] \in {"lock", "send"} =>
        \A j \in Places : tcur[d][j] = tcur[d][1]

\* The action that the host applies is for the state it sent last, until a line is
\* accepted or an action applied that nobody sent: then neither side notices.
ActionIsCurrent ==
    misread = {} => \A d \in Started : pending[d] => acted[d] = sentState[d]

\* The board is idle and the host waits for an action that does not come: that takes
\* a damaged line or one that was cut.  Neither side ever repeats one.
Stalled(d) ==
    /\ ~pending[d] /\ tline = <<>> /\ tout = <<>> /\ mpc = "recv"
    /\ \A w \in Drones : twpc[w] = "take" /\ start_sem[w] = 0
StallNeedsLoss == \A d \in Started : Stalled(d) => tlost > 0
=============================================================================
