------------------------------ MODULE SerialHil ------------------------------
(***************************************************************************)
(* samples/drone_control over a binary serial line: main_mt_binary.cpp     *)
(* (firmware = "binary") or main_test_binary.cpp ("echo"), and one of the  *)
(* host scripts: test_serial_binary.py ("console"), which searches for the *)
(* header, or pybullet_hil_mt_binary.py ("hil"), which reads in fixed      *)
(* sizes.                                                                  *)
(*                                                                         *)
(* A packet is the header, a count and the drones' states; a float of a    *)
(* state is one byte here, and a byte of it is named by its packet, drone  *)
(* and place.  The line to the board may lose bytes (MAX_LOSS).  The last  *)
(* byte of a packet may look like the first of the header.                 *)
(***************************************************************************)
EXTENDS Naturals, Sequences

CONSTANTS
    NUM_DRONES, NSTATES,
    HDR_LEN, ACT_BYTES, NS_BYTES,   \* bytes of the header, of an action, of a solve time
    MAX_COUNT,                      \* the largest count: 255, of a uint8_t
    CPUS,                           \* the numbers of harts there may be
    MAX_PACKETS, MAX_LOSS,
    Setups                          \* pairs of a firmware and a host

Drones  == 0 .. NUM_DRONES - 1
Places  == 1 .. NSTATES
TooMany == NUM_DRONES + 1
Garbage == MAX_PACKETS + 1     \* not the state of any packet
Free    == NUM_DRONES             \* no drone

VARIABLES
    firmware, host, fleet, cpus,     \* fleet: the drones that the host flies
    line, pk, oversize, lost, clean, \* to the board; packets; history of the line
    rpc, match_idx, num, rid, rj,    \* main
    obs, new_state,
    wpc, cur, wj, uart_mutex,        \* the workers
    out, responses, answered,        \* to the host; history: the answers in it, the newest
    hpc, action, timeouts            \* the host; the last action and what it should be

programs == <<firmware, host, fleet, cpus>>
sent     == <<line, pk, oversize, lost, clean>>
receiver == <<rpc, match_idx, num, rid, rj>>
tasks    == <<obs, new_state>>
workers  == <<wpc, cur, wj, uart_mutex>>
answers  == <<out, responses, answered>>
client   == <<hpc, action, timeouts>>
serialVars == <<programs, sent, receiver, tasks, workers, answers, client>>

Header == [i \in 1 .. HDR_LEN |-> <<"H", i>>]

Init ==
    /\ \E s \in Setups : firmware = s[1] /\ host = s[2]
    /\ fleet \in 1 .. NUM_DRONES /\ cpus \in CPUS
    /\ line = <<>> /\ pk = 0 /\ oversize = FALSE /\ lost = 0 /\ clean = 0
    /\ rpc = "sync" /\ match_idx = 0 /\ num = 0 /\ rid = 0 /\ rj = 1
    /\ obs = [d \in Drones |-> [j \in Places |-> 0]]
    /\ new_state = [d \in Drones |-> FALSE]
    /\ wpc = [d \in Drones |-> "wait"]
    /\ cur = [d \in Drones |-> [j \in Places |-> 0]]
    /\ wj = [d \in Drones |-> 1] /\ uart_mutex = Free
    /\ out = <<>> /\ responses = <<>> /\ answered = [d \in Drones |-> 0]
    /\ hpc = "header" /\ action = <<{}, {}>> /\ timeouts = 0

-----------------------------------------------------------------------------
(* The host sends; bytes are lost on the way *)

Data(k, n, last) ==
    [i \in 1 .. n * NSTATES |->
        IF i = n * NSTATES /\ last THEN <<"H", 1>>
        ELSE <<"d", k, (i - 1) \div NSTATES, ((i - 1) % NSTATES) + 1>>]

\* send_states_all, for as many drones as the user asks
SendStates ==
    /\ pk < MAX_PACKETS \div fleet /\ line = <<>>
    /\ \E n \in {fleet, TooMany}, last \in BOOLEAN :
          /\ last => n = TooMany            \* a state has to be told by its bytes
          /\ line' = line \o Header \o <<<<"n", n>>>> \o Data(pk + 1, n, last)
          /\ oversize' = (n = TooMany)
    /\ pk' = pk + 1 /\ clean' = clean + 1
    /\ UNCHANGED <<programs, lost, receiver, tasks, workers, answers, client>>

LoseByte ==
    /\ lost < MAX_LOSS /\ fleet = 1
    /\ \E i \in DOMAIN line : line' = SubSeq(line, 1, i - 1) \o SubSeq(line, i + 1, Len(line))
    /\ lost' = lost + 1 /\ clean' = 0
    /\ UNCHANGED <<programs, pk, oversize, receiver, tasks, workers, answers, client>>

-----------------------------------------------------------------------------
(* main *)

Poll == line # <<>> /\ line' = Tail(line) /\ UNCHANGED <<pk, oversize, lost, clean>>
rx == Head(line)

\* Mutant of Match: a mismatch always starts over.
MatchAfresh(b) == IF b = <<"H", match_idx + 1>> THEN match_idx + 1 ELSE 0

\* A byte that does not go on with the header may be its first.
Match(b) ==
    IF b = <<"H", match_idx + 1>> THEN match_idx + 1
    ELSE IF b = <<"H", 1>> THEN 1 ELSE 0

SyncHeader ==
    /\ rpc = "sync" /\ Poll
    /\ match_idx' = Match(rx)
    /\ rpc' = IF match_idx' = HDR_LEN THEN "num" ELSE "sync"
    /\ UNCHANGED <<programs, num, rid, rj, tasks, workers, answers, client>>

\* The count: out of step, a byte of something else is taken for it, whatever it is.
Counts == IF rx[1] = "n" THEN {rx[2]} ELSE 0 .. MAX_COUNT

\* Back to the header.
Resync == rpc' = "sync" /\ match_idx' = 0

\* More drones than there are workers: num counts the bytes to skip.
ReadNum ==
    /\ rpc = "num" /\ firmware = "binary" /\ Poll
    /\ \E n \in Counts :
          \/ n > NUM_DRONES /\ num' = n * NSTATES /\ rpc' = "skip" /\ UNCHANGED match_idx
          \/ n = 0 /\ num' = n /\ Resync
          \/ n \in 1 .. NUM_DRONES /\ num' = n /\ rpc' = "state" /\ UNCHANGED match_idx
    /\ rid' = 0 /\ rj' = 1
    /\ UNCHANGED <<programs, tasks, workers, answers, client>>

SkipByte ==
    /\ rpc = "skip" /\ firmware = "binary" /\ Poll
    /\ num' = num - 1
    /\ IF num = 1 THEN Resync ELSE UNCHANGED <<rpc, match_idx>>
    /\ UNCHANGED <<programs, rid, rj, tasks, workers, answers, client>>

StoreWord ==
    /\ rpc = "state" /\ Poll
    /\ obs' = [obs EXCEPT ![rid][rj] = IF rx[1] = "d" /\ rx[3] = rid /\ rx[4] = rj
                                       THEN rx[2] ELSE Garbage]
    /\ rj' = rj + 1
    /\ rpc' = IF rj = NSTATES THEN "flag" ELSE "state"
    /\ UNCHANGED <<programs, match_idx, num, rid, new_state, workers, answers, client>>

SetNewState ==
    /\ rpc = "flag"
    /\ new_state' = [new_state EXCEPT ![rid] = TRUE]
    /\ rid' = rid + 1 /\ rj' = 1
    /\ IF rid + 1 < num THEN rpc' = "state" /\ UNCHANGED match_idx ELSE Resync
    /\ UNCHANGED <<programs, sent, num, obs, workers, answers, client>>

(* main_test_binary.cpp: every state is skipped and every drone answered *)

EchoNum ==
    /\ rpc = "num" /\ firmware = "echo" /\ Poll
    /\ \E n \in Counts :
          /\ num' = n * NSTATES
          /\ IF n = 0 THEN Resync ELSE rpc' = "skip" /\ UNCHANGED match_idx
    /\ rid' = 0
    /\ UNCHANGED <<programs, rj, tasks, workers, answers, client>>

EchoSkip ==
    /\ rpc = "skip" /\ firmware = "echo" /\ Poll
    /\ rid' = rid + 1
    /\ rpc' = IF rid + 1 = num THEN "reply" ELSE "skip"
    /\ UNCHANGED <<programs, match_idx, num, rj, tasks, workers, answers, client>>

Answer(d, k) == <<d, k>>
ActionBytes(d, k) == [i \in 1 .. ACT_BYTES |-> <<"u", Answer(d, k), i>>]
TimeBytes == [i \in 1 .. NS_BYTES |-> <<"ns", i>>]

\* rid counted the bytes skipped; the replies are canned, and in order.
EchoReply ==
    /\ rpc = "reply"
    /\ LET d == rid - num
           id == d
       IN  /\ out' = out \o Header \o <<<<"id", id>>>> \o ActionBytes(id, 0) \o TimeBytes
           /\ responses' = Append(responses, Answer(id, 0)) /\ UNCHANGED answered
           /\ rid' = rid + 1
           /\ IF d + 1 = num \div NSTATES THEN Resync ELSE UNCHANGED <<rpc, match_idx>>
    /\ UNCHANGED <<programs, sent, num, rj, tasks, workers, client>>

-----------------------------------------------------------------------------
(* drone_worker *)

\* spawn_drone_workers pins the workers to harts, and Zephyr pins main to the first.
\* main never blocks and has the better priority: a worker on its hart never runs.
Hart(d) == (d + 5) % cpus
MainsHart == 0

\* atomic_cas
TakeState(d) ==
    /\ wpc[d] = "wait" /\ new_state[d]
    /\ new_state' = [new_state EXCEPT ![d] = FALSE]
    /\ wpc' = [wpc EXCEPT ![d] = "copy"] /\ wj' = [wj EXCEPT ![d] = 1]
    /\ UNCHANGED <<programs, sent, receiver, obs, cur, uart_mutex, answers, client>>

\* memcpy, one word after another; the solver then works on the copy
CopyWord(d) ==
    /\ wpc[d] = "copy"
    /\ cur' = [cur EXCEPT ![d][wj[d]] = obs[d][wj[d]]]
    /\ wj' = [wj EXCEPT ![d] = @ + 1]
    /\ wpc' = [wpc EXCEPT ![d] = IF wj[d] = NSTATES THEN "lock" ELSE "copy"]
    /\ UNCHANGED <<programs, sent, receiver, tasks, uart_mutex, answers, client>>

\* Mutant of LockUart: the line is not waited for.
LockUartAnyway(d) ==
    /\ wpc[d] = "lock"
    /\ wpc' = [wpc EXCEPT ![d] = "header"] /\ uart_mutex' = d
    /\ UNCHANGED <<programs, sent, receiver, tasks, cur, wj, answers, client>>

LockUart(d) ==
    /\ wpc[d] = "lock" /\ uart_mutex = Free
    /\ wpc' = [wpc EXCEPT ![d] = "header"] /\ uart_mutex' = d
    /\ UNCHANGED <<programs, sent, receiver, tasks, cur, wj, answers, client>>

\* What the solver was given: one packet's state, or not.
Solved(d) == IF \A j \in Places : cur[d][j] = cur[d][1] THEN cur[d][1] ELSE Garbage

SendHeader(d) ==
    /\ wpc[d] = "header"
    /\ out' = out \o Header \o <<<<"id", d>>>>
    /\ wpc' = [wpc EXCEPT ![d] = "body"]
    /\ UNCHANGED <<programs, sent, receiver, tasks, cur, wj, uart_mutex, responses, answered,
                   client>>

\* Mutant of SendBody: the line is not given back.
SendBodyHeld(d) ==
    /\ wpc[d] = "body"
    /\ out' = out \o ActionBytes(d, Solved(d)) \o TimeBytes
    /\ responses' = Append(responses, Answer(d, Solved(d)))
    /\ answered' = [answered EXCEPT ![d] = Solved(d)]
    /\ wpc' = [wpc EXCEPT ![d] = "wait"]
    /\ UNCHANGED <<programs, sent, receiver, tasks, cur, wj, uart_mutex, client>>

\* The action, and the time it took.
SendBody(d) ==
    /\ wpc[d] = "body"
    /\ out' = out \o ActionBytes(d, Solved(d)) \o TimeBytes
    /\ responses' = Append(responses, Answer(d, Solved(d)))
    /\ answered' = [answered EXCEPT ![d] = Solved(d)]
    /\ wpc' = [wpc EXCEPT ![d] = "wait"] /\ uart_mutex' = Free
    /\ UNCHANGED <<programs, sent, receiver, tasks, cur, wj, client>>

-----------------------------------------------------------------------------
(* The host reads *)

PacketLen == HDR_LEN + 1 + ACT_BYTES + NS_BYTES

\* What the bytes b, an id and an action, are read as.
Decode(b) ==
    IF b[1][1] = "id" /\ \E k \in 0 .. Garbage : SubSeq(b, 2, 1 + ACT_BYTES) = ActionBytes(b[1][2], k)
    THEN b[2][2] ELSE <<Garbage>>

Act(b) ==
    /\ action' = <<{Decode(b)}, IF responses = <<>> THEN {} ELSE {Head(responses)}>>
    /\ responses' = IF responses = <<>> THEN <<>> ELSE Tail(responses)

HeaderAt(s, i) == i + HDR_LEN - 1 <= Len(s) /\ SubSeq(s, i, i + HDR_LEN - 1) = Header

\* read_from_serial: the first header, once a whole packet is there
ConsoleRead ==
    /\ host = "console"
    /\ \E i \in 1 .. Len(out) :
          /\ HeaderAt(out, i) /\ \A h \in 1 .. i - 1 : ~HeaderAt(out, h)
          /\ Len(out) >= i - 1 + PacketLen
          /\ Act(SubSeq(out, i + HDR_LEN, Len(out)))
          /\ out' = SubSeq(out, i + PacketLen, Len(out))
    /\ UNCHANGED <<programs, sent, receiver, tasks, workers, answered, hpc, timeouts>>

\* read_action: the bytes of a header, a byte more when they are not one
HilHeader ==
    /\ host = "hil" /\ hpc = "header"
    /\ HeaderAt(out, 1) \/ Len(out) > HDR_LEN
    /\ IF HeaderAt(out, 1)
       THEN hpc' = "action" /\ out' = SubSeq(out, HDR_LEN + 1, Len(out))
       ELSE hpc' = "header" /\ out' = SubSeq(out, HDR_LEN + 2, Len(out))
    /\ UNCHANGED <<programs, sent, receiver, tasks, workers, responses, answered, action,
                   timeouts>>

HilAction ==
    /\ host = "hil" /\ hpc = "action" /\ Len(out) >= 1 + ACT_BYTES
    /\ Act(out)
    /\ out' = SubSeq(out, 2 + ACT_BYTES, Len(out))
    /\ hpc' = "header"
    /\ UNCHANGED <<programs, sent, receiver, tasks, workers, answered, timeouts>>

\* The bytes do not come in time: what was read is thrown away.
HilTimeout ==
    /\ host = "hil" /\ timeouts < 1 /\ out # <<>>
    /\ Len(out) < IF hpc = "header" THEN HDR_LEN ELSE 1 + ACT_BYTES
    /\ out' = <<>> /\ hpc' = "header" /\ timeouts' = timeouts + 1
    /\ UNCHANGED <<programs, sent, receiver, tasks, workers, responses, answered, action>>

-----------------------------------------------------------------------------
Main == SyncHeader \/ ReadNum \/ SkipByte \/ StoreWord \/ SetNewState
        \/ EchoNum \/ EchoSkip \/ EchoReply

Worker(d) ==
    /\ Hart(d) # MainsHart
    /\ TakeState(d) \/ CopyWord(d) \/ LockUart(d) \/ SendHeader(d) \/ SendBody(d)

\* No other thread on its hart: the workers spin, and give it to nobody.
OwnHart(d) == Hart(d) # MainsHart /\ \A e \in Drones \ {d} : Hart(e) # Hart(d)

HostReads == ConsoleRead \/ HilHeader \/ HilAction

Next ==
    \/ SendStates \/ LoseByte \/ Main \/ HostReads \/ HilTimeout
    \/ \E d \in Drones : Worker(d)

\* main has a hart to itself, and so have the workers that are alone on theirs.
Spec ==
    /\ Init /\ [][Next]_serialVars
    /\ WF_serialVars(Main) /\ \A d \in Drones : WF_serialVars(OwnHart(d) /\ Worker(d))

-----------------------------------------------------------------------------
\* main has begun to replace the state of drone d, and has not told the worker.
Writing(d) == rid = d /\ rpc \in {"state", "flag"} /\ rj > 1

Copied(d) == IF wpc[d] = "copy" THEN wj[d] - 1 ELSE NSTATES

\* No state is overlooked: if a worker's copy is not the state main stored, because
\* main was writing while it copied or has written since, then the worker is, or will
\* be, told to copy again.
NoStateLost ==
    \A d \in Drones : \A j \in 1 .. Copied(d) :
        cur[d][j] # obs[d][j] => new_state[d] \/ Writing(d)

\* After a byte was lost the receiver is back in step: a byte that is taken for the
\* count makes it skip as many as MAX_COUNT states, with the packets that lie in them
\* wholly or partly; the state of the next one is stored where it belongs.
RESYNC == (MAX_COUNT * NSTATES) \div (HDR_LEN + 1 + fleet * NSTATES) + 2
BackInStep ==
    firmware = "binary" /\ line = <<>> /\ rpc = "sync" /\ match_idx = 0 /\ clean >= RESYNC
        /\ ~oversize
    => \A d \in 0 .. fleet - 1, j \in Places : obs[d][j] = pk

\* A host that looks for the header reads every response, whole and in the order in
\* which they were sent, however the workers finish.
ActionsDecoded == host = "console" => action[1] = action[2]

\* While no byte is lost, every drone whose worker has a hart to itself is in the end
\* sent the action for the state that was sent last, whatever the workers did with the
\* ones before.  With a hart per worker or more no two workers are on the same one, and
\* at most the one on main's is left out.
Answered ==
    <>[](firmware = "binary" /\ NUM_DRONES <= cpus /\ pk > 0 /\ ~oversize /\ lost = 0
         => \A d \in 0 .. fleet - 1 : OwnHart(d) => answered[d] = pk)

\* main_mt_binary.cpp: "send binary response [HEADER][id][4 floats]"; the host that
\* reads just that, and in time, has an action for every response it has read past.
ResponsesAsDocumented ==
    host = "hil" /\ timeouts = 0 /\ hpc = "header" /\ Len(out) < HDR_LEN + 1 + ACT_BYTES
    => responses = <<>>
=============================================================================
