-------------------------- MODULE LoopbackTransport --------------------------
(***************************************************************************)
(* lib/microros_local/src/transport_loopback.c: the queue pairs between    *)
(* the micro-ROS clients and the target-resident broker thread.            *)
(*                                                                         *)
(* Session s owns rmw_to_broker[s], written by the client thread with      *)
(* loopback_write and drained by the broker with recv_any, and             *)
(* broker_to_rmw[s], written by the broker with loopback_broker_send and   *)
(* drained by the client with loopback_read.  Both hold at most Depth      *)
(* messages (LOOPBACK_DEPTH).                                              *)
(*                                                                         *)
(* A k_msgq_put that waits 50 ms stores its message as soon as there is    *)
(* room: every queue has one writer, and k_msgq_get hands the freed slot   *)
(* to the waiting writer.  It gives up only if the queue is still full     *)
(* when the timeout fires, or if the queue is purged while it waits.       *)
(*                                                                         *)
(* The module gives the operations; Broker and LoopbackService compose     *)
(* them with the threads that call them.                                   *)
(***************************************************************************)
EXTENDS Naturals, Sequences

CONSTANTS NSessions,   \* LOOPBACK_MAX_SESSIONS
          Depth        \* LOOPBACK_DEPTH

ASSUME TransportAssumption == /\ NSessions \in Nat \ {0}
                              /\ Depth \in Nat \ {0}

Sessions == 0 .. NSessions - 1

VARIABLES rmw_to_broker,   \* [Sessions -> queue of client messages]
          broker_to_rmw,   \* [Sessions -> queue of broker messages]
          ready            \* recv_any: events k_poll marked, not yet looked at

transportVars == <<rmw_to_broker, broker_to_rmw, ready>>

Room(q)   == Len(q) < Depth
IsFull(q) == Len(q) = Depth

TransportInit == /\ rmw_to_broker = [s \in Sessions |-> <<>>]
                 /\ broker_to_rmw = [s \in Sessions |-> <<>>]
                 /\ ready = {}

-----------------------------------------------------------------------------
(* The client's hooks. *)

\* loopback_open purges the two queues one after the other.
OpenPurgeOutgoing(s) == rmw_to_broker' = [rmw_to_broker EXCEPT ![s] = <<>>]
OpenPurgeIncoming(s) == broker_to_rmw' = [broker_to_rmw EXCEPT ![s] = <<>>]

\* Mutants of WriteQueued: no bound, and the put at the wrong end of the queue.
WriteQueuedUnbounded(s, m) ==
    rmw_to_broker' = [rmw_to_broker EXCEPT ![s] = Append(@, m)]
WriteQueuedFront(s, m) ==
    /\ Room(rmw_to_broker[s])
    /\ rmw_to_broker' = [rmw_to_broker EXCEPT ![s] = <<m>> \o @]

\* loopback_write: the message is queued ...
WriteQueued(s, m) ==
    /\ Room(rmw_to_broker[s])
    /\ rmw_to_broker' = [rmw_to_broker EXCEPT ![s] = Append(@, m)]

\* ... or the queue is still full after 50 ms and the message is dropped.
WriteDropped(s) ==
    /\ IsFull(rmw_to_broker[s])
    /\ UNCHANGED rmw_to_broker

\* loopback_read takes the oldest reply (a read that times out changes nothing).
ReadReply(s) ==
    /\ broker_to_rmw[s] # <<>>
    /\ broker_to_rmw' = [broker_to_rmw EXCEPT ![s] = Tail(@)]

-----------------------------------------------------------------------------
(* The broker's accessors. *)

\* recv_any, k_poll: blocks until some queue has data, marks every one that has.
PollReady ==
    /\ \E s \in Sessions : rmw_to_broker[s] # <<>>
    /\ ready' = {s \in Sessions : rmw_to_broker[s] # <<>>}

\* Mutant of NextMarked: the scan starts at the highest index.
NextMarkedFromTop(s) == s \in ready /\ \A r \in ready : s >= r

\* recv_any, the scan: s is the first marked queue not yet looked at.
NextMarked(s) == s \in ready /\ \A r \in ready : s <= r

\* k_msgq_get(K_NO_WAIT) succeeds: recv_any returns the message of session s.
ScanTake(s) ==
    /\ NextMarked(s)
    /\ rmw_to_broker[s] # <<>>
    /\ rmw_to_broker' = [rmw_to_broker EXCEPT ![s] = Tail(@)]
    /\ ready' = {}

\* It fails, for the client purged the queue after k_poll marked it: go on to
\* the next one.
ScanMiss(s) ==
    /\ NextMarked(s)
    /\ rmw_to_broker[s] = <<>>
    /\ ready' = ready \ {s}

\* loopback_broker_send: the reply is queued, now or when a slot gets free ...
SendQueued(s, m) ==
    /\ Room(broker_to_rmw[s])
    /\ broker_to_rmw' = [broker_to_rmw EXCEPT ![s] = Append(@, m)]

\* Mutant of SendTimeout: a put that waits for ever.
SendForever(s) == FALSE /\ IsFull(broker_to_rmw[s])

\* ... or the 50 ms pass with the queue full, and the reply is lost.
SendTimeout(s) ==
    /\ IsFull(broker_to_rmw[s])
    /\ UNCHANGED broker_to_rmw
=============================================================================
