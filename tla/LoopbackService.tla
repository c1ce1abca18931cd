--------------------------- MODULE LoopbackService ---------------------------
(***************************************************************************)
(* Who gets served: the loopback transport under clients that never stop   *)
(* sending.  Messages have no content here.  The broker thread is the loop *)
(* of broker_thread_fn with a handler that answers every message with one  *)
(* loopback_broker_send (broker.c sends at least an ACKNACK for every      *)
(* message on a reliable stream).                                          *)
(***************************************************************************)
EXTENDS LoopbackTransport

VARIABLES bpc,      \* broker thread: "poll", "scan" or "send"
          serving   \* the session recv_any returned last

vars == <<rmw_to_broker, broker_to_rmw, ready, bpc, serving>>

Init == TransportInit /\ bpc = "poll" /\ serving = 0

\* The client calls loopback_write; a drop leaves every queue as it was.
ClientWrite(s) ==
    /\ WriteQueued(s, "msg") \/ WriteDropped(s)
    /\ UNCHANGED <<broker_to_rmw, ready, bpc, serving>>

ClientRead(s) ==
    /\ ReadReply(s)
    /\ UNCHANGED <<rmw_to_broker, ready, bpc, serving>>

\* loopback_open, by a client that (re)starts; the two purges are two steps of
\* the client thread, and neither disturbs the other queue.  A purge makes a
\* waiting k_msgq_put fail: the broker, if it waits for room, loses its reply.
ClientPurgeOutgoing(s) ==
    /\ OpenPurgeOutgoing(s)
    /\ UNCHANGED <<broker_to_rmw, ready, bpc, serving>>

ClientPurgeIncoming(s) ==
    /\ OpenPurgeIncoming(s)
    /\ \/ UNCHANGED bpc
       \/ /\ bpc = "send" /\ serving = s /\ IsFull(broker_to_rmw[s])
          /\ bpc' = "poll"
    /\ UNCHANGED <<rmw_to_broker, ready, serving>>

BrokerPoll ==
    /\ bpc = "poll"
    /\ PollReady
    /\ bpc' = "scan"
    /\ UNCHANGED <<rmw_to_broker, broker_to_rmw, serving>>

BrokerTake(s) ==
    /\ bpc = "scan"
    /\ ScanTake(s)
    /\ bpc' = "send" /\ serving' = s
    /\ UNCHANGED broker_to_rmw

\* The last miss ends the scan with -EAGAIN and the loop polls again.
BrokerMiss(s) ==
    /\ bpc = "scan"
    /\ ScanMiss(s)
    /\ bpc' = IF ready' = {} THEN "poll" ELSE "scan"
    /\ UNCHANGED <<rmw_to_broker, broker_to_rmw, serving>>

BrokerSend ==
    /\ bpc = "send"
    /\ SendQueued(serving, "msg") \/ SendTimeout(serving)
    /\ bpc' = "poll"
    /\ UNCHANGED <<rmw_to_broker, ready, serving>>

BrokerStep == \/ BrokerPoll \/ BrokerSend
              \/ \E s \in Sessions : BrokerTake(s) \/ BrokerMiss(s)

Next == \/ BrokerStep
        \/ \E s \in Sessions : \/ ClientWrite(s) \/ ClientRead(s)
                               \/ ClientPurgeOutgoing(s)
                               \/ ClientPurgeIncoming(s)

\* Only the broker thread is assumed to make progress: it has a hart of its own
\* (broker_start_pinned) and every wait in it but k_poll's is bounded by 50 ms.
Spec == Init /\ [][Next]_vars /\ WF_vars(BrokerStep)

-----------------------------------------------------------------------------
Served(s) == bpc = "send" /\ serving = s

(* The broker never hangs: whatever the clients do - stop reading, leave     *)
(* their queues full, purge in the middle of recv_any - it comes back to     *)
(* k_poll, for loopback_broker_send gives up after 50 ms and recv_any turns  *)
(* a message that vanished into -EAGAIN.                                     *)
BrokerComesBack == (bpc # "poll") ~> (bpc = "poll")

(* A session is starved by lower-numbered ones only: once they fall silent,  *)
(* a message waiting in its queue is taken (or its own client purges it),    *)
(* for recv_any scans the marked queues from index 0.  Session 0 is always   *)
(* served.                                                                   *)
ServedWhenLowerSilent ==
    \A s \in Sessions :
        <>[](\A r \in Sessions : r < s => rmw_to_broker[r] = <<>>)
            => (rmw_to_broker[s] # <<>> ~> (Served(s) \/ rmw_to_broker[s] = <<>>))
=============================================================================
