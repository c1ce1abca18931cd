----------------------------- MODULE MicroRosApps -----------------------------
(***************************************************************************)
(* The two micro-ROS applications:                                         *)
(*   "local"  samples/micro_ros_local: node_a (a timer, sends pings) and   *)
(*            node_b (answers each with a pong), each with an executor on  *)
(*            a thread of its own, over the broker in the same image       *)
(*   "multi"  samples/micro_ros_multinode: two timers on one executor,     *)
(*            over the agent on the host                                   *)
(*                                                                         *)
(* rclc is external: any of its calls may fail.  An executor serves what   *)
(* is ready, the timer before the subscription, and the loop ends when its *)
(* time is over (SPINS passes stand for the 8 and 30 seconds).  What the   *)
(* broker promises is Broker.tla's business: a message published while the *)
(* subscriber is there is delivered in order, or lost when its queue is    *)
(* full (QUEUE).                                                           *)
(***************************************************************************)
EXTENDS Integers, Sequences

CONSTANTS SPINS, QUEUE

Nodes == {"a", "b"}
Topics == {"ping", "pong"}
Publishes == [a |-> "ping", b |-> "pong"]
Subscribes == [a |-> "pong", b |-> "ping"]
SessionIdx == [a |-> 0, b |-> 1]

VARIABLES
    app, mainpc,
    nodepc, passes, served,     \* per thread: where it is; passes left; served in this pass
    options,                    \* per thread: the transport argument in its init options
    session,                    \* per thread: the transport its session was opened on
    subOn, queue,               \* who is subscribed; messages under way, per topic
    pub_msg,                    \* per node: the message it sends next (or sent last)
    pongs                       \* what node_a has received

appVars == <<app, mainpc, nodepc, passes, served, options, session, subOn, queue, pub_msg, pongs>>

NONE == -1

Init ==
    /\ app \in {"local", "multi"} /\ mainpc = "start"
    /\ nodepc = [n \in Nodes |-> "idle"] /\ passes = [n \in Nodes |-> SPINS]
    /\ served = [n \in Nodes |-> {}]
    /\ options = [n \in Nodes |-> NONE] /\ session = [n \in Nodes |-> NONE]
    /\ subOn = {} /\ queue = [t \in Topics |-> <<>>]
    /\ pub_msg = [n \in Nodes |-> 0] /\ pongs = <<>>

Threads == IF app = "local" THEN Nodes ELSE {"a"}
At(n, here, there) == nodepc[n] = here /\ nodepc' = [nodepc EXCEPT ![n] = there]

\* main: local starts the broker and both threads; multi calls uros_main.
MainStart ==
    /\ mainpc = "start" /\ mainpc' = "join"
    /\ nodepc' = [n \in Nodes |-> IF n \in Threads THEN "options" ELSE "end"]
    /\ UNCHANGED <<app, passes, served, options, session, subOn, queue, pub_msg, pongs>>

\* main: the threads have ended; reboot.
MainJoin ==
    /\ mainpc = "join" /\ \A n \in Nodes : nodepc[n] = "end"
    /\ mainpc' = "reboot"
    /\ UNCHANGED <<app, nodepc, passes, served, options, session, subOn, queue, pub_msg, pongs>>

-----------------------------------------------------------------------------
(* Setting up *)

\* Mutant of SetTransport: one set of arguments for the whole program.
SetTransportGlobal(n) ==
    /\ At(n, "options", IF app = "local" THEN "support" ELSE "ping")
    /\ options' = [m \in Nodes |-> SessionIdx[n]]
    /\ UNCHANGED <<app, mainpc, passes, served, session, subOn, queue, pub_msg, pongs>>

\* local: rmw_uros_options_set_custom_transport, into this thread's own options.
\* multi: rmw_uros_set_custom_transport; there is one session.
SetTransport(n) ==
    /\ At(n, "options", IF app = "local" THEN "support" ELSE "ping")
    /\ options' = [options EXCEPT ![n] = SessionIdx[n]]
    /\ UNCHANGED <<app, mainpc, passes, served, session, subOn, queue, pub_msg, pongs>>

\* multi: the agent is pinged every 200 ms, without a limit, until it answers.
PingAnswered(n) ==
    /\ At(n, "ping", "support")
    /\ UNCHANGED <<app, mainpc, passes, served, options, session, subOn, queue, pub_msg, pongs>>

\* rclc_support_init opens the session on the transport of the options.
SupportInit(n) ==
    /\ At(n, "support", "entities")
    /\ session' = [session EXCEPT ![n] = options[n]]
    /\ UNCHANGED <<app, mainpc, passes, served, options, subOn, queue, pub_msg, pongs>>

\* The node, the publisher and the subscription; messages come in from now on.  In multi
\* the two nodes and their publishers.
CreateEntities(n) ==
    /\ At(n, "entities", "executor")
    /\ subOn' = (IF app = "local" THEN subOn \union {n} ELSE subOn)
    /\ UNCHANGED <<app, mainpc, passes, served, options, session, queue, pub_msg, pongs>>

\* The message starts at 0; the timer, the executor and its handles.
CreateExecutor(n) ==
    /\ At(n, "executor", "spin")
    /\ pub_msg' = (IF app = "local" THEN [pub_msg EXCEPT ![n] = 0] ELSE [m \in Nodes |-> 0])
    /\ UNCHANGED <<app, mainpc, passes, served, options, session, subOn, queue, pongs>>

\* Mutant of SetupFails: the thread waits for ever.
SetupFailsStuck(n) ==
    /\ nodepc[n] \in {"options", "support", "entities", "executor"}
    /\ app = "multi" => nodepc[n] # "options"
    /\ nodepc' = [nodepc EXCEPT ![n] = "stuck"]
    /\ UNCHANGED <<app, mainpc, passes, served, options, session, subOn, queue, pub_msg, pongs>>

\* Any of these calls fails: the thread returns, and leaves behind what it has made.
SetupFails(n) ==
    /\ nodepc[n] \in {"options", "support", "entities", "executor"}
    /\ app = "multi" => nodepc[n] # "options"
    /\ nodepc' = [nodepc EXCEPT ![n] = "end"]
    /\ \/ UNCHANGED subOn
       \/ nodepc[n] = "entities" /\ app = "local" /\ subOn' = subOn \union {n}
    /\ UNCHANGED <<app, mainpc, passes, served, options, session, queue, pub_msg, pongs>>

-----------------------------------------------------------------------------
(* Spinning *)

Spinning(n, handle) == nodepc[n] = "spin" /\ passes[n] > 0 /\ handle \notin served[n]
Serve(n, handle) == served' = [served EXCEPT ![n] = @ \union {handle}]

Peer(n) == IF n = "a" THEN "b" ELSE "a"

\* What a publication does to the queues; the call may also fail.
Published(n, q, v) ==
    LET t == Publishes[n] IN
    {q} \union (IF Peer(n) \in subOn /\ Len(q[t]) < QUEUE THEN {[q EXCEPT ![t] = Append(@, v)]} ELSE {})

\* node_a_tick, or timer_a_cb: the counter advances although the publication may fail.
TimerA ==
    /\ Spinning("a", "timerA") /\ "msg" \notin served["a"] /\ Serve("a", "timerA")
    /\ queue' \in (IF app = "local" THEN Published("a", queue, pub_msg["a"]) ELSE {queue})
    /\ pub_msg' = [pub_msg EXCEPT !["a"] = @ + 1]
    /\ UNCHANGED <<app, mainpc, nodepc, passes, options, session, subOn, pongs>>

\* timer_b_cb, the second timer of multi.
TimerB ==
    /\ app = "multi" /\ Spinning("a", "timerB") /\ Serve("a", "timerB")
    /\ pub_msg' = [pub_msg EXCEPT !["b"] = @ + 10]
    /\ UNCHANGED <<app, mainpc, nodepc, passes, options, session, subOn, queue, pongs>>

\* node_a_on_pong
OnPong ==
    /\ app = "local" /\ Spinning("a", "msg") /\ queue["pong"] # <<>> /\ Serve("a", "msg")
    /\ pongs' = Append(pongs, Head(queue["pong"]))
    /\ queue' = [queue EXCEPT !["pong"] = Tail(@)]
    /\ UNCHANGED <<app, mainpc, nodepc, passes, options, session, subOn, pub_msg>>

\* node_b_on_ping
OnPing ==
    /\ app = "local" /\ Spinning("b", "msg") /\ queue["ping"] # <<>> /\ Serve("b", "msg")
    /\ pub_msg' = [pub_msg EXCEPT !["b"] = Head(queue["ping"]) + 1]
    /\ queue' \in Published("b", [queue EXCEPT !["ping"] = Tail(@)], pub_msg'["b"])
    /\ UNCHANGED <<app, mainpc, nodepc, passes, options, session, subOn, pongs>>

\* rclc_executor_spin_some returns; some of the time is gone.
Pass(n) ==
    /\ nodepc[n] = "spin" /\ passes[n] > 0
    /\ passes' = [passes EXCEPT ![n] = @ - 1] /\ served' = [served EXCEPT ![n] = {}]
    /\ UNCHANGED <<app, mainpc, nodepc, options, session, subOn, queue, pub_msg, pongs>>

\* The time is over: subscription, publisher, node and support are finalised.
Finish(n) ==
    /\ passes[n] = 0 /\ At(n, "spin", "end")
    /\ subOn' = subOn \ {n} /\ queue' = [queue EXCEPT ![Subscribes[n]] = <<>>]
    /\ session' = [session EXCEPT ![n] = NONE]
    /\ UNCHANGED <<app, mainpc, passes, served, options, pub_msg, pongs>>

ThreadStep(n) ==
    \/ SetTransport(n) \/ PingAnswered(n) \/ SupportInit(n) \/ CreateEntities(n)
    \/ CreateExecutor(n) \/ SetupFails(n) \/ Pass(n) \/ Finish(n)

Next ==
    \/ MainStart \/ MainJoin
    \/ \E n \in Nodes :
         \/ SetTransport(n) \/ PingAnswered(n) \/ SupportInit(n)
         \/ CreateEntities(n) \/ CreateExecutor(n) \/ SetupFails(n) \/ Pass(n) \/ Finish(n)
    \/ TimerA \/ TimerB \/ OnPong \/ OnPing

Spec == Init /\ [][Next]_appVars

\* The kernel runs main and every thread; the agent answers at last; a pass ends.
Fairness ==
    /\ WF_appVars(MainStart) /\ WF_appVars(MainJoin)
    /\ \A n \in Nodes : WF_appVars(ThreadStep(n))

FairSpec == Spec /\ Fairness

-----------------------------------------------------------------------------
(* Properties *)

\* The two sessions of micro_ros_local are opened at the same time by two threads, each
\* on its own queue of the loopback transport.
SessionsApart ==
    \A n \in Nodes : session[n] # NONE => session[n] = SessionIdx[n]

\* Every pong node_a receives answers a ping it has sent, later than the one before.
PongsAnswerPings ==
    \A i \in DOMAIN pongs :
        /\ pongs[i] \in 1 .. pub_msg["a"]
        /\ \A j \in 1 .. i - 1 : pongs[j] < pongs[i]
=============================================================================
