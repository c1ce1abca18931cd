------------------------------- MODULE MCBroker -------------------------------
(***************************************************************************)
(* Small instances of Broker for TLC.  Object ids are the same in both     *)
(* sessions, as rmw_microxrcedds numbers its entities from the start in    *)
(* every session, and stand for different topics.                          *)
(***************************************************************************)
EXTENDS Broker, TLC

On(stream, subs) == [stream |-> stream, body |-> subs]
CreateTopic(id, n)     == [sub |-> "CREATE", id |-> id, rep |-> "binary", name |-> n]
CreateEndpoint(id, t)  == [sub |-> "CREATE", id |-> id, rep |-> "binary", topic |-> t]
Publish(id, n, v)      == [sub |-> "WRITE_DATA", id |-> id,
                           data |-> [topic |-> n, value |-> v]]

\* A publisher of ping that also listens to itself, and a subscriber to ping
\* that has a topic of its own under the publisher's topic id.  Each set-up is
\* one message.
Publisher  == <<CreateTopic("t1", "ping"), CreateEndpoint("w1", "t1"),
                CreateEndpoint("r1", "t1")>>
Subscriber == <<CreateTopic("t1", "pong"), CreateTopic("t2", "ping"),
                CreateEndpoint("r1", "t2")>>
PubSub == (0 :> {On(128, Publisher), On(128, <<Publish("w1", "ping", 1)>>)})
          @@ (1 :> {On(128, Subscriber)})
OpenOnce == [s \in Sessions |-> 1]
PubSubWrites == (0 :> 4) @@ (1 :> 2)

\* Two lives of the subscriber, while the other client publishes, asks for more than the
\* tables hold, with a writer first sent in a representation that cannot be read, or sends
\* what the broker skips: every kind of submessage, on every kind of stream.
Greedy == <<[CreateEndpoint("w1", "t1") EXCEPT !.rep = "other"], Publish("w1", "ping", 1),
            CreateTopic("t1", "ping"), CreateTopic("t2", "pong"), CreateEndpoint("r1", "t1"),
            [sub |-> "CREATE", id |-> "p1"]>>
Skipped == <<[sub |-> "DELETE", id |-> "w1"], [sub |-> "READ_DATA"], [sub |-> "ACKNACK"]>>
Reopening == (0 :> {On(128, <<CreateTopic("t1", "ping"), CreateEndpoint("w1", "t1"),
                              Publish("w1", "ping", 1)>>),
                    On(1, Greedy), On(0, Skipped)})
             @@ (1 :> {On(128, <<CreateTopic("t1", "ping"), CreateEndpoint("r1", "t1")>>)})
ReopeningOpens  == (0 :> 1) @@ (1 :> 2)
ReopeningWrites == (0 :> 2) @@ (1 :> 4)

\* What the theorems about the broker's clients suppose of them holds of these.
ASSUME ClientsAssumption == ProperClients /\ HonestClients /\ NoWrap
=============================================================================
