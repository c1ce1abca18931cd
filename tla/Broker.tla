-------------------------------- MODULE Broker --------------------------------
(***************************************************************************)
(* lib/microros_local/src/broker.c: the target-resident XRCE-DDS agent.    *)
(*                                                                         *)
(* One broker thread takes messages from the clients' loopback queues,     *)
(* keeps a session record per queue and three tables of entities, and      *)
(* answers into the clients' queues.  A WRITE_DATA is fanned out, as DATA, *)
(* to every datareader whose topic has the same name, in any session.      *)
(*                                                                         *)
(* The thread is a program: bpc says where it stands, and between any two  *)
(* of its steps the clients may write, read, or reopen their transport.    *)
(* Every loopback_broker_send may block, and may fail, in the middle of a  *)
(* handler.  The clients (rmw_microxrcedds, a library that is not part of  *)
(* the repository) are modelled from the way broker.c describes and serves *)
(* them: they open the transport, ping or create their session with        *)
(* CREATE_CLIENT, wait for STATUS_AGENT, then send what ClientBody allows, *)
(* with at most History unacknowledged messages on the reliable stream.    *)
(*                                                                         *)
(* A message is its header and the sequence of the submessages in it that  *)
(* the parser reaches: a malformed rest, which ends the submessage loop,   *)
(* is not in the sequence.  request ids, echoed untouched, are left out.   *)
(***************************************************************************)
EXTENDS LoopbackTransport

CONSTANTS TopicIds, WriterIds, ReaderIds, OtherIds,  \* object ids, by kind nibble
          Names,                 \* topic names, as read_cdr_string stores them
          Values,                \* what is published
          MaxTopics, MaxDataWriters, MaxDataReaders,   \* table sizes
          SeqMod,                \* 2^16 in the code: sequence numbers wrap
          RealSid,               \* the clients' XRCE session id
          History,               \* RMW_UXRCE_STREAM_HISTORY
          LogDevice,             \* htif_dev_for_log is not NULL
          MaxOpens,              \* bound: loopback_open calls, per session
          MaxWrites,             \* bound: loopback_write calls, per session
          ClientBody,            \* per session, the bodies its client may send
          Unused                 \* a free slot of an entity table

ObjectIds == TopicIds \cup WriterIds \cup ReaderIds \cup OtherIds

\* A payload is what its publisher sent, and the topic it meant to publish on.
Data == [topic : Names, value : Values]

STREAM_NONE == 0
STREAM_THRESH_REL == 128
SESSION_NO_KEY == 128
StreamIds == {STREAM_NONE, 1, STREAM_THRESH_REL}

Keys       == Nat               \* 0: the zeroed key of a header without one
SeqNums    == 0 .. SeqMod - 1
SessionIds == 0 .. 255

ASSUME BrokerAssumption ==
    /\ MaxTopics \in Nat /\ MaxDataWriters \in Nat /\ MaxDataReaders \in Nat
    /\ SeqMod \in Nat \ {0} /\ History \in Nat
    /\ MaxOpens \in [Sessions -> Nat] /\ MaxWrites \in [Sessions -> Nat]
    /\ RealSid \in SessionIds /\ LogDevice \in BOOLEAN

\* The kind of an object is a nibble of its id.
ASSUME KindAssumption ==
    /\ TopicIds \cap WriterIds = {} /\ TopicIds \cap ReaderIds = {}
    /\ WriterIds \cap ReaderIds = {}
    /\ OtherIds \cap (TopicIds \cup WriterIds \cup ReaderIds) = {}

\* CREATE_CLIENT travels under `info->id & 0x80`.
MaskedSid == IF RealSid >= SESSION_NO_KEY THEN SESSION_NO_KEY ELSE 0

-----------------------------------------------------------------------------
(* Messages. *)

\* put_msg_header: the key is on the wire only under a small session id.
Header == [sid : SessionIds, stream : StreamIds, seq : SeqNums, key : Keys]
put_msg_header(sid, stream, seq, key) ==
    [sid |-> sid, stream |-> stream, seq |-> seq,
     key |-> IF sid < SESSION_NO_KEY THEN key ELSE 0]

\* What a CREATE says of its object: a topic's name or an endpoint's topic;
\* "other" stands for a representation that is not IN_BINARY, or cut short.
Submessage ==
    [sub : {"CREATE_CLIENT"}, sid : SessionIds, key : Keys]
        \cup [sub : {"CREATE"}, id : TopicIds, rep : {"binary", "other"}, name : Names]
        \cup [sub : {"CREATE"}, id : WriterIds \cup ReaderIds,
              rep : {"binary", "other"}, topic : TopicIds]
        \cup [sub : {"CREATE"}, id : OtherIds]
        \cup [sub : {"GET_INFO", "DELETE"}, id : ObjectIds]
        \cup [sub : {"WRITE_DATA"}, id : WriterIds, data : Data]
        \cup [sub : {"HEARTBEAT"}, last : SeqNums]
        \cup [sub : {"READ_DATA", "ACKNACK"}]

InMsg == [hdr : Header, body : Seq(Submessage)]

OutMsg ==
    [sub : {"STATUS_AGENT"}, hdr : Header]
        \cup [sub : {"STATUS", "INFO"}, hdr : Header, id : ObjectIds]
        \cup [sub : {"ACKNACK"}, hdr : Header, first_unacked : SeqNums]
        \cup [sub : {"DATA"}, hdr : Header, id : ReaderIds, data : Data]

-----------------------------------------------------------------------------
\* ClientBody[s]: what the client of session s may send, and on which stream.
ASSUME ClientBodyAssumption ==
    ClientBody \in [Sessions -> SUBSET [stream : StreamIds, body : Seq(Submessage)]]

\* What the bodies a client may send say, apart from the session handshake, pings
\* and heartbeats, which the client library adds by itself.
Asked(s) == UNION {{b.body[i] : i \in DOMAIN b.body} : b \in ClientBody[s]}

\* The control submessages come from the client library alone.
ProperClients ==
    \A s \in Sessions : \A m \in Asked(s) : m.sub \notin {"CREATE_CLIENT", "HEARTBEAT"}

\* A client creates an object again only as it was, and labels what it publishes
\* with the name of the topic it gave the writer.
HonestClients ==
    \A s \in Sessions : \A c, d \in Asked(s) :
        /\ c.sub = "CREATE" /\ d.sub = "CREATE" /\ c.id = d.id =>
               /\ c.id \in TopicIds => c.name = d.name
               /\ c.id \in WriterIds \cup ReaderIds => c.topic = d.topic
        /\ c.sub = "CREATE" /\ c.id \in WriterIds /\ d.sub = "CREATE" /\ d.id = c.topic =>
               \A w \in Asked(s) : w.sub = "WRITE_DATA" /\ w.id = c.id => w.data.topic = d.name

\* No client reopens its transport.
OpensOnce == \A s \in Sessions : MaxOpens[s] <= 1

\* The bound on loopback_write calls keeps the client's counter from wrapping.
NoWrap == \A s \in Sessions : MaxWrites[s] < SeqMod

\* A client is "opening" between the two purges of loopback_open, and "joining" once
\* it has sent CREATE_CLIENT.
ClientStates == {"closed", "opening", "opened", "pinging", "joining", "up"}

VARIABLES
    \* the clients
    cst,            \* what the client is doing, one of ClientStates
    key,            \* the client key: a new one for each loopback_open
    cseq,           \* next sequence number of the reliable output stream
    acked,          \* first one not yet acknowledged
    nwrites,        \* loopback_write calls so far
    \* the broker's static data
    sessions,       \* struct session_state, per loopback queue pair
    topics, datawriters, datareaders,
    broker_quiet,
    \* the broker thread
    bpc,            \* "poll", "scan", "send", "sub", "emit", "fan"
    cur,            \* cur_session_idx, cur_session_id, cur_in_stream_id, cur_key
    body,           \* submessages of the message in hand, not yet handled
    out,            \* the reply loopback_broker_send is given, and its queue
    fan,            \* handle_write_data: readers still to serve, topic, payload
    \* the HTIF log channel
    logged          \* topic writes log_topic_emit has framed

clientVars == <<cst, key, cseq, acked, nwrites>>
tableVars  == <<topics, datawriters, datareaders>>
threadVars == <<bpc, cur, body, out, fan>>
vars == <<transportVars, clientVars, tableVars, threadVars, sessions, broker_quiet, logged>>

\* struct session_state; seq_be is the counter of stream 1.
SessionState == [active : BOOLEAN, session_id : SessionIds, key : Keys,
                 seq_none : SeqNums, seq_be : SeqNums, seq_rel : SeqNums]
NoSession == [active |-> FALSE, session_id |-> 0, key |-> 0,
              seq_none |-> 0, seq_be |-> 0, seq_rel |-> 0]

TopicEnt  == [session : Sessions, id : TopicIds, name : Names]
WriterEnt == [session : Sessions, id : WriterIds, topic : TopicIds]
ReaderEnt == [session : Sessions, id : ReaderIds, topic : TopicIds]

ASSUME UnusedAssumption == Unused \notin TopicEnt \cup WriterEnt \cup ReaderEnt

NoReply == [to |-> 0, msg |-> Unused]
NoFan   == [todo |-> {}, data |-> Unused, name |-> Unused]

\* broker_start_pinned: all tables zeroed, then the thread starts.
Init ==
    /\ TransportInit
    /\ cst = [s \in Sessions |-> "closed"]
    /\ key = [s \in Sessions |-> 0]
    /\ cseq = [s \in Sessions |-> 0]
    /\ acked = [s \in Sessions |-> 0]
    /\ nwrites = [s \in Sessions |-> 0]
    /\ sessions = [s \in Sessions |-> NoSession]
    /\ topics = [i \in 1 .. MaxTopics |-> Unused]
    /\ datawriters = [i \in 1 .. MaxDataWriters |-> Unused]
    /\ datareaders = [i \in 1 .. MaxDataReaders |-> Unused]
    /\ broker_quiet = FALSE
    /\ bpc = "poll"
    /\ cur = [idx |-> 0, sid |-> 0, stream |-> 0, key |-> 0]
    /\ body = <<>> /\ out = NoReply /\ fan = NoFan
    /\ logged = {}

-----------------------------------------------------------------------------
(* The entity tables.  A slot number stands for a pointer into the table, 0 *)
(* for NULL.                                                                *)

NULL == 0
Lowest(S) == CHOOSE i \in S : \A j \in S : i <= j

\* Mutant of Matches: object ids taken for unique across sessions.
MatchesAnySession(table, s, id) ==
    {i \in DOMAIN table : table[i] # Unused /\ table[i].id = id}

\* The slots whose entry has this session and object id.
Matches(table, s, id) ==
    {i \in DOMAIN table : /\ table[i] # Unused
                          /\ table[i].session = s
                          /\ table[i].id = id}

\* find_topic and find_ep.
Find(table, s, id) ==
    IF Matches(table, s, id) = {} THEN NULL ELSE Lowest(Matches(table, s, id))

FreeSlots(table) == {i \in DOMAIN table : table[i] = Unused}

\* Mutant of Alloc: an object created again gets a second slot.
AllocAlwaysNew(table, s, id) ==
    IF FreeSlots(table) # {} THEN Lowest(FreeSlots(table)) ELSE NULL

\* alloc_topic and alloc_ep: the existing entry, else the first free slot.
Alloc(table, s, id) ==
    IF Find(table, s, id) # NULL THEN Find(table, s, id)
    ELSE IF FreeSlots(table) # {} THEN Lowest(FreeSlots(table))
    ELSE NULL

\* What handle_create does with the slot it got: nothing if the table is full.
Register(table, ent) ==
    LET i == Alloc(table, ent.session, ent.id)
    IN  IF i = NULL THEN table ELSE [table EXCEPT ![i] = ent]

\* The name that an endpoint's topic id resolves to in the endpoint's session.
NameOf(ep) == LET t == Find(topics, ep.session, ep.topic)
              IN  IF t = NULL THEN Unused ELSE topics[t].name

-----------------------------------------------------------------------------
(* Sequence numbers and replies. *)

Inc(n) == (n + 1) % SeqMod

\* next_seq_for: the number used, and the session with that counter bumped.
SeqFor(ss, stream) == IF stream = STREAM_NONE THEN ss.seq_none
                      ELSE IF stream < STREAM_THRESH_REL THEN ss.seq_be
                      ELSE ss.seq_rel

\* Mutant of Bumped: the threshold compared with <=.
BumpedOffByOne(ss, stream) ==
    IF stream = STREAM_NONE THEN [ss EXCEPT !.seq_none = Inc(@)]
    ELSE IF stream <= STREAM_THRESH_REL THEN [ss EXCEPT !.seq_be = Inc(@)]
    ELSE [ss EXCEPT !.seq_rel = Inc(@)]

Bumped(ss, stream) == IF stream = STREAM_NONE THEN [ss EXCEPT !.seq_none = Inc(@)]
                      ELSE IF stream < STREAM_THRESH_REL THEN [ss EXCEPT !.seq_be = Inc(@)]
                      ELSE [ss EXCEPT !.seq_rel = Inc(@)]

\* The header of a reply to the message in hand.
ReplyHeader(stream) ==
    put_msg_header(cur.sid, stream, SeqFor(sessions[cur.idx], stream), cur.key)

\* Hand a built reply to loopback_broker_send.
Send(s, m) == out' = [to |-> s, msg |-> m] /\ bpc' = "send"

\* send_status: mirror the inbound stream, unless it is NONE.
StatusStream == IF cur.stream # STREAM_NONE THEN cur.stream ELSE STREAM_THRESH_REL
send_status(id) ==
    /\ Send(cur.idx, [sub |-> "STATUS", hdr |-> ReplyHeader(StatusStream), id |-> id])
    /\ sessions' = [sessions EXCEPT ![cur.idx] = Bumped(@, StatusStream)]

\* send_info: on stream NONE, as GET_INFO is.
send_info(id) ==
    /\ Send(cur.idx, [sub |-> "INFO", hdr |-> ReplyHeader(STREAM_NONE), id |-> id])
    /\ sessions' = [sessions EXCEPT ![cur.idx] = Bumped(@, STREAM_NONE)]

\* Mutant of AckNack: one too many, for callers already pass seq + 1.
AckNackOneMore(hdr, first_unacked) ==
    [sub |-> "ACKNACK", first_unacked |-> Inc(first_unacked),
     hdr |-> put_msg_header(hdr.sid, STREAM_NONE, 0, hdr.key)]

\* send_acknack: stream NONE, sequence number 0, no counter is touched.
AckNack(hdr, first_unacked) ==
    [sub |-> "ACKNACK", first_unacked |-> first_unacked,
     hdr |-> put_msg_header(hdr.sid, STREAM_NONE, 0, hdr.key)]

-----------------------------------------------------------------------------
(* The clients.  loopback_write drops what does not fit; the client counts a *)
(* message of the reliable stream as sent all the same, and would send it    *)
(* again only if the agent reported it missing, which this one never does.   *)

brokerVars == <<sessions, tableVars, threadVars, ready, broker_quiet, logged>>

\* The session handshake, uxr_create_session.
Join(k) == [sub |-> "CREATE_CLIENT", sid |-> RealSid, key |-> k]

ClientSends(s, sid, stream, subs) ==
    LET m == [hdr |-> put_msg_header(sid, stream,
                        IF stream = STREAM_THRESH_REL THEN cseq[s] ELSE 0, key[s]),
              body |-> subs]
    IN  /\ nwrites[s] < MaxWrites[s]
        /\ nwrites' = [nwrites EXCEPT ![s] = @ + 1]
        /\ WriteQueued(s, m) \/ WriteDropped(s)
        /\ cseq' = IF stream = STREAM_THRESH_REL THEN [cseq EXCEPT ![s] = Inc(@)] ELSE cseq
        /\ UNCHANGED <<broker_to_rmw, key, acked, brokerVars>>

\* Sent before anything is listened to, and repeated until an answer comes.
ClientCreatesSession(s) ==
    /\ cst[s] \in {"opened", "joining"}
    /\ cst' = [cst EXCEPT ![s] = "joining"]
    /\ ClientSends(s, MaskedSid, STREAM_NONE, <<Join(key[s])>>)

\* uxr_ping_agent: a GET_INFO outside any session.  A transport that is opened
\* for a ping is opened again before there is a session on it.
ClientPings(s) ==
    /\ cst[s] \in {"opened", "pinging", "joining", "up"}
    /\ cst' = IF cst[s] = "opened" THEN [cst EXCEPT ![s] = "pinging"] ELSE cst
    /\ \E id \in OtherIds :
         ClientSends(s, SESSION_NO_KEY, STREAM_NONE, <<[sub |-> "GET_INFO", id |-> id]>>)

\* The reliable stream holds at most History messages not yet acknowledged.
Unacked(s) == (cseq[s] + SeqMod - acked[s]) % SeqMod

ClientRequests(s) ==
    /\ cst[s] = "up" /\ UNCHANGED cst
    /\ \E b \in ClientBody[s] :
         /\ b.stream = STREAM_THRESH_REL => Unacked(s) < History
         /\ ClientSends(s, RealSid, b.stream, b.body)

\* A client with unacknowledged messages asks what the agent has.
ClientHeartbeat(s) ==
    /\ cst[s] = "up" /\ UNCHANGED cst
    /\ Unacked(s) > 0
    /\ ClientSends(s, RealSid, STREAM_NONE,
                   <<[sub |-> "HEARTBEAT", last |-> (cseq[s] + SeqMod - 1) % SeqMod]>>)

\* The client takes a reply; it heeds a STATUS_AGENT under its own header while
\* it joins, and an ACKNACK of its reliable stream.
ClientRead(s) ==
    LET m == Head(broker_to_rmw[s])
        mine == m.hdr.sid = RealSid /\ (RealSid < SESSION_NO_KEY => m.hdr.key = key[s])
    IN  /\ ReadReply(s)
        /\ cst' = IF cst[s] = "joining" /\ m.sub = "STATUS_AGENT" /\ mine
                  THEN [cst EXCEPT ![s] = "up"] ELSE cst
        /\ acked' = IF cst[s] = "up" /\ m.sub = "ACKNACK" /\ mine
                    THEN [acked EXCEPT ![s] = m.first_unacked] ELSE acked
        /\ UNCHANGED <<rmw_to_broker, key, cseq, nwrites, brokerVars>>

\* loopback_open, first purge.
ClientOpens(s) ==
    /\ cst[s] # "opening" /\ key[s] < MaxOpens[s]
    /\ OpenPurgeOutgoing(s)
    /\ cst' = [cst EXCEPT ![s] = "opening"]
    /\ UNCHANGED <<broker_to_rmw, key, cseq, acked, nwrites, brokerVars>>

AfterSend == IF fan.todo = {} THEN "sub" ELSE "fan"
SendReturns == bpc' = AfterSend /\ out' = NoReply

\* Second purge.  A broker that waits for room in the purged queue is woken
\* with an error, and its reply is lost; one that is about to send is not.
ClientOpened(s) ==
    /\ cst[s] = "opening"
    /\ OpenPurgeIncoming(s)
    /\ cst' = [cst EXCEPT ![s] = "opened"]
    /\ key' = [key EXCEPT ![s] = @ + 1]
    /\ cseq' = [cseq EXCEPT ![s] = 0]
    /\ acked' = [acked EXCEPT ![s] = 0]
    /\ \/ UNCHANGED <<bpc, out>>
       \/ /\ bpc = "send" /\ out.to = s /\ IsFull(broker_to_rmw[s])
          /\ SendReturns
    /\ UNCHANGED <<rmw_to_broker, ready, nwrites, sessions, tableVars, cur, body, fan,
                   broker_quiet, logged>>

\* broker_quiesce, from a fault handler on another hart.
broker_quiesce ==
    /\ ~broker_quiet /\ broker_quiet' = TRUE
    /\ UNCHANGED <<transportVars, clientVars, sessions, tableVars, threadVars, logged>>

-----------------------------------------------------------------------------
(* The broker thread. *)

staticVars == <<clientVars, sessions, tableVars, broker_quiet, logged>>

\* loopback_broker_recv_any: the wait, and a queue found empty after it.
BrokerPoll ==
    /\ bpc = "poll"
    /\ PollReady
    /\ bpc' = "scan"
    /\ UNCHANGED <<rmw_to_broker, broker_to_rmw, staticVars, cur, body, out, fan>>

BrokerMiss(s) ==
    /\ bpc = "scan"
    /\ ScanMiss(s)
    /\ bpc' = IF ready' = {} THEN "poll" ELSE "scan"
    /\ UNCHANGED <<rmw_to_broker, broker_to_rmw, staticVars, cur, body, out, fan>>

\* A message is taken: dropped if the broker is quiet, else its header is
\* stashed and, on a reliable stream, acknowledged before it is looked at.
BrokerTake(s) ==
    LET m == Head(rmw_to_broker[s])
    IN  /\ bpc = "scan"
        /\ ScanTake(s)
        /\ \/ /\ broker_quiet
              /\ bpc' = "poll"
              /\ UNCHANGED <<cur, body, out>>
           \/ /\ ~broker_quiet
              /\ cur' = [idx |-> s, sid |-> m.hdr.sid, stream |-> m.hdr.stream,
                         key |-> m.hdr.key]
              /\ body' = m.body
              /\ IF m.hdr.stream >= STREAM_THRESH_REL
                 THEN Send(s, AckNack(m.hdr, Inc(m.hdr.seq)))
                 ELSE bpc' = "sub" /\ UNCHANGED out
        /\ UNCHANGED <<broker_to_rmw, staticVars, fan>>

\* loopback_broker_send; the handlers ignore what it returns.
BrokerSend ==
    /\ bpc = "send"
    /\ SendQueued(out.to, out.msg) \/ SendTimeout(out.to)
    /\ SendReturns
    /\ UNCHANGED <<rmw_to_broker, ready, staticVars, cur, body, fan>>

\* The submessage loop.
Handling(subs) == bpc = "sub" /\ body # <<>> /\ Head(body).sub \in subs
Consumed == body' = Tail(body)
HandlerKeeps == UNCHANGED <<transportVars, clientVars, broker_quiet>>

MessageDone ==
    /\ bpc = "sub" /\ body = <<>>
    /\ bpc' = "poll"
    /\ UNCHANGED <<transportVars, staticVars, cur, body, out, fan>>

\* Mutant of FreshSession: a session that is active is left as it is.
KeptSession(m) ==
    IF sessions[cur.idx].active THEN sessions[cur.idx]
    ELSE [NoSession EXCEPT !.active = TRUE, !.session_id = m.sid, !.key = m.key]

\* CREATE_CLIENT replaces the session: new id and key, counters back at zero.
FreshSession(m) ==
    [NoSession EXCEPT !.active = TRUE, !.session_id = m.sid, !.key = m.key]

\* The session starts over; its entities stay registered.  The reply already
\* goes out under the unmasked id.
handle_create_client ==
    LET m == Head(body)
        fresh == FreshSession(m)
    IN  /\ Handling({"CREATE_CLIENT"})
        /\ sessions' = [sessions EXCEPT ![cur.idx] = Bumped(fresh, STREAM_NONE)]
        /\ cur' = [cur EXCEPT !.sid = m.sid, !.key = m.key]
        /\ Send(cur.idx, [sub |-> "STATUS_AGENT",
                          hdr |-> put_msg_header(m.sid, STREAM_NONE, fresh.seq_none, m.key)])
        /\ Consumed /\ HandlerKeeps
        /\ UNCHANGED <<tableVars, fan, logged>>

\* Topics, datawriters and datareaders are registered if their representation
\* can be read and a slot is free; the answer is STATUS_OK in every case.
handle_create ==
    LET m == Head(body)
        readable == m.id \notin OtherIds /\ m.rep = "binary"
        endpoint == [session |-> cur.idx, id |-> m.id, topic |-> m.topic]
    IN  /\ Handling({"CREATE"})
        /\ topics' = IF m.id \in TopicIds /\ readable
                     THEN Register(topics, [session |-> cur.idx, id |-> m.id, name |-> m.name])
                     ELSE topics
        /\ datawriters' = IF m.id \in WriterIds /\ readable
                          THEN Register(datawriters, endpoint) ELSE datawriters
        /\ datareaders' = IF m.id \in ReaderIds /\ readable
                          THEN Register(datareaders, endpoint) ELSE datareaders
        /\ send_status(m.id)
        /\ Consumed /\ HandlerKeeps
        /\ UNCHANGED <<cur, fan, logged>>

handle_get_info ==
    /\ Handling({"GET_INFO"})
    /\ send_info(Head(body).id)
    /\ Consumed /\ HandlerKeeps
    /\ UNCHANGED <<tableVars, cur, fan, logged>>

\* Nothing is released.
handle_delete ==
    /\ Handling({"DELETE"})
    /\ send_status(Head(body).id)
    /\ Consumed /\ HandlerKeeps
    /\ UNCHANGED <<tableVars, cur, fan, logged>>

handle_heartbeat ==
    /\ Handling({"HEARTBEAT"})
    /\ Send(cur.idx, AckNack(cur, Inc(Head(body).last)))
    /\ Consumed /\ HandlerKeeps
    /\ UNCHANGED <<sessions, tableVars, cur, fan, logged>>

\* SUB_READ_DATA, SUB_ACKNACK and unknown submessages are skipped.
SkipSubmessage ==
    /\ Handling({"READ_DATA", "ACKNACK"})
    /\ Consumed /\ HandlerKeeps
    /\ UNCHANGED <<bpc, out, sessions, tableVars, cur, fan, logged>>

\* The slots of the datareaders handle_write_data sends to: those whose topic
\* has this name (find_topic in the reader's own session), session active.
Subscribers(name) ==
    {i \in DOMAIN datareaders : /\ datareaders[i] # Unused
                                /\ NameOf(datareaders[i]) = name
                                /\ sessions[datareaders[i].session].active}

\* Mutants of LogsWrite: the test the wrong way round, and left out.
LogsWriteInverted == broker_quiet
\* BROKER_QUIET_RETURN_IF_SET in log_topic_emit, which logs nothing without a device.
LogsWrite == ~broker_quiet /\ LogDevice

\* handle_write_data up to the fan-out: resolve the writer to a topic name, and
\* start the log frame, if there is to be one.
handle_write_data ==
    LET m == Head(body)
        dw == Find(datawriters, cur.idx, m.id)
        name == IF dw = NULL THEN Unused ELSE NameOf(datawriters[dw])
    IN  /\ Handling({"WRITE_DATA"})
        /\ IF name = Unused
           THEN UNCHANGED <<bpc, fan>>
           ELSE /\ fan' = [todo |-> Subscribers(name), data |-> m.data, name |-> name]
                /\ bpc' = IF LogsWrite THEN "emit" ELSE "fan"
        /\ Consumed /\ HandlerKeeps
        /\ UNCHANGED <<out, sessions, tableVars, cur, logged>>

\* log_topic_emit holds htif_lock from "emit" to the end of this step.
EmitDone ==
    /\ bpc = "emit"
    /\ logged' = logged \cup {<<fan.name, fan.data>>}
    /\ bpc' = "fan"
    /\ HandlerKeeps
    /\ UNCHANGED <<out, sessions, tableVars, cur, body, fan>>

\* send_data to the next subscriber, with its session's id, key and counter.
send_data ==
    LET i == Lowest(fan.todo)
        r == datareaders[i]
        target == sessions[r.session]
    IN  /\ bpc = "fan" /\ fan.todo # {}
        /\ Send(r.session,
                [sub |-> "DATA", id |-> r.id, data |-> fan.data,
                 hdr |-> put_msg_header(target.session_id, STREAM_THRESH_REL,
                                        SeqFor(target, STREAM_THRESH_REL), target.key)])
        /\ sessions' = [sessions EXCEPT ![r.session] = Bumped(@, STREAM_THRESH_REL)]
        /\ fan' = IF fan.todo = {i} THEN NoFan ELSE [fan EXCEPT !.todo = @ \ {i}]
        /\ HandlerKeeps
        /\ UNCHANGED <<tableVars, cur, body, logged>>

NoSubscriber ==
    /\ bpc = "fan" /\ fan.todo = {}
    /\ bpc' = "sub" /\ fan' = NoFan
    /\ HandlerKeeps
    /\ UNCHANGED <<out, sessions, tableVars, cur, body, logged>>

-----------------------------------------------------------------------------
ClientStep(s) == \/ ClientOpens(s) \/ ClientOpened(s) \/ ClientCreatesSession(s)
                 \/ ClientPings(s) \/ ClientRequests(s) \/ ClientHeartbeat(s)
                 \/ ClientRead(s)

BrokerStep == \/ BrokerPoll \/ BrokerSend \/ MessageDone
              \/ \E s \in Sessions : BrokerTake(s) \/ BrokerMiss(s)
              \/ handle_create_client \/ handle_create \/ handle_get_info
              \/ handle_delete \/ handle_heartbeat \/ SkipSubmessage
              \/ handle_write_data \/ EmitDone \/ send_data \/ NoSubscriber

Next == BrokerStep \/ broker_quiesce \/ \E s \in Sessions : ClientStep(s)

\* The broker thread has a hart of its own; nothing is assumed of the clients.
Spec == Init /\ [][Next]_vars /\ WF_vars(BrokerStep)

-----------------------------------------------------------------------------
(* Properties. *)

\* The replies on their way to the client of session s, oldest first: its queue,
\* then the reply loopback_broker_send has not stored yet.
InFlight(s) == IF bpc = "send" /\ out.to = s
               THEN Append(broker_to_rmw[s], out.msg) ELSE broker_to_rmw[s]

DataTo(s) == {i \in DOMAIN InFlight(s) : InFlight(s)[i].sub = "DATA"}

\* Every variable has its type, and no queue holds more than LOOPBACK_DEPTH.
TypeOK ==
    /\ rmw_to_broker \in [Sessions -> Seq(InMsg)]
    /\ broker_to_rmw \in [Sessions -> Seq(OutMsg)]
    /\ \A s \in Sessions : Len(rmw_to_broker[s]) <= Depth /\ Len(broker_to_rmw[s]) <= Depth
    /\ ready \subseteq Sessions
    /\ cst \in [Sessions -> ClientStates]
    /\ key \in [Sessions -> Keys]
    /\ cseq \in [Sessions -> SeqNums] /\ acked \in [Sessions -> SeqNums]
    /\ nwrites \in [Sessions -> Nat] /\ \A s \in Sessions : nwrites[s] <= MaxWrites[s]
    /\ sessions \in [Sessions -> SessionState]
    /\ topics \in [1 .. MaxTopics -> TopicEnt \cup {Unused}]
    /\ datawriters \in [1 .. MaxDataWriters -> WriterEnt \cup {Unused}]
    /\ datareaders \in [1 .. MaxDataReaders -> ReaderEnt \cup {Unused}]
    /\ broker_quiet \in BOOLEAN
    /\ bpc \in {"poll", "scan", "send", "sub", "emit", "fan"}
    /\ cur \in [idx : Sessions, sid : SessionIds, stream : StreamIds, key : Keys]
    /\ body \in Seq(Submessage)
    /\ out \in [to : Sessions, msg : OutMsg \cup {Unused}]
    /\ fan \in [todo : SUBSET (1 .. MaxDataReaders), data : Data \cup {Unused},
                name : Names \cup {Unused}]
    /\ logged \subseteq Names \X Data

\* An (session, object id) pair names at most one slot of a table, whatever
\* objects are created again and whichever sessions use the same ids: find_topic
\* and find_ep, which stop at the first match, miss no entry.
NoTwins(table) ==
    \A i, j \in DOMAIN table :
        /\ table[i] # Unused /\ table[j] # Unused
        /\ table[i].session = table[j].session /\ table[i].id = table[j].id
        => i = j
UniqueEntities == NoTwins(topics) /\ NoTwins(datawriters) /\ NoTwins(datareaders)

\* A DATA message in a client's queue is for a datareader that this very session
\* created: send_data takes queue and reader id from the same table slot.
RoutedToOwner ==
    \A s \in Sessions : \A i \in DataTo(s) :
        \E r \in DOMAIN datareaders : /\ datareaders[r] # Unused
                                      /\ datareaders[r].session = s
                                      /\ datareaders[r].id = InFlight(s)[i].id

\* A subscriber gets only what was published on its own topic, although topic
\* ids mean different topics in different sessions: the reader's topic, looked
\* up in the reader's session, has the name the publisher meant.
TopicIsolation ==
    \A s \in Sessions : \A i \in DataTo(s) :
        \E r \in DOMAIN datareaders, t \in DOMAIN topics :
            /\ datareaders[r] # Unused /\ topics[t] # Unused
            /\ datareaders[r].session = s /\ datareaders[r].id = InFlight(s)[i].id
            /\ topics[t].session = s /\ topics[t].id = datareaders[r].topic
            /\ topics[t].name = InFlight(s)[i].data.topic

\* On the reliable stream, sequence numbers of one session life grow strictly
\* along the queue, DATA and STATUS together: the handlers of other sessions'
\* writes and of the client's own requests share one counter.
ReliableInOrder ==
    \A s \in Sessions : \A i, j \in DOMAIN InFlight(s) :
        LET h(n) == InFlight(s)[n].hdr
        IN  /\ i < j /\ h(i).stream = STREAM_THRESH_REL
            /\ h(j).stream = STREAM_THRESH_REL /\ h(i).key = h(j).key
            => h(i).seq < h(j).seq

\* No counter of a reliable stream has come to its end, where next_seq_for wraps.
NumbersLeft == \A s \in Sessions : sessions[s].seq_rel < SeqMod - 1

\* The broker never acknowledges what the client has not sent, although
\* send_acknack answers both messages and heartbeats and the client may have
\* restarted its numbering in between.
AckNotAhead == \A s \in Sessions : acked[s] <= cseq[s]

\* While a client keeps its session, acknowledgements are never taken back.
AckNeverRetracted ==
    [][\A s \in Sessions : key'[s] = key[s] => acked'[s] >= acked[s]]_vars

\* Nothing reaches a subscriber that the HTIF log does not show, where there is one
\* and until the broker is quiesced: log_topic_emit runs before the fan-out.
LoggedBeforeDelivered ==
    LogDevice /\ ~broker_quiet =>
        \A s \in Sessions : \A i \in DataTo(s) :
            <<InFlight(s)[i].data.topic, InFlight(s)[i].data>> \in logged

\* A subscriber gets only what was published on its own topic, and nothing that the
\* HTIF log does not show before: the writer is looked up in the writer's session, each
\* reader in its own, and log_topic_emit runs before the fan-out.
DeliveredAsPublished == TopicIsolation /\ LoggedBeforeDelivered

\* The next of a client's messages to be handled, the one in hand or else the first
\* that waits, is the handshake of its present life.
JoinsNext(s) ==
    \/ cur.idx = s /\ bpc = "sub" /\ body = <<Join(key[s])>>
    \/ rmw_to_broker[s] # <<>> /\ Head(rmw_to_broker[s]).body = <<Join(key[s])>>

\* The lives of a client that reopens its transport are kept apart: while a client
\* believes in its session, the broker has the session of this very life, or makes it
\* before it looks at anything else the client has sent.  An answer to the previous
\* life's CREATE_CLIENT, which a send that blocks carries over both purges of
\* loopback_open and which looks like one to this life's, does no more harm than that.
\* A broker that is quiesced drops what it takes.
LivesApart ==
    \A s \in Sessions : cst[s] = "up" /\ ~broker_quiet =>
        \/ sessions[s].active /\ sessions[s].key = key[s]
        \/ JoinsNext(s)
=============================================================================
