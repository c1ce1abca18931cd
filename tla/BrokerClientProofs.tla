-------------------------- MODULE BrokerClientProofs --------------------------
(***************************************************************************)
(* What the broker's clients can rely on, proved for every number of       *)
(* sessions and reopenings, every depth of the queues and every size of    *)
(* the tables: the lives of a client that reopens its transport are kept   *)
(* apart, acknowledgements run neither ahead nor back, a subscriber gets   *)
(* only what was published on the topic it subscribed to and what the HTIF *)
(* log has shown before, and the reliable stream is numbered in order.     *)
(***************************************************************************)
EXTENDS BrokerProofs

-----------------------------------------------------------------------------
(* Queues and sequence numbers. *)

\* What k_msgq_get leaves, and what k_msgq_put adds.
LEMMA TailItems ==
    ASSUME NEW M, NEW q \in Seq(M), q # <<>>
    PROVE  /\ 1 \in 1 .. Len(q) /\ Head(q) = q[1]
           /\ Len(Tail(q)) = Len(q) - 1
           /\ \A i \in 1 .. Len(Tail(q)) : i + 1 \in 1 .. Len(q) /\ Tail(q)[i] = q[i + 1]
OBVIOUS

\* See TailItems.
LEMMA AppendItems ==
    ASSUME NEW M, NEW q \in Seq(M), NEW m \in M
    PROVE  /\ Len(Append(q, m)) = Len(q) + 1 /\ Append(q, m)[Len(q) + 1] = m
           /\ \A i \in 1 .. Len(q) : Append(q, m)[i] = q[i]
           /\ \A i \in 1 .. Len(Append(q, m)) : i \in 1 .. Len(q) \/ i = Len(q) + 1
OBVIOUS

\* See TailItems.
LEMMA AppendHead ==
    ASSUME NEW M, NEW q \in Seq(M), NEW m \in M
    PROVE  Append(q, m) # <<>> /\ Head(Append(q, m)) = Append(q, m)[1]
OBVIOUS

\* Below its modulus next_seq_for counts like a natural number, and so does the
\* last number a heartbeat gives.
LEMMA SmallNumbers ==
    ASSUME NEW n \in Nat, n + 1 < SeqMod
    PROVE  Inc(n) = n + 1
BY BrokerAssumption DEF Inc

\* See SmallNumbers.
LEMMA LastNumber ==
    ASSUME NEW n \in Nat, 0 < n, n < SeqMod
    PROVE  (n + SeqMod - 1) % SeqMod = n - 1
BY BrokerAssumption

\* As many messages are unacknowledged as the counters are apart.
LEMMA UnackedCount ==
    ASSUME NEW c \in SeqNums, NEW a \in SeqNums, a <= c
    PROVE  (c + SeqMod - a) % SeqMod = c - a
BY BrokerAssumption DEF SeqNums

-----------------------------------------------------------------------------
(* The lives of a client: the inductive invariant. *)

Has(subs, kind) == \E i \in 1 .. Len(subs) : subs[i].sub = kind

\* The session record is never of a later life than the client.  Nothing waits for the
\* broker before the client's first message, and once that was the handshake, the
\* record is of the client's life or the handshake is what comes next.
SessionInv(s) ==
    /\ sessions[s].key <= key[s]
    /\ sessions[s].key # 0 => sessions[s].active
    /\ cst[s] \notin {"closed", "opening"} => key[s] # 0
    /\ cst[s] \in {"closed", "opening", "opened"} => rmw_to_broker[s] = <<>>
    /\ cst[s] \in {"joining", "up"} /\ ~broker_quiet => sessions[s].key = key[s] \/ JoinsNext(s)

\* A handshake travels alone, and without an acknowledgement that could come before it.
JoinOK(m, k) == Has(m.body, "CREATE_CLIENT") => m.body = <<Join(k)>> /\ m.hdr.stream = STREAM_NONE
QueuedInv(s) == \A i \in 1 .. Len(rmw_to_broker[s]) : JoinOK(rmw_to_broker[s][i], key[s])
Life(s) == SessionInv(s) /\ QueuedInv(s)

\* The handshake in hand may be of an earlier life of its client, but never of one
\* before that of the session record.
HandInv == Has(body, "CREATE_CLIENT") =>
              /\ bpc = "sub"
              /\ \E c \in Nat : body = <<Join(c)>> /\ sessions[cur.idx].key <= c /\ c <= key[cur.idx]

\* Its answer leaves with nothing more in hand.
AgentInv == bpc = "send" /\ out.msg.sub = "STATUS_AGENT" => out.to = cur.idx /\ body = <<>>

LifeInv == (\A s \in Sessions : Life(s)) /\ HandInv /\ AgentInv

\* The first way for the handshake to be next.
HandNext(s) == cur.idx = s /\ bpc = "sub" /\ body = <<Join(key[s])>>

\* The counters of the clients and the keys are numbers.
LEMMA LifeTypes ==
    ASSUME TypeInv, NEW s \in Sessions
    PROVE  /\ key[s] \in Nat /\ cseq[s] \in Nat /\ acked[s] \in Nat /\ nwrites[s] \in Nat
           /\ cseq[s] \in SeqNums /\ acked[s] \in SeqNums /\ SeqNums \subseteq Nat
           /\ sessions[s].key \in Nat /\ sessions[s] \in SessionState
           /\ rmw_to_broker[s] \in Seq(InMsg) /\ broker_to_rmw[s] \in Seq(OutMsg)
           /\ cst[s] \in ClientStates
BY BrokerAssumption DEF TypeInv, TypeOK, Keys, SeqNums, SessionState

\* The message in hand and its answer.
LEMMA ThreadTypes ==
    ASSUME TypeInv
    PROVE  /\ cur.idx \in Sessions /\ cur.key \in Nat /\ body \in Seq(Submessage)
           /\ out.to \in Sessions
           /\ bpc = "send" => out.msg \in OutMsg /\ out.msg.hdr.key \in Nat
<1>1. \A m \in OutMsg : m.hdr.key \in Nat
  BY OutMsgFields DEF Header, Keys
<1>. QED  BY <1>1 DEF TypeInv, TypeOK, SendOK, Keys

\* The key of a header is the given one, or none at all.
LEMMA HeaderKey ==
    ASSUME NEW sid, NEW stream, NEW seq, NEW k
    PROVE  /\ put_msg_header(sid, stream, seq, k).key \in {0, k}
           /\ put_msg_header(sid, stream, seq, k).stream = stream
           /\ put_msg_header(sid, stream, seq, k).seq = seq
           /\ put_msg_header(sid, stream, seq, k).sid = sid
BY DEF put_msg_header

\* A session nothing happens to.
LEMMA LifeFrame ==
    ASSUME NEW s, Life(s),
           key'[s] = key[s], cst'[s] = cst[s], sessions'[s].key = sessions[s].key,
           sessions'[s].active = sessions[s].active,
           rmw_to_broker'[s] = rmw_to_broker[s], broker_quiet => broker_quiet',
           HandNext(s) => HandNext(s)'
    PROVE  Life(s)'
<1>1. JoinsNext(s) => JoinsNext(s)'
  BY DEF JoinsNext, HandNext
<1>2. SessionInv(s)'
  BY <1>1 DEF Life, SessionInv
<1>3. QueuedInv(s)'
  BY DEF Life, QueuedInv
<1>. QED  BY <1>2, <1>3 DEF Life

\* A message that begins with something else than a handshake holds none.
LEMMA NoHandshake ==
    ASSUME TypeInv, HandInv, body # <<>>, Head(body).sub # "CREATE_CLIENT"
    PROVE  ~Has(body, "CREATE_CLIENT") /\ ~Has(Tail(body), "CREATE_CLIENT") /\ \A s : ~HandNext(s)
<1>1. /\ Head(body) = body[1] /\ 1 \in 1 .. Len(body)
      /\ \A i \in 1 .. Len(Tail(body)) : i + 1 \in 1 .. Len(body) /\ Tail(body)[i] = body[i + 1]
  BY TailItems, ThreadTypes
<1>2. \A c : body # <<Join(c)>>
  <2>. SUFFICES ASSUME NEW c, body = <<Join(c)>> PROVE FALSE
    OBVIOUS
  <2>1. body[1].sub = "CREATE_CLIENT"
    BY DEF Join
  <2>. QED  BY <1>1, <2>1
<1>3. ~Has(body, "CREATE_CLIENT")
  BY <1>2 DEF HandInv
<1>4. ~Has(Tail(body), "CREATE_CLIENT")
  BY <1>1, <1>3 DEF Has
<1>. QED  BY <1>2, <1>3, <1>4 DEF HandNext

\* At the start no life has begun.
LEMMA LifeInit == Init => LifeInv
<1>. SUFFICES ASSUME Init PROVE LifeInv
  OBVIOUS
<1>1. HandInv /\ AgentInv
  BY DEF Init, HandInv, AgentInv, Has
<1>2. ASSUME NEW s \in Sessions PROVE Life(s)
  <2>1. /\ rmw_to_broker[s] = <<>> /\ cst[s] = "closed" /\ key[s] = 0 /\ sessions[s].key = 0
    BY DEF Init, TransportInit, NoSession
  <2>. QED  BY <2>1 DEF Life, SessionInv, QueuedInv
<1>. QED  BY <1>1, <1>2 DEF LifeInv

\* The replies on their way to a client: its queue and the reply in hand.
LEMMA InFlightItems ==
    ASSUME TypeInv, NEW s \in Sessions
    PROVE  /\ DOMAIN InFlight(s) = 1 .. Len(InFlight(s))
           /\ \A i \in DOMAIN InFlight(s) :
                 \/ i \in 1 .. Len(broker_to_rmw[s]) /\ InFlight(s)[i] = broker_to_rmw[s][i]
                 \/ /\ bpc = "send" /\ out.to = s /\ InFlight(s)[i] = out.msg
                    /\ i = Len(broker_to_rmw[s]) + 1
<1>0. broker_to_rmw[s] \in Seq(OutMsg) /\ (bpc = "send" => out.msg \in OutMsg)
  BY LifeTypes, ThreadTypes
<1>1. CASE bpc = "send" /\ out.to = s
  BY <1>0, <1>1, AppendItems DEF InFlight
<1>2. CASE ~(bpc = "send" /\ out.to = s)
  BY <1>0, <1>2 DEF InFlight
<1>. QED  BY <1>1, <1>2

-----------------------------------------------------------------------------
(* The lives of a client: the clients' steps. *)

\* loopback_write, stored or dropped.  The first message of a life is stored, for the
\* queue is empty, so a client that now waits for its session has its handshake there.
LEMMA LifeSends ==
    ASSUME TypeInv, LifeInv, NEW s \in Sessions, cst[s] \notin {"closed", "opening"},
           NEW sid \in SessionIds, NEW stream \in StreamIds, NEW subs \in Seq(Submessage),
           Has(subs, "CREATE_CLIENT") => subs = <<Join(key[s])>> /\ stream = STREAM_NONE,
           NEW st \in {"pinging", "joining", "up"}, cst' = [cst EXCEPT ![s] = st],
           st = cst[s] \/ (cst[s] = "opened" /\ (st = "pinging" \/ (st = "joining" /\ subs = <<Join(key[s])>>))),
           ClientSends(s, sid, stream, subs)
    PROVE  LifeInv'
<1>. DEFINE h == put_msg_header(sid, stream, IF stream = STREAM_THRESH_REL THEN cseq[s] ELSE 0, key[s])
            m == [hdr |-> h, body |-> subs]
            q == rmw_to_broker[s]
<1>q. q \in Seq(InMsg)
  BY LifeTypes
<1>n. Len(q) \in Nat
  BY <1>q
<1>s. rmw_to_broker \in [Sessions -> Seq(InMsg)] /\ cst \in [Sessions -> ClientStates]
  BY DEF TypeInv, TypeOK
<1>t. /\ key[s] \in Nat /\ cseq[s] \in SeqNums /\ q \in Seq(InMsg) /\ Len(q) \in Nat
      /\ rmw_to_broker \in [Sessions -> Seq(InMsg)] /\ cst \in [Sessions -> ClientStates]
  BY <1>q, <1>n, <1>s, LifeTypes
<1>1. /\ WriteQueued(s, m) \/ WriteDropped(s)
      /\ UNCHANGED <<key, sessions, bpc, cur, body, out, broker_quiet>>
  BY DEF ClientSends, brokerVars, threadVars
<1>2. m \in InMsg /\ m.body = subs /\ m.hdr.stream = stream
  <2>1. h \in Header
    BY <1>t, HeaderType, ConstantTypes DEF Keys, SeqNums
  <2>2. h.stream = stream
    BY HeaderKey
  <2>. QED  BY <2>1, <2>2 DEF InMsg
<1>. HIDE DEF h, m
<1>3. ASSUME NEW r \in Sessions, r # s PROVE Life(r)'
  <2>1. rmw_to_broker'[r] = rmw_to_broker[r] /\ cst'[r] = cst[r]
    BY <1>t, <1>1, <1>3 DEF WriteQueued, WriteDropped
  <2>. QED  BY <1>1, <2>1, LifeFrame DEF LifeInv, HandNext
<1>4. cst'[s] = st
  BY <1>t
<1>5. rmw_to_broker'[s] = Append(q, m) \/ (rmw_to_broker'[s] = q /\ q # <<>>)
  BY <1>t, <1>1, TransportAssumption DEF WriteQueued, WriteDropped, IsFull
<1>6. /\ Append(q, m) # <<>> /\ \A i \in 1 .. Len(Append(q, m)) : Append(q, m)[i] = m \/ (i \in 1 .. Len(q) /\ Append(q, m)[i] = q[i])
      /\ q # <<>> => Head(Append(q, m)) = Head(q)
      /\ q = <<>> => Head(Append(q, m)) = m
  <2>1. /\ Append(q, m) \in Seq(InMsg) /\ Len(Append(q, m)) = Len(q) + 1
        /\ Append(q, m)[Len(q) + 1] = m
        /\ \A i \in 1 .. Len(q) : Append(q, m)[i] = q[i]
        /\ \A i \in 1 .. Len(Append(q, m)) : i \in 1 .. Len(q) \/ i = Len(q) + 1
    BY <1>t, <1>2, AppendItems
  <2>2. Append(q, m) # <<>> /\ Head(Append(q, m)) = Append(q, m)[1]
    BY <1>t, <1>2, AppendHead
  <2>3. q = <<>> => Len(q) = 0
    OBVIOUS
  <2>4. q # <<>> => 1 \in 1 .. Len(q) /\ Head(q) = q[1]
    BY <1>t, TailItems
  <2>. QED  BY <2>1, <2>2, <2>3, <2>4
<1>v. Life(s)
  BY DEF LifeInv
<1>7. SessionInv(s)'
  <2>1. ASSUME st \in {"joining", "up"}, ~broker_quiet
        PROVE  sessions[s].key = key[s] \/ JoinsNext(s)'
    <3>1. CASE cst[s] = st
      <4>1. sessions[s].key = key[s] \/ JoinsNext(s)
        BY <1>v, <2>1, <3>1 DEF Life, SessionInv
      <4>. QED  BY <1>1, <1>5, <1>6, <4>1 DEF JoinsNext
    <3>2. CASE cst[s] = "opened" /\ subs = <<Join(key[s])>>
      <4>1. q = <<>>
        BY <1>v, <3>2 DEF Life, SessionInv
      <4>. QED  BY <1>1, <1>2, <1>5, <1>6, <3>2, <4>1 DEF JoinsNext
    <3>. QED  BY <2>1, <3>1, <3>2
  <2>. QED  BY <1>v, <1>1, <1>4, <2>1 DEF Life, SessionInv
<1>8. QueuedInv(s)'
  <2>1. JoinOK(m, key[s])
    BY <1>2 DEF JoinOK
  <2>. QED  BY <1>v, <1>1, <1>5, <1>6, <2>1 DEF Life, QueuedInv
<1>9. HandInv' /\ AgentInv'
  BY <1>1 DEF LifeInv, HandInv, AgentInv
<1>. QED  BY <1>3, <1>7, <1>8, <1>9 DEF LifeInv, Life

\* Everything a client writes.
LEMMA LifeWrites ==
    ASSUME TypeInv, LifeInv, ProperClients, NEW s \in Sessions,
           \/ ClientCreatesSession(s) \/ ClientPings(s)
           \/ ClientRequests(s) \/ ClientHeartbeat(s)
    PROVE  LifeInv'
<1>t. /\ key[s] \in Nat /\ cst[s] \in ClientStates /\ cst \in [Sessions -> ClientStates]
      /\ cseq[s] \in SeqNums
  BY LifeTypes DEF TypeInv, TypeOK
<1>e. ASSUME NEW b \in Submessage
      PROVE  /\ <<b>> \in Seq(Submessage)
             /\ b.sub # "CREATE_CLIENT" => ~Has(<<b>>, "CREATE_CLIENT")
  BY DEF Has
<1>1. CASE ClientCreatesSession(s)
  <2>1. /\ cst[s] \in {"opened", "joining"} /\ cst' = [cst EXCEPT ![s] = "joining"]
        /\ ClientSends(s, MaskedSid, STREAM_NONE, <<Join(key[s])>>)
    BY <1>1 DEF ClientCreatesSession
  <2>2. Join(key[s]) \in Submessage
    BY <1>t, ConstantTypes DEF Submessage, Join, Keys
  <2>. QED  BY <1>e, <2>1, <2>2, LifeSends, ConstantTypes
<1>2. CASE ClientPings(s)
  <2>1. PICK id \in OtherIds :
          ClientSends(s, SESSION_NO_KEY, STREAM_NONE, <<[sub |-> "GET_INFO", id |-> id]>>)
    BY <1>2 DEF ClientPings
  <2>. DEFINE b == [sub |-> "GET_INFO", id |-> id]
  <2>2. b \in Submessage /\ b.sub # "CREATE_CLIENT"
    BY DEF Submessage, ObjectIds
  <2>3. /\ cst[s] \in {"opened", "pinging", "joining", "up"}
        /\ cst' = [cst EXCEPT ![s] = IF cst[s] = "opened" THEN "pinging" ELSE cst[s]]
    BY <1>t, <1>2 DEF ClientPings
  <2>4. ClientSends(s, SESSION_NO_KEY, STREAM_NONE, <<b>>)
    BY <2>1
  <2>. HIDE DEF b
  <2>. QED  BY <1>e, <2>2, <2>3, <2>4, LifeSends, ConstantTypes
<1>3. CASE ClientRequests(s)
  <2>1. PICK b \in ClientBody[s] : ClientSends(s, RealSid, b.stream, b.body)
    BY <1>3 DEF ClientRequests
  <2>2. b.stream \in StreamIds /\ b.body \in Seq(Submessage)
    BY ClientBodyAssumption
  <2>3. ~Has(b.body, "CREATE_CLIENT")
    BY <2>2 DEF ProperClients, Asked, Has
  <2>4. cst[s] = "up" /\ cst' = [cst EXCEPT ![s] = "up"]
    BY <1>t, <1>3 DEF ClientRequests
  <2>. QED  BY <2>1, <2>2, <2>3, <2>4, LifeSends, ConstantTypes
<1>4. CASE ClientHeartbeat(s)
  <2>. DEFINE last == (cseq[s] + SeqMod - 1) % SeqMod
              b == [sub |-> "HEARTBEAT", last |-> last]
  <2>1. last \in SeqNums
    BY <1>t, BrokerAssumption DEF SeqNums
  <2>. HIDE DEF last
  <2>2. b \in Submessage /\ b.sub # "CREATE_CLIENT"
    BY <2>1 DEF Submessage
  <2>3. ClientSends(s, RealSid, STREAM_NONE, <<b>>)
    BY <1>4 DEF ClientHeartbeat, last
  <2>4. cst[s] = "up" /\ cst' = [cst EXCEPT ![s] = "up"]
    BY <1>t, <1>4 DEF ClientHeartbeat
  <2>. HIDE DEF b
  <2>. QED  BY <1>e, <2>2, <2>3, <2>4, LifeSends, ConstantTypes
<1>. QED  BY <1>1, <1>2, <1>3, <1>4

\* loopback_read: the client comes up only after it has sent its handshake.
LEMMA LifeRead ==
    ASSUME TypeInv, LifeInv, NEW s \in Sessions, ClientRead(s)
    PROVE  LifeInv'
<1>1. /\ cst \in [Sessions -> ClientStates]
      /\ cst' = cst \/ (cst[s] = "joining" /\ cst' = [cst EXCEPT ![s] = "up"])
      /\ UNCHANGED <<rmw_to_broker, key, sessions, bpc, cur, body, out, broker_quiet>>
  BY DEF ClientRead, brokerVars, threadVars, TypeInv, TypeOK
<1>2. ASSUME NEW r \in Sessions PROVE Life(r)'
  <2>1. cst'[r] = cst[r] \/ (cst[r] = "joining" /\ cst'[r] = "up")
    BY <1>1
  <2>2. JoinsNext(r)' = JoinsNext(r)
    BY <1>1 DEF JoinsNext
  <2>. QED  BY <1>1, <2>1, <2>2 DEF LifeInv, Life, SessionInv, QueuedInv
<1>3. HandInv' /\ AgentInv'
  BY <1>1 DEF LifeInv, HandInv, AgentInv
<1>. QED  BY <1>2, <1>3 DEF LifeInv

\* loopback_open, first purge: what the client had sent is gone.
LEMMA LifeOpens ==
    ASSUME TypeInv, LifeInv, NEW s \in Sessions, ClientOpens(s)
    PROVE  LifeInv'
<1>1. /\ rmw_to_broker' = [rmw_to_broker EXCEPT ![s] = <<>>]
      /\ cst' = [cst EXCEPT ![s] = "opening"]
      /\ rmw_to_broker \in [Sessions -> Seq(InMsg)] /\ cst \in [Sessions -> ClientStates]
      /\ UNCHANGED <<key, sessions, bpc, cur, body, out, broker_quiet>>
  BY DEF ClientOpens, OpenPurgeOutgoing, brokerVars, threadVars, TypeInv, TypeOK
<1>2. rmw_to_broker'[s] = <<>> /\ cst'[s] = "opening"
  BY <1>1
<1>3. Life(s)'
  BY <1>1, <1>2 DEF LifeInv, Life, SessionInv, QueuedInv
<1>4. ASSUME NEW r \in Sessions, r # s PROVE Life(r)'
  <2>1. cst'[r] = cst[r] /\ rmw_to_broker'[r] = rmw_to_broker[r]
    BY <1>1, <1>4
  <2>. QED  BY <1>1, <2>1, LifeFrame DEF LifeInv, HandNext
<1>5. HandInv' /\ AgentInv'
  BY <1>1 DEF LifeInv, HandInv, AgentInv
<1>. QED  BY <1>3, <1>4, <1>5 DEF LifeInv

\* loopback_open, second purge: whatever the thread has in hand for the client is
\* of an earlier life from here on.
LEMMA LifeOpened ==
    ASSUME TypeInv, LifeInv, NEW s \in Sessions, ClientOpened(s)
    PROVE  LifeInv'
<1>1. /\ cst[s] = "opening" /\ cst' = [cst EXCEPT ![s] = "opened"]
      /\ key' = [key EXCEPT ![s] = @ + 1]
      /\ key \in [Sessions -> Nat] /\ cst \in [Sessions -> ClientStates]
      /\ UNCHANGED <<rmw_to_broker, sessions, cur, body, broker_quiet>>
      /\ \/ UNCHANGED <<bpc, out>>
         \/ bpc = "send" /\ bpc' \in {"sub", "fan"}
  BY DEF ClientOpened, SendReturns, AfterSend, TypeInv, TypeOK, Keys
<1>2. cst'[s] = "opened" /\ key'[s] = key[s] + 1 /\ key[s] \in Nat /\ sessions[s].key \in Nat
  BY <1>1, LifeTypes
<1>3. Life(s)'
  <2>1. sessions[s].key <= key[s] /\ rmw_to_broker[s] = <<>> /\ (sessions[s].key # 0 => sessions[s].active)
    BY <1>1 DEF LifeInv, Life, SessionInv
  <2>. QED  BY <1>1, <1>2, <2>1 DEF Life, SessionInv, QueuedInv
<1>4. ASSUME NEW r \in Sessions, r # s PROVE Life(r)'
  <2>1. cst'[r] = cst[r] /\ key'[r] = key[r]
    BY <1>1, <1>4
  <2>2. HandNext(r) => HandNext(r)'
    BY <1>1, <2>1 DEF HandNext
  <2>. QED  BY <1>1, <2>1, <2>2, LifeFrame DEF LifeInv
<1>5. HandInv'
  <2>. SUFFICES ASSUME Has(body, "CREATE_CLIENT") PROVE HandInv'
    BY <1>1 DEF HandInv
  <2>1. PICK c \in Nat : body = <<Join(c)>> /\ sessions[cur.idx].key <= c /\ c <= key[cur.idx]
    BY DEF LifeInv, HandInv
  <2>2. bpc = "sub" /\ bpc' = "sub"
    BY <1>1 DEF LifeInv, HandInv
  <2>3. c <= key'[cur.idx]
    BY <1>1, <1>2, <2>1, ThreadTypes, LifeTypes
  <2>. QED  BY <1>1, <2>1, <2>2, <2>3 DEF HandInv
<1>6. AgentInv'
  BY <1>1 DEF LifeInv, AgentInv
<1>. QED  BY <1>3, <1>4, <1>5, <1>6 DEF LifeInv

-----------------------------------------------------------------------------
(* The lives of a client: the broker's steps. *)

\* Steps that take no message and handle no handshake.
LEMMA LifeLoop ==
    ASSUME TypeInv, LifeInv, UNCHANGED <<rmw_to_broker, cst, key, cur>>,
           broker_quiet => broker_quiet',
           \A s \in Sessions : /\ sessions'[s].key = sessions[s].key
                               /\ sessions'[s].active = sessions[s].active,
           body' = body \/ (body # <<>> /\ Head(body).sub # "CREATE_CLIENT" /\ body' = Tail(body)),
           body' = body => (bpc = "sub" => bpc' = "sub") \/ body = <<>>,
           bpc' = "send" => \/ out'.msg.sub # "STATUS_AGENT"
                            \/ bpc = "send" /\ out' = out /\ body' = body
    PROVE  LifeInv'
<1>1. CASE body' = body /\ (bpc = "sub" => bpc' = "sub")
  <2>1. ASSUME NEW s \in Sessions PROVE Life(s)'
    <3>1. HandNext(s) => HandNext(s)'
      BY <1>1 DEF HandNext
    <3>. QED  BY <3>1, LifeFrame DEF LifeInv
  <2>2. HandInv'
    BY <1>1, ThreadTypes DEF LifeInv, HandInv
  <2>3. AgentInv'
    BY <1>1 DEF LifeInv, AgentInv
  <2>. QED  BY <2>1, <2>2, <2>3 DEF LifeInv
<1>2. CASE \/ body' = body /\ body = <<>>
           \/ body # <<>> /\ Head(body).sub # "CREATE_CLIENT" /\ body' = Tail(body)
  <2>1. ~Has(body', "CREATE_CLIENT") /\ \A s : ~HandNext(s)
    <3>1. CASE body = <<>> /\ body' = body
      <4>1. ~Has(body', "CREATE_CLIENT")
        BY <3>1 DEF Has
      <4>2. \A c : body # <<Join(c)>>
        BY <3>1
      <4>. QED  BY <4>1, <4>2 DEF HandNext
    <3>2. CASE body # <<>> /\ Head(body).sub # "CREATE_CLIENT" /\ body' = Tail(body)
      BY <3>2, NoHandshake DEF LifeInv
    <3>. QED  BY <1>2, <3>1, <3>2
  <2>2. ASSUME NEW s \in Sessions PROVE Life(s)'
    BY <2>1, LifeFrame DEF LifeInv
  <2>3. HandInv'
    BY <2>1 DEF HandInv, Has
  <2>4. AgentInv'
    BY DEF LifeInv, AgentInv
  <2>. QED  BY <2>2, <2>3, <2>4 DEF LifeInv
<1>. QED  BY <1>1, <1>2

\* next_seq_for touches only counters.
LEMMA BumpedKeeps ==
    ASSUME NEW ss \in SessionState, NEW stream
    PROVE  Bumped(ss, stream).key = ss.key /\ Bumped(ss, stream).active = ss.active
BY DEF Bumped, SessionState

\* See BumpedKeeps.
LEMMA BumpKeeps ==
    ASSUME TypeInv, NEW t \in Sessions, NEW stream,
           sessions' = [sessions EXCEPT ![t] = Bumped(@, stream)], NEW s \in Sessions
    PROVE  /\ sessions'[s].key = sessions[s].key
           /\ sessions'[s].active = sessions[s].active
<1>1. sessions \in [Sessions -> SessionState]
  BY DEF TypeInv, TypeOK
<1>2. sessions'[s] = IF s = t THEN Bumped(sessions[s], stream) ELSE sessions[s]
  BY <1>1
<1>. QED  BY <1>1, <1>2, BumpedKeeps

\* loopback_broker_recv_any returns a message: if it is the handshake, it is handled
\* without a send before it.
LEMMA LifeTake ==
    ASSUME TypeInv, LifeInv, NEW s \in Sessions, BrokerTake(s)
    PROVE  LifeInv'
<1>. DEFINE q == rmw_to_broker[s]
            m == Head(q)
<1>t. /\ key[s] \in Nat /\ sessions[s].key \in Nat /\ q \in Seq(InMsg)
      /\ rmw_to_broker \in [Sessions -> Seq(InMsg)]
  BY LifeTypes DEF TypeInv, TypeOK
<1>v. Life(s)
  BY DEF LifeInv
<1>1. /\ bpc = "scan" /\ q # <<>> /\ rmw_to_broker' = [rmw_to_broker EXCEPT ![s] = Tail(@)]
      /\ UNCHANGED <<cst, key, sessions, broker_quiet>>
      /\ \/ broker_quiet /\ bpc' = "poll" /\ UNCHANGED <<cur, body, out>>
         \/ /\ cur' = [idx |-> s, sid |-> m.hdr.sid, stream |-> m.hdr.stream, key |-> m.hdr.key]
            /\ body' = m.body
            /\ \/ /\ m.hdr.stream >= STREAM_THRESH_REL
                  /\ Send(s, AckNack(m.hdr, Inc(m.hdr.seq)))
               \/ ~(m.hdr.stream >= STREAM_THRESH_REL) /\ bpc' = "sub"
  BY DEF BrokerTake, ScanTake, staticVars, clientVars
<1>2. /\ 1 \in 1 .. Len(q) /\ m = q[1]
      /\ \A i \in 1 .. Len(Tail(q)) : i + 1 \in 1 .. Len(q) /\ Tail(q)[i] = q[i + 1]
  BY <1>t, <1>1, TailItems
<1>3. rmw_to_broker'[s] = Tail(q) /\ \A r \in Sessions : r # s => rmw_to_broker'[r] = rmw_to_broker[r]
  BY <1>t, <1>1
<1>4. JoinOK(m, key[s])
  BY <1>v, <1>2 DEF Life, QueuedInv
<1>5. \A r : ~HandNext(r)
  BY <1>1 DEF HandNext
<1>6. ASSUME NEW r \in Sessions, r # s PROVE Life(r)'
  BY <1>1, <1>3, <1>5, <1>6, LifeFrame DEF LifeInv
<1>7. QueuedInv(s)'
  BY <1>v, <1>1, <1>2, <1>3 DEF Life, QueuedInv
<1>8. cst[s] \notin {"closed", "opening", "opened"} /\ sessions[s].key <= key[s]
  BY <1>v, <1>1 DEF Life, SessionInv
<1>. HIDE DEF m
<1>9. CASE broker_quiet /\ bpc' = "poll" /\ UNCHANGED <<cur, body, out>>
  <2>1. SessionInv(s)'
    BY <1>v, <1>1, <1>8, <1>9 DEF Life, SessionInv
  <2>2. HandInv' /\ AgentInv'
    BY <1>1, <1>9 DEF LifeInv, HandInv, AgentInv
  <2>. QED  BY <1>6, <1>7, <2>1, <2>2 DEF LifeInv, Life
<1>10. CASE /\ cur' = [idx |-> s, sid |-> m.hdr.sid, stream |-> m.hdr.stream, key |-> m.hdr.key]
            /\ body' = m.body
            /\ \/ /\ m.hdr.stream >= STREAM_THRESH_REL
                  /\ Send(s, AckNack(m.hdr, Inc(m.hdr.seq)))
               \/ ~(m.hdr.stream >= STREAM_THRESH_REL) /\ bpc' = "sub"
  <2>0. cur'.idx = s
    BY <1>10
  <2>1. Has(m.body, "CREATE_CLIENT") => bpc' = "sub" /\ m.body = <<Join(key[s])>>
    BY <1>4, <1>10 DEF JoinOK, STREAM_NONE, STREAM_THRESH_REL
  <2>2. m.body = <<Join(key[s])>> => Has(m.body, "CREATE_CLIENT")
    <3>. SUFFICES ASSUME m.body = <<Join(key[s])>> PROVE Has(m.body, "CREATE_CLIENT")
      OBVIOUS
    <3>1. Len(m.body) = 1 /\ m.body[1].sub = "CREATE_CLIENT"
      BY DEF Join
    <3>. QED  BY <3>1 DEF Has
  <2>3. SessionInv(s)'
    <3>1. ASSUME cst[s] \in {"joining", "up"}, ~broker_quiet
          PROVE  sessions[s].key = key[s] \/ JoinsNext(s)'
      <4>1. CASE sessions[s].key = key[s]
        BY <4>1
      <4>2. CASE JoinsNext(s)
        <5>1. m.body = <<Join(key[s])>>
          BY <1>5, <4>2 DEF JoinsNext, HandNext, m
        <5>. QED  BY <1>1, <1>10, <2>0, <2>1, <2>2, <5>1 DEF JoinsNext
      <4>. QED  BY <1>v, <3>1, <4>1, <4>2 DEF Life, SessionInv
    <3>. QED  BY <1>v, <1>1, <1>8, <3>1 DEF Life, SessionInv
  <2>4. HandInv'
    BY <1>t, <1>1, <1>8, <1>10, <2>0, <2>1 DEF HandInv
  <2>5. AgentInv'
    BY <1>10 DEF AgentInv, Send, AckNack
  <2>. QED  BY <1>6, <1>7, <2>3, <2>4, <2>5 DEF LifeInv, Life
<1>. QED  BY <1>1, <1>9, <1>10

\* CREATE_CLIENT moves the session record to the life of the handshake in hand,
\* which is no earlier one.
LEMMA LifeCreateClient ==
    ASSUME TypeInv, LifeInv, handle_create_client
    PROVE  LifeInv' /\ body' = <<>>
<1>0. PICK s \in Sessions : s = cur.idx
  BY ThreadTypes
<1>. DEFINE m == Head(body)
            n == Bumped(FreshSession(m), STREAM_NONE)
<1>t. /\ key[s] \in Nat /\ sessions[s].key \in Nat /\ body \in Seq(Submessage)
      /\ sessions \in [Sessions -> SessionState]
      /\ cur \in [idx : Sessions, sid : SessionIds, stream : StreamIds, key : Keys]
  BY LifeTypes, ThreadTypes DEF TypeInv, TypeOK
<1>1. /\ bpc = "sub" /\ body # <<>> /\ m.sub = "CREATE_CLIENT" /\ body' = Tail(body)
      /\ sessions' = [sessions EXCEPT ![s] = n]
      /\ cur' = [cur EXCEPT !.sid = m.sid, !.key = m.key]
      /\ bpc' = "send" /\ out'.to = s
      /\ UNCHANGED <<rmw_to_broker, cst, key, broker_quiet>>
  BY <1>0 DEF handle_create_client, Handling, Send, Consumed, HandlerKeeps, transportVars,
              clientVars
<1>2. PICK c \in Nat : body = <<Join(c)>> /\ sessions[s].key <= c /\ c <= key[s]
  <2>1. Has(body, "CREATE_CLIENT")
    BY <1>t, <1>1, TailItems DEF Has
  <2>. QED  BY <1>0, <2>1 DEF LifeInv, HandInv
<1>3. m = Join(c) /\ body' = <<>>
  BY <1>1, <1>2
<1>4. n.key = c /\ n.active
  BY <1>3 DEF Bumped, FreshSession, NoSession, Join
<1>. HIDE DEF m, n
<1>5. sessions'[s] = n /\ cur'.idx = s /\ \A r \in Sessions : r # s => sessions'[r] = sessions[r]
  BY <1>t, <1>0, <1>1
<1>6. ASSUME NEW r \in Sessions, r # s PROVE Life(r)'
  <2>1. ~HandNext(r)
    BY <1>0, <1>6 DEF HandNext
  <2>. QED  BY <1>1, <1>5, <1>6, <2>1, LifeFrame DEF LifeInv
<1>7. Life(s)'
  <2>v. Life(s)
    BY DEF LifeInv
  <2>1. JoinsNext(s) => c = key[s] \/ JoinsNext(s)'
    <3>1. body = <<Join(key[s])>> => c = key[s]
      BY <1>2 DEF Join
    <3>. QED  BY <1>1, <3>1 DEF JoinsNext
  <2>2. SessionInv(s)'
    BY <1>t, <1>1, <1>2, <1>4, <1>5, <2>v, <2>1 DEF Life, SessionInv
  <2>. QED  BY <1>1, <2>v, <2>2 DEF Life, QueuedInv
<1>8. HandInv' /\ AgentInv'
  BY <1>1, <1>3, <1>5 DEF HandInv, AgentInv, Has
<1>. QED  BY <1>3, <1>6, <1>7, <1>8 DEF LifeInv

\* Every step keeps the lives of the clients apart.
LEMMA LifeStep ==
    ASSUME ProperClients, TypeInv, LifeInv, [Next]_vars
    PROVE  LifeInv'
<1>1. CASE UNCHANGED vars
  BY <1>1, LifeLoop DEF vars, transportVars, clientVars, threadVars
<1>2. CASE \E s \in Sessions : ClientStep(s)
  BY <1>2, LifeWrites, LifeRead, LifeOpens, LifeOpened DEF ClientStep
<1>3. CASE \/ broker_quiesce \/ BrokerPoll \/ MessageDone \/ BrokerSend
           \/ \E s \in Sessions : BrokerMiss(s)
  <2>1. /\ UNCHANGED <<rmw_to_broker, cst, key, cur, sessions, body>>
        /\ broker_quiet => broker_quiet'
        /\ (bpc = "sub" => bpc' = "sub") \/ body = <<>>
        /\ bpc' = "send" => bpc = "send" /\ out' = out
    BY <1>3 DEF broker_quiesce, BrokerPoll, MessageDone, BrokerMiss, BrokerSend, SendReturns,
                AfterSend, staticVars, clientVars, transportVars, threadVars
  <2>. QED  BY <2>1, LifeLoop
<1>4. CASE SkipSubmessage \/ handle_write_data \/ EmitDone \/ NoSubscriber
  <2>1. /\ UNCHANGED <<rmw_to_broker, cst, key, cur, sessions, broker_quiet>> /\ bpc' # "send"
        /\ \/ bpc # "sub" /\ body' = body
           \/ body # <<>> /\ Head(body).sub # "CREATE_CLIENT" /\ body' = Tail(body)
    BY <1>4 DEF SkipSubmessage, handle_write_data, EmitDone, NoSubscriber, Handling, Consumed,
                HandlerKeeps, transportVars, clientVars
  <2>2. body # <<>> => Tail(body) # body
    BY TailItems, ThreadTypes
  <2>. QED  BY <2>1, <2>2, LifeLoop
<1>5. CASE \/ handle_create \/ handle_get_info \/ handle_delete \/ handle_heartbeat
           \/ send_data
  <2>1. /\ UNCHANGED <<rmw_to_broker, cst, key, cur, broker_quiet>>
        /\ out'.msg.sub # "STATUS_AGENT"
        /\ \/ bpc # "sub" /\ body' = body
           \/ body # <<>> /\ Head(body).sub # "CREATE_CLIENT" /\ body' = Tail(body)
    BY <1>5 DEF handle_create, handle_get_info, handle_delete, handle_heartbeat, send_data,
                send_status, send_info, Send, AckNack, Handling, Consumed, HandlerKeeps,
                transportVars, clientVars
  <2>2. body # <<>> => Tail(body) # body
    BY TailItems, ThreadTypes
  <2>3. \/ UNCHANGED sessions
        \/ \E t \in Sessions, stream \in StreamIds : sessions' = [sessions EXCEPT ![t] = Bumped(@, stream)]
    <3>1. CASE handle_create \/ handle_get_info \/ handle_delete
      <4>1. cur.idx \in Sessions /\ StatusStream \in StreamIds /\ STREAM_NONE \in StreamIds
        BY ThreadTypes, ConstantTypes DEF StatusStream, TypeInv, TypeOK
      <4>. QED  BY <3>1, <4>1 DEF handle_create, handle_get_info, handle_delete, send_status, send_info
    <3>2. CASE send_data
      <4>. DEFINE i == Lowest(fan.todo)
      <4>1. i \in fan.todo
        <5>1. fan.todo # {} /\ fan.todo \in SUBSET Nat
          BY <3>2 DEF TypeInv, TypeOK, send_data
        <5>. QED  BY <5>1, LowestInSet
      <4>. HIDE DEF i
      <4>2. datareaders[i].session \in Sessions
        BY <4>1 DEF TypeInv, TypeOK, FanOK, ReaderEnt
      <4>3. sessions' = [sessions EXCEPT ![datareaders[i].session] = Bumped(@, STREAM_THRESH_REL)]
        BY <3>2 DEF send_data, i
      <4>. QED  BY <4>2, <4>3, ConstantTypes
    <3>3. CASE handle_heartbeat
      BY <3>3 DEF handle_heartbeat
    <3>. QED  BY <1>5, <3>1, <3>2, <3>3
  <2>4. ASSUME NEW s \in Sessions
        PROVE  sessions'[s].key = sessions[s].key /\ sessions'[s].active = sessions[s].active
    BY <2>3, BumpKeeps
  <2>. QED  BY <2>1, <2>2, <2>4, LifeLoop
<1>. QED
  BY <1>1, <1>2, <1>3, <1>4, <1>5, LifeTake, LifeCreateClient DEF Next, BrokerStep

\* Whatever the session id, and however often loopback_open purges the queues under the
\* broker's hands: while a client believes in its session, the broker has the session of
\* this life of the client, or makes it before it handles any of the client's requests.
THEOREM LivesKeptApart == ProperClients => (Spec => []LivesApart)
<1>. SUFFICES ASSUME ProperClients PROVE Spec => []LivesApart
  OBVIOUS
<1>1. Init => LifeInv
  BY LifeInit
<1>2. TypeInv /\ LifeInv /\ [Next]_vars => LifeInv'
  BY LifeStep
<1>3. Spec => []TypeInv
  BY TypeCorrect DEF TypeInv
<1>4. LifeInv => LivesApart
  BY DEF LifeInv, Life, SessionInv, LivesApart
<1>. QED  BY <1>1, <1>2, <1>3, <1>4, PTL DEF Spec

-----------------------------------------------------------------------------
(* Acknowledgements.  A number the broker has to acknowledge travels from    *)
(* the client's queue to the message in hand and on to the client's replies; *)
(* along this way, read backwards, the numbers never fall.  Replies to an    *)
(* earlier life can be on the way, under headers that do not tell the lives  *)
(* apart; but they come before any STATUS_AGENT, and until that the client   *)
(* heeds no acknowledgement.                                                 *)

\* The client, now in state st, will heed the j-th reply of queue q.
Heeds(q, st, j) == st = "up" \/ \E i \in 1 .. j - 1 : q[i].sub = "STATUS_AGENT"
IsAck(q, st, j) == q[j].sub = "ACKNACK" /\ Heeds(q, st, j)
Leq(X, Y) == \A x \in X : \A y \in Y : x <= y

\* What the replies of a queue acknowledge to such a client, what the heartbeats
\* of a message ask for, and what a message will be acknowledged with.
Acks(q, st) == {q[i].first_unacked : i \in {j \in 1 .. Len(q) : IsAck(q, st, j)}}
Beats(subs) == {subs[i].last + 1 : i \in {j \in 1 .. Len(subs) : subs[j].sub = "HEARTBEAT"}}
Due(m) == Beats(m.body) \cup {n \in {m.hdr.seq + 1} : m.hdr.stream = STREAM_THRESH_REL}

AcksRise(q, st) == \A i, j \in 1 .. Len(q) : i < j /\ IsAck(q, st, i) /\ IsAck(q, st, j)
                      => q[i].first_unacked <= q[j].first_unacked

\* A client in state st has numbered up to n and has acknowledgements up to a; replies
\* f are on their way to it, hand is due for the message in hand, and q waits.
ChainOK(f, st, a, hand, q, n) ==
    /\ {a} \cup Acks(f, st) \cup hand \subseteq 0 .. n
    /\ \A i \in 1 .. Len(q) : Due(q[i]) \subseteq 0 .. n
    /\ AcksRise(f, st)
    /\ Leq({a}, Acks(f, st))
    /\ Leq({a} \cup Acks(f, st), hand) /\ Leq(hand, hand)
    /\ \A i \in 1 .. Len(q) : Leq({a} \cup Acks(f, st) \cup hand, Due(q[i]))
    /\ \A i, j \in 1 .. Len(q) : i <= j => Leq(Due(q[i]), Due(q[j]))

\* The next reply will be heeded.
Told(s) == Heeds(InFlight(s), cst[s], Len(InFlight(s)) + 1)
InHand(s) == {n \in Beats(body) : cur.idx = s /\ Told(s)}
CountInv(s) == cseq[s] <= nwrites[s] /\ acked[s] <= cseq[s]
ChainInv == \A s \in Sessions :
               /\ CountInv(s)
               /\ cst[s] \notin {"closed", "opening"} =>
                     ChainOK(InFlight(s), cst[s], acked[s], InHand(s), rmw_to_broker[s], cseq[s])

\* A reply more at the end of the way changes nothing for those before it.
LEMMA AckAppend ==
    ASSUME NEW f \in Seq(OutMsg), NEW st, NEW m \in OutMsg
    PROVE  /\ Len(Append(f, m)) = Len(f) + 1 /\ Len(f) \in Nat
           /\ \A j \in 1 .. Len(f) : /\ Append(f, m)[j] = f[j]
                                     /\ IsAck(Append(f, m), st, j) <=> IsAck(f, st, j)
           /\ Append(f, m)[Len(f) + 1] = m
           /\ IsAck(Append(f, m), st, Len(f) + 1) <=> m.sub = "ACKNACK" /\ Heeds(f, st, Len(f) + 1)
<1>. DEFINE g == Append(f, m)
<1>1. /\ Len(g) = Len(f) + 1 /\ g[Len(f) + 1] = m /\ Len(f) \in Nat
      /\ \A i \in 1 .. Len(f) : g[i] = f[i]
  BY AppendItems
<1>. HIDE DEF g
<1>2. ASSUME NEW j \in 1 .. Len(f) + 1 PROVE Heeds(g, st, j) <=> Heeds(f, st, j)
  <2>1. \A i \in 1 .. j - 1 : i \in 1 .. Len(f)
    BY <1>1
  <2>. QED  BY <1>1, <2>1 DEF Heeds
<1>3. /\ \A j \in 1 .. Len(f) : IsAck(g, st, j) <=> IsAck(f, st, j)
      /\ IsAck(g, st, Len(f) + 1) <=> m.sub = "ACKNACK" /\ Heeds(f, st, Len(f) + 1)
  <2>1. Len(f) + 1 \in 1 .. Len(f) + 1 /\ \A j \in 1 .. Len(f) : j \in 1 .. Len(f) + 1
    BY <1>1
  <2>. QED  BY <1>1, <1>2, <2>1 DEF IsAck
<1>. QED  BY <1>1, <1>3 DEF g

\* A reply less at its beginning: the client heeds no more of the others, unless
\* the reply was the STATUS_AGENT that brings it up.
LEMMA AckTail ==
    ASSUME NEW f \in Seq(OutMsg), f # <<>>, NEW st, NEW st1,
           st1 = "up" => st = "up" \/ Head(f).sub = "STATUS_AGENT"
    PROVE  /\ 1 \in 1 .. Len(f) /\ Head(f) = f[1] /\ Len(Tail(f)) = Len(f) - 1 /\ Len(f) \in Nat
           /\ \A j \in 1 .. Len(Tail(f)) : /\ j + 1 \in 1 .. Len(f) /\ Tail(f)[j] = f[j + 1]
                                           /\ IsAck(Tail(f), st1, j) => IsAck(f, st, j + 1)
           /\ Heeds(Tail(f), st1, Len(Tail(f)) + 1) => Heeds(f, st, Len(f) + 1)
<1>1. /\ 1 \in 1 .. Len(f) /\ Head(f) = f[1] /\ Len(Tail(f)) = Len(f) - 1 /\ Len(f) \in Nat
      /\ \A i \in 1 .. Len(Tail(f)) : i + 1 \in 1 .. Len(f) /\ Tail(f)[i] = f[i + 1]
  BY TailItems
<1>2. ASSUME NEW j \in 1 .. Len(f), Heeds(Tail(f), st1, j) PROVE Heeds(f, st, j + 1)
  <2>1. CASE st1 = "up"
    <3>1. 1 \in 1 .. (j + 1) - 1
      BY <1>1
    <3>. QED  BY <1>1, <2>1, <3>1 DEF Heeds
  <2>2. CASE \E i \in 1 .. j - 1 : Tail(f)[i].sub = "STATUS_AGENT"
    <3>1. PICK i \in 1 .. j - 1 : Tail(f)[i].sub = "STATUS_AGENT"
      BY <2>2
    <3>2. i \in 1 .. Len(Tail(f)) /\ i + 1 \in 1 .. (j + 1) - 1
      BY <1>1
    <3>3. f[i + 1].sub = "STATUS_AGENT"
      BY <1>1, <3>1, <3>2
    <3>. QED  BY <3>2, <3>3 DEF Heeds
  <2>. QED  BY <1>2, <2>1, <2>2 DEF Heeds
<1>3. ASSUME NEW j \in 1 .. Len(Tail(f)), IsAck(Tail(f), st1, j) PROVE IsAck(f, st, j + 1)
  <2>1. j \in 1 .. Len(f)
    BY <1>1
  <2>. QED  BY <1>1, <1>2, <1>3, <2>1 DEF IsAck
<1>4. Heeds(Tail(f), st1, Len(Tail(f)) + 1) => Heeds(f, st, Len(f) + 1)
  <2>1. Len(Tail(f)) + 1 = Len(f) /\ Len(f) \in 1 .. Len(f)
    BY <1>1
  <2>. QED  BY <1>2, <2>1
<1>. QED  BY <1>1, <1>3, <1>4

\* Less may be in hand.
LEMMA ChainDrops ==
    ASSUME NEW f, NEW st, NEW a, NEW hand, NEW q, NEW n, ChainOK(f, st, a, hand, q, n),
           NEW less \in SUBSET hand
    PROVE  ChainOK(f, st, a, less, q, n)
BY DEF ChainOK, Leq

\* A client that is not up heeds no more than one that is.
LEMMA ChainState ==
    ASSUME NEW f, NEW st, NEW a, NEW hand, NEW q, NEW n, ChainOK(f, st, a, hand, q, n),
           NEW st1, st1 = "up" => st = "up"
    PROVE  ChainOK(f, st1, a, hand, q, n)
<1>1. \A j : IsAck(f, st1, j) => IsAck(f, st, j)
  BY DEF IsAck, Heeds
<1>2. Acks(f, st1) \subseteq Acks(f, st)
  BY <1>1 DEF Acks
<1>3. AcksRise(f, st) => AcksRise(f, st1)
  BY <1>1 DEF AcksRise
<1>. QED  BY <1>2, <1>3 DEF ChainOK, Leq

\* The oldest message is taken in hand.
LEMMA ChainTakes ==
    ASSUME NEW M, NEW f, NEW st, NEW a, NEW hand, NEW q \in Seq(M), q # <<>>, NEW n,
           ChainOK(f, st, a, hand, q, n)
    PROVE  ChainOK(f, st, a, Due(Head(q)), Tail(q), n) /\ ChainOK(f, st, a, hand, Tail(q), n)
<1>1. /\ 1 \in 1 .. Len(q) /\ Head(q) = q[1] /\ Len(q) \in Nat
      /\ \A i \in 1 .. Len(Tail(q)) : i + 1 \in 1 .. Len(q) /\ Tail(q)[i] = q[i + 1]
  BY TailItems
<1>2. Leq({a} \cup Acks(f, st) \cup hand, Due(Head(q))) /\ Leq(Due(Head(q)), Due(Head(q)))
  <2>1. Leq({a} \cup Acks(f, st) \cup hand, Due(q[1])) /\ (1 <= 1 => Leq(Due(q[1]), Due(q[1])))
    BY <1>1 DEF ChainOK
  <2>. QED  BY <1>1, <2>1
<1>3. ASSUME NEW i \in 1 .. Len(Tail(q))
      PROVE  /\ Leq({a} \cup Acks(f, st) \cup hand, Due(Tail(q)[i]))
             /\ Leq(Due(Head(q)), Due(Tail(q)[i]))
             /\ Due(Tail(q)[i]) \subseteq 0 .. n
  <2>1. i + 1 \in 1 .. Len(q) /\ Tail(q)[i] = q[i + 1] /\ 1 <= i + 1
    BY <1>1
  <2>2. /\ Leq(Due(q[1]), Due(q[i + 1])) /\ Leq({a} \cup Acks(f, st) \cup hand, Due(q[i + 1]))
        /\ Due(q[i + 1]) \subseteq 0 .. n
    BY <1>1, <2>1 DEF ChainOK
  <2>. QED  BY <1>1, <2>1, <2>2
<1>4. ASSUME NEW i \in 1 .. Len(Tail(q)), NEW j \in 1 .. Len(Tail(q)), i <= j
      PROVE  Leq(Due(Tail(q)[i]), Due(Tail(q)[j]))
  <2>1. /\ i + 1 \in 1 .. Len(q) /\ Tail(q)[i] = q[i + 1]
        /\ j + 1 \in 1 .. Len(q) /\ Tail(q)[j] = q[j + 1] /\ i + 1 <= j + 1
    BY <1>1, <1>4
  <2>. QED  BY <2>1 DEF ChainOK
<1>5. Due(Head(q)) \subseteq 0 .. n
  BY <1>1 DEF ChainOK
<1>. HIDE DEF Due
<1>. QED  BY <1>2, <1>3, <1>4, <1>5 DEF ChainOK, Leq

\* A reply is made: if it acknowledges anything, then what was due.
LEMMA ChainReplies ==
    ASSUME NEW f \in Seq(OutMsg), NEW st, NEW a, NEW hand, NEW q, NEW n,
           ChainOK(f, st, a, hand, q, n), NEW m \in OutMsg,
           m.sub = "ACKNACK" /\ Heeds(f, st, Len(f) + 1) => m.first_unacked \in hand
    PROVE  ChainOK(Append(f, m), st, a, hand, q, n)
<1>. DEFINE g == Append(f, m)
<1>1. /\ Len(g) = Len(f) + 1 /\ Len(f) \in Nat /\ g[Len(f) + 1] = m
      /\ \A j \in 1 .. Len(f) : g[j] = f[j] /\ (IsAck(g, st, j) <=> IsAck(f, st, j))
      /\ IsAck(g, st, Len(f) + 1) => m.first_unacked \in hand
  BY AckAppend
<1>. HIDE DEF g
<1>0. \A i \in 1 .. Len(g) : i \in 1 .. Len(f) \/ i = Len(f) + 1
  BY <1>1
<1>2. Acks(g, st) \subseteq Acks(f, st) \cup hand
  BY <1>0, <1>1 DEF Acks
<1>3. \A i \in 1 .. Len(f) : IsAck(f, st, i) => f[i].first_unacked \in Acks(f, st)
  BY DEF Acks
<1>4. AcksRise(g, st)
  <2>. SUFFICES ASSUME NEW i \in 1 .. Len(g), NEW j \in 1 .. Len(g), i < j,
                       IsAck(g, st, i), IsAck(g, st, j)
                PROVE  g[i].first_unacked <= g[j].first_unacked
    BY DEF AcksRise
  <2>1. i \in 1 .. Len(f) /\ g[i] = f[i] /\ IsAck(f, st, i)
    BY <1>1
  <2>2. CASE j \in 1 .. Len(f)
    BY <1>1, <2>1, <2>2 DEF ChainOK, AcksRise
  <2>3. CASE j = Len(f) + 1
    <3>1. g[j].first_unacked \in hand /\ g[i].first_unacked \in Acks(f, st)
      BY <1>1, <1>3, <2>1, <2>3
    <3>. QED  BY <3>1 DEF ChainOK, Leq
  <2>. QED  BY <1>0, <2>2, <2>3
<1>5. Leq({a}, Acks(g, st)) /\ Leq({a} \cup Acks(g, st), hand)
  BY <1>2 DEF ChainOK, Leq
<1>6. ASSUME NEW i \in 1 .. Len(q) PROVE Leq({a} \cup Acks(g, st) \cup hand, Due(q[i]))
  BY <1>2 DEF ChainOK, Leq
<1>7. {a} \cup Acks(g, st) \cup hand \subseteq 0 .. n
  BY <1>2 DEF ChainOK
<1>. QED  BY <1>4, <1>5, <1>6, <1>7 DEF ChainOK, g

\* The last reply is lost.
LEMMA ChainLoses ==
    ASSUME NEW f \in Seq(OutMsg), NEW st, NEW a, NEW hand, NEW q, NEW n, NEW m \in OutMsg,
           ChainOK(Append(f, m), st, a, hand, q, n)
    PROVE  ChainOK(f, st, a, hand, q, n)
<1>. DEFINE g == Append(f, m)
<1>1. /\ Len(g) = Len(f) + 1 /\ Len(f) \in Nat
      /\ \A j \in 1 .. Len(f) : g[j] = f[j] /\ (IsAck(g, st, j) <=> IsAck(f, st, j))
  BY AckAppend
<1>. HIDE DEF g
<1>0. \A i \in 1 .. Len(f) : i \in 1 .. Len(g)
  BY <1>1
<1>2. Acks(f, st) \subseteq Acks(g, st)
  BY <1>0, <1>1 DEF Acks
<1>3. AcksRise(g, st) => AcksRise(f, st)
  BY <1>0, <1>1 DEF AcksRise
<1>4. ChainOK(g, st, a, hand, q, n)
  BY DEF g
<1>. QED  BY <1>2, <1>3, <1>4 DEF ChainOK, Leq

\* The client reads the oldest reply, and heeds it or not.
LEMMA ChainReads ==
    ASSUME NEW f \in Seq(OutMsg), f # <<>>, NEW st, NEW a, NEW hand, NEW q, NEW n \in Nat,
           ChainOK(f, st, a, hand, q, n), NEW b,
           b = a \/ (st = "up" /\ Head(f).sub = "ACKNACK" /\ b = Head(f).first_unacked),
           NEW st1, st1 = "up" => st = "up" \/ Head(f).sub = "STATUS_AGENT"
    PROVE  ChainOK(Tail(f), st1, b, hand, q, n) /\ a <= b /\ b <= n
<1>1. /\ 1 \in 1 .. Len(f) /\ Head(f) = f[1] /\ Len(f) \in Nat
      /\ \A j \in 1 .. Len(Tail(f)) : /\ j + 1 \in 1 .. Len(f) /\ Tail(f)[j] = f[j + 1]
                                      /\ IsAck(Tail(f), st1, j) => IsAck(f, st, j + 1)
  BY AckTail
<1>2. Acks(Tail(f), st1) \subseteq Acks(f, st)
  BY <1>1 DEF Acks
<1>3. AcksRise(Tail(f), st1)
  <2>. SUFFICES ASSUME NEW i \in 1 .. Len(Tail(f)), NEW j \in 1 .. Len(Tail(f)), i < j,
                       IsAck(Tail(f), st1, i), IsAck(Tail(f), st1, j)
                PROVE  Tail(f)[i].first_unacked <= Tail(f)[j].first_unacked
    BY DEF AcksRise
  <2>1. /\ i + 1 \in 1 .. Len(f) /\ Tail(f)[i] = f[i + 1] /\ IsAck(f, st, i + 1)
        /\ j + 1 \in 1 .. Len(f) /\ Tail(f)[j] = f[j + 1] /\ IsAck(f, st, j + 1)
        /\ i + 1 < j + 1
    BY <1>1
  <2>. QED  BY <2>1 DEF ChainOK, AcksRise
<1>a. b # a => IsAck(f, st, 1) /\ b = f[1].first_unacked
  BY <1>1 DEF IsAck, Heeds
<1>4. b = a \/ b \in Acks(f, st)
  BY <1>1, <1>a DEF Acks
<1>5. Leq({b}, Acks(Tail(f), st1))
  <2>1. CASE b = a
    BY <1>2, <2>1 DEF ChainOK, Leq
  <2>2. CASE b # a
    <3>1. ASSUME NEW j \in 1 .. Len(Tail(f)), IsAck(Tail(f), st1, j)
          PROVE  b <= Tail(f)[j].first_unacked
      <4>1. j + 1 \in 1 .. Len(f) /\ Tail(f)[j] = f[j + 1] /\ 1 < j + 1 /\ IsAck(f, st, j + 1)
        BY <1>1, <3>1
      <4>. QED  BY <1>1, <1>a, <2>2, <4>1 DEF ChainOK, AcksRise
    <3>. QED  BY <3>1 DEF Acks, Leq
  <2>. QED  BY <2>1, <2>2
<1>6. Leq({b} \cup Acks(Tail(f), st1), hand)
  BY <1>2, <1>4 DEF ChainOK, Leq
<1>7. ASSUME NEW i \in 1 .. Len(q) PROVE Leq({b} \cup Acks(Tail(f), st1) \cup hand, Due(q[i]))
  BY <1>2, <1>4 DEF ChainOK, Leq
<1>8. {b} \cup Acks(Tail(f), st1) \cup hand \subseteq 0 .. n
  BY <1>2, <1>4 DEF ChainOK
<1>9. a <= b /\ b <= n
  <2>1. a \in 0 .. n /\ b \in 0 .. n /\ (b \in Acks(f, st) => a <= b)
    BY <1>8 DEF ChainOK, Leq
  <2>. QED  BY <1>4, <2>1
<1>. QED  BY <1>3, <1>5, <1>6, <1>7, <1>8, <1>9 DEF ChainOK

\* The client writes, or fails to write, a message that asks for no less than what it
\* has numbered.
LEMMA ChainWrites ==
    ASSUME NEW f, NEW st, NEW a, NEW hand, NEW q \in Seq(InMsg), NEW n \in Nat, NEW n1 \in Nat,
           ChainOK(f, st, a, hand, q, n), n <= n1, NEW m \in InMsg, Due(m) \subseteq {n1}
    PROVE  ChainOK(f, st, a, hand, Append(q, m), n1) /\ ChainOK(f, st, a, hand, q, n1)
<1>. DEFINE p == Append(q, m)
<1>1. /\ Len(p) = Len(q) + 1 /\ p[Len(q) + 1] = m
      /\ \A i \in 1 .. Len(q) : p[i] = q[i]
      /\ \A i \in 1 .. Len(p) : i \in 1 .. Len(q) \/ i = Len(q) + 1
      /\ Len(q) \in Nat
  BY AppendItems
<1>. HIDE DEF p
<1>0. \A x \in 0 .. n : x \in 0 .. n1 /\ x <= n1
  OBVIOUS
<1>b. /\ {a} \cup Acks(f, st) \cup hand \subseteq 0 .. n1
      /\ \A i \in 1 .. Len(q) : Due(q[i]) \subseteq 0 .. n1
  BY <1>0 DEF ChainOK
<1>d. Due(m) \subseteq 0 .. n1 /\ Leq(0 .. n1, Due(m))
  BY DEF Leq
<1>2. ASSUME NEW i \in 1 .. Len(p)
      PROVE  Leq({a} \cup Acks(f, st) \cup hand, Due(p[i])) /\ Due(p[i]) \subseteq 0 .. n1
  <2>1. CASE i \in 1 .. Len(q)
    BY <1>1, <1>b, <2>1 DEF ChainOK
  <2>2. CASE i = Len(q) + 1
    <3>1. p[i] = m
      BY <1>1, <2>2
    <3>. QED  BY <1>b, <1>d, <3>1 DEF Leq
  <2>. QED  BY <1>1, <2>1, <2>2
<1>3. ASSUME NEW i \in 1 .. Len(p), NEW j \in 1 .. Len(p), i <= j
      PROVE  Leq(Due(p[i]), Due(p[j]))
  <2>1. CASE j \in 1 .. Len(q)
    <3>1. i \in 1 .. Len(q)
      BY <1>1, <1>3, <2>1
    <3>. QED  BY <1>1, <1>3, <2>1, <3>1 DEF ChainOK
  <2>2. CASE j = Len(q) + 1
    <3>1. p[j] = m /\ Due(p[i]) \subseteq 0 .. n1
      BY <1>1, <1>2, <2>2
    <3>. QED  BY <1>d, <3>1 DEF Leq
  <2>. QED  BY <1>1, <2>1, <2>2
<1>. QED  BY <1>b, <1>2, <1>3 DEF ChainOK, p

\* loopback_write of a message that asks for all the client has numbered.
LEMMA ChainSends ==
    ASSUME TypeInv, ChainInv, NoWrap, NEW s \in Sessions, cst[s] \notin {"closed", "opening"},
           NEW sid \in SessionIds, NEW stream \in StreamIds, NEW subs \in Seq(Submessage),
           Beats(subs) \subseteq {cseq[s]}, stream = STREAM_THRESH_REL => Beats(subs) = {},
           NEW st, cst' = [cst EXCEPT ![s] = st], st = "up" => cst[s] = "up",
           ClientSends(s, sid, stream, subs)
    PROVE  ChainInv'
<1>. DEFINE h == put_msg_header(sid, stream, IF stream = STREAM_THRESH_REL THEN cseq[s] ELSE 0, key[s])
            m == [hdr |-> h, body |-> subs]
            q == rmw_to_broker[s]
<1>t. /\ key[s] \in Nat /\ cseq[s] \in Nat /\ acked[s] \in Nat /\ nwrites[s] \in Nat
      /\ q \in Seq(InMsg) /\ cseq[s] \in SeqNums /\ cst \in [Sessions -> ClientStates]
      /\ rmw_to_broker \in [Sessions -> Seq(InMsg)]
      /\ cseq \in [Sessions -> SeqNums] /\ nwrites \in [Sessions -> Nat]
  BY LifeTypes DEF TypeInv, TypeOK
<1>1. /\ WriteQueued(s, m) \/ WriteDropped(s)
      /\ nwrites[s] < MaxWrites[s] /\ nwrites' = [nwrites EXCEPT ![s] = @ + 1]
      /\ cseq' = IF stream = STREAM_THRESH_REL THEN [cseq EXCEPT ![s] = Inc(@)] ELSE cseq
      /\ UNCHANGED <<broker_to_rmw, acked, bpc, cur, body, out>>
  BY DEF ClientSends, brokerVars, threadVars
<1>2. m \in InMsg
  <2>1. h \in Header
    BY <1>t, HeaderType, ConstantTypes DEF Keys
  <2>. QED  BY <2>1 DEF InMsg
<1>c. CountInv(s)
  BY DEF ChainInv
<1>3. /\ nwrites'[s] = nwrites[s] + 1
      /\ cseq'[s] = IF stream = STREAM_THRESH_REL THEN cseq[s] + 1 ELSE cseq[s]
  <2>1. cseq[s] + 1 < SeqMod
    <3>1. MaxWrites[s] \in Nat /\ SeqMod \in Nat /\ MaxWrites[s] < SeqMod /\ cseq[s] <= nwrites[s]
      BY <1>c, BrokerAssumption DEF NoWrap, CountInv
    <3>. QED  BY <1>t, <1>1, <3>1
  <2>2. Inc(cseq[s]) = cseq[s] + 1
    BY <1>t, <2>1, SmallNumbers
  <2>. QED  BY <1>t, <1>1, <2>2
<1>4. cseq'[s] \in Nat /\ cseq[s] <= cseq'[s] /\ CountInv(s)'
  BY <1>t, <1>1, <1>3, <1>c DEF CountInv
<1>5. Due(m) \subseteq {cseq'[s]}
  <2>1. h.stream = stream /\ h.seq = IF stream = STREAM_THRESH_REL THEN cseq[s] ELSE 0
    BY HeaderKey
  <2>. HIDE DEF h
  <2>. QED  BY <1>t, <1>3, <2>1 DEF Due
<1>. HIDE DEF m, h
<1>6. cst'[s] = st /\ \A r \in Sessions : r # s => /\ cst'[r] = cst[r] /\ cseq'[r] = cseq[r]
                                                   /\ nwrites'[r] = nwrites[r]
                                                   /\ rmw_to_broker'[r] = rmw_to_broker[r]
  BY <1>t, <1>1 DEF WriteQueued, WriteDropped
<1>7. ASSUME NEW r \in Sessions, r # s
      PROVE  /\ CountInv(r)'
             /\ cst'[r] \notin {"closed", "opening"} =>
                   ChainOK(InFlight(r)', cst'[r], acked'[r], InHand(r)', rmw_to_broker'[r], cseq'[r])
  <2>1. InFlight(r)' = InFlight(r) /\ InHand(r)' = InHand(r)
    BY <1>1, <1>6, <1>7 DEF InFlight, InHand, Told, Heeds
  <2>. QED  BY <1>1, <1>6, <1>7, <2>1 DEF ChainInv, CountInv
<1>8. ChainOK(InFlight(s)', cst'[s], acked'[s], InHand(s)', rmw_to_broker'[s], cseq'[s])
  <2>1. ChainOK(InFlight(s), cst[s], acked[s], InHand(s), q, cseq[s])
    BY DEF ChainInv
  <2>2. InFlight(s)' = InFlight(s) /\ InHand(s)' \in SUBSET InHand(s)
    BY <1>1, <1>6 DEF InFlight, InHand, Told, Heeds
  <2>3. rmw_to_broker'[s] \in {q, Append(q, m)}
    BY <1>t, <1>1 DEF WriteQueued, WriteDropped
  <2>4. ChainOK(InFlight(s), cst[s], acked[s], InHand(s), rmw_to_broker'[s], cseq'[s])
    <3>1. /\ ChainOK(InFlight(s), cst[s], acked[s], InHand(s), Append(q, m), cseq'[s])
          /\ ChainOK(InFlight(s), cst[s], acked[s], InHand(s), q, cseq'[s])
      BY <1>t, <1>2, <1>4, <1>5, <2>1, ChainWrites
    <3>. QED  BY <2>3, <3>1
  <2>5. ChainOK(InFlight(s), cst'[s], acked[s], InHand(s), rmw_to_broker'[s], cseq'[s])
    BY <1>6, <2>4, ChainState
  <2>. QED  BY <1>1, <2>2, <2>5, ChainDrops
<1>. QED  BY <1>4, <1>7, <1>8 DEF ChainInv

\* The messages of a client ask for all it has numbered, or for nothing.
LEMMA ChainClient ==
    ASSUME TypeInv, ChainInv, ProperClients, NoWrap, NEW s \in Sessions,
           \/ ClientCreatesSession(s) \/ ClientPings(s)
           \/ ClientRequests(s) \/ ClientHeartbeat(s)
    PROVE  ChainInv'
<1>t. /\ key[s] \in Nat /\ cseq[s] \in Nat /\ acked[s] \in Nat
      /\ cseq[s] \in SeqNums /\ acked[s] \in SeqNums /\ acked[s] <= cseq[s]
      /\ STREAM_NONE # STREAM_THRESH_REL /\ cst \in [Sessions -> ClientStates]
  BY LifeTypes DEF ChainInv, CountInv, STREAM_NONE, STREAM_THRESH_REL, TypeInv, TypeOK
<1>1. ASSUME NEW sid \in SessionIds, NEW b \in Submessage, cst[s] \notin {"closed", "opening"},
             ClientSends(s, sid, STREAM_NONE, <<b>>),
             b.sub = "HEARTBEAT" => b.last + 1 = cseq[s],
             NEW st, cst' = [cst EXCEPT ![s] = st], st = "up" => cst[s] = "up"
      PROVE  ChainInv'
  <2>. DEFINE subs == <<b>>
  <2>1. subs \in Seq(Submessage) /\ Len(subs) = 1 /\ subs[1] = b
    BY <1>1
  <2>. HIDE DEF subs
  <2>2. Beats(subs) \subseteq {cseq[s]}
    BY <1>1, <2>1 DEF Beats
  <2>3. ClientSends(s, sid, STREAM_NONE, subs)
    BY <1>1 DEF subs
  <2>. QED  BY <1>t, <1>1, <2>1, <2>2, <2>3, ChainSends, ConstantTypes
<1>2. CASE ClientCreatesSession(s)
  <2>1. Join(key[s]) \in Submessage /\ Join(key[s]).sub # "HEARTBEAT"
    BY <1>t, ConstantTypes DEF Submessage, Join, Keys
  <2>2. /\ ClientSends(s, MaskedSid, STREAM_NONE, <<Join(key[s])>>)
        /\ cst[s] \in {"opened", "joining"} /\ cst' = [cst EXCEPT ![s] = "joining"]
    BY <1>2 DEF ClientCreatesSession
  <2>. QED  BY <1>1, <2>1, <2>2, ConstantTypes
<1>3. CASE ClientPings(s)
  <2>1. PICK id \in OtherIds :
          ClientSends(s, SESSION_NO_KEY, STREAM_NONE, <<[sub |-> "GET_INFO", id |-> id]>>)
    BY <1>3 DEF ClientPings
  <2>2. [sub |-> "GET_INFO", id |-> id] \in Submessage
    BY DEF Submessage, ObjectIds
  <2>3. /\ cst[s] \in {"opened", "pinging", "joining", "up"}
        /\ cst' = [cst EXCEPT ![s] = IF cst[s] = "opened" THEN "pinging" ELSE cst[s]]
    BY <1>t, <1>3 DEF ClientPings
  <2>. QED  BY <1>1, <2>1, <2>2, <2>3, ConstantTypes
<1>4. CASE ClientRequests(s)
  <2>1. PICK b \in ClientBody[s] : ClientSends(s, RealSid, b.stream, b.body)
    BY <1>4 DEF ClientRequests
  <2>2. b.stream \in StreamIds /\ b.body \in Seq(Submessage)
    BY ClientBodyAssumption
  <2>3. \A i \in 1 .. Len(b.body) : b.body[i].sub # "HEARTBEAT"
    BY <2>2 DEF ProperClients, Asked
  <2>4. Beats(b.body) = {}
    BY <2>3 DEF Beats
  <2>5. cst[s] = "up" /\ cst' = [cst EXCEPT ![s] = "up"]
    BY <1>t, <1>4 DEF ClientRequests
  <2>. QED  BY <2>1, <2>2, <2>4, <2>5, ChainSends, ConstantTypes
<1>5. CASE ClientHeartbeat(s)
  <2>. DEFINE last == (cseq[s] + SeqMod - 1) % SeqMod
              b == [sub |-> "HEARTBEAT", last |-> last]
  <2>1. Unacked(s) > 0 /\ ClientSends(s, RealSid, STREAM_NONE, <<b>>)
    BY <1>5 DEF ClientHeartbeat
  <2>2. cseq[s] - acked[s] > 0
    BY <1>t, <2>1, UnackedCount DEF Unacked
  <2>3. last + 1 = cseq[s] /\ last \in SeqNums
    <3>1. 0 < cseq[s] /\ cseq[s] < SeqMod
      BY <1>t, <2>2, BrokerAssumption DEF SeqNums
    <3>2. last = cseq[s] - 1
      BY <1>t, <3>1, LastNumber
    <3>. HIDE DEF last
    <3>. QED  BY <1>t, <3>1, <3>2, BrokerAssumption DEF SeqNums
  <2>. HIDE DEF last
  <2>4. b \in Submessage /\ b.last = last
    BY <2>3 DEF Submessage
  <2>5. cst[s] = "up" /\ cst' = [cst EXCEPT ![s] = "up"]
    BY <1>t, <1>5 DEF ClientHeartbeat
  <2>. HIDE DEF b
  <2>. QED  BY <1>1, <2>1, <2>3, <2>4, <2>5, ConstantTypes
<1>. QED  BY <1>2, <1>3, <1>4, <1>5

\* Reading the oldest reply takes it off the way to the client.
LEMMA AppendTail ==
    ASSUME NEW M, NEW q \in Seq(M), q # <<>>, NEW m \in M
    PROVE  /\ Tail(Append(q, m)) = Append(Tail(q), m) /\ Head(Append(q, m)) = Head(q)
           /\ Append(q, m) # <<>> /\ Append(q, m) \in Seq(M)
OBVIOUS

\* The replies on the way are replies.
LEMMA InFlightType ==
    ASSUME TypeInv, NEW s \in Sessions
    PROVE  InFlight(s) \in Seq(OutMsg)
<1>0. broker_to_rmw[s] \in Seq(OutMsg) /\ (bpc = "send" => out.msg \in OutMsg)
  BY LifeTypes, ThreadTypes
<1>. QED  BY <1>0 DEF InFlight

\* loopback_read: the client's acknowledgements go on, never back.
LEMMA ChainRead ==
    ASSUME TypeInv, ChainInv, NEW s \in Sessions, ClientRead(s)
    PROVE  /\ ChainInv'
           /\ \A r \in Sessions : acked'[r] >= acked[r]
<1>. DEFINE q == broker_to_rmw[s]
            m == Head(q)
<1>t. /\ q \in Seq(OutMsg) /\ broker_to_rmw \in [Sessions -> Seq(OutMsg)]
      /\ acked \in [Sessions -> SeqNums] /\ cst \in [Sessions -> ClientStates]
      /\ (bpc = "send" => out.msg \in OutMsg)
      /\ \A r \in Sessions : cseq[r] \in Nat /\ acked[r] \in Nat /\ nwrites[r] \in Nat
  BY LifeTypes, ThreadTypes DEF TypeInv, TypeOK
<1>1. /\ q # <<>> /\ broker_to_rmw' = [broker_to_rmw EXCEPT ![s] = Tail(@)]
      /\ \/ acked' = acked
         \/ cst[s] = "up" /\ m.sub = "ACKNACK" /\ acked' = [acked EXCEPT ![s] = m.first_unacked]
      /\ \/ cst' = cst
         \/ cst[s] = "joining" /\ m.sub = "STATUS_AGENT" /\ cst' = [cst EXCEPT ![s] = "up"]
      /\ UNCHANGED <<rmw_to_broker, key, cseq, nwrites, bpc, cur, body, out>>
  BY DEF ClientRead, ReadReply, brokerVars, threadVars
<1>2. broker_to_rmw'[s] = Tail(q) /\ \A r \in Sessions : r # s => broker_to_rmw'[r] = broker_to_rmw[r]
  BY <1>t, <1>1
<1>3. InFlight(s)' = Tail(InFlight(s)) /\ Head(InFlight(s)) = m /\ InFlight(s) # <<>>
  <2>1. CASE bpc = "send" /\ out.to = s
    <3>1. InFlight(s) = Append(q, out.msg) /\ InFlight(s)' = Append(Tail(q), out.msg)
      BY <1>1, <1>2, <2>1 DEF InFlight
    <3>. QED  BY <1>t, <1>1, <2>1, <3>1, AppendTail
  <2>2. CASE ~(bpc = "send" /\ out.to = s)
    BY <1>1, <1>2, <2>2 DEF InFlight
  <2>. QED  BY <2>1, <2>2
<1>4. /\ acked'[s] = acked[s] \/ (cst[s] = "up" /\ m.sub = "ACKNACK" /\ acked'[s] = m.first_unacked)
      /\ cst'[s] = "up" => cst[s] = "up" \/ m.sub = "STATUS_AGENT"
      /\ cst'[s] \in {"closed", "opening"} <=> cst[s] \in {"closed", "opening"}
      /\ \A r \in Sessions : r # s => acked'[r] = acked[r] /\ cst'[r] = cst[r]
  BY <1>t, <1>1
<1>. HIDE DEF m
<1>5. ASSUME cst[s] \notin {"closed", "opening"}
      PROVE  /\ ChainOK(InFlight(s)', cst'[s], acked'[s], InHand(s)', rmw_to_broker[s], cseq[s])
             /\ acked[s] <= acked'[s] /\ acked'[s] <= cseq[s]
  <2>1. ChainOK(InFlight(s), cst[s], acked[s], InHand(s), rmw_to_broker[s], cseq[s])
    BY <1>5 DEF ChainInv
  <2>2. InFlight(s) \in Seq(OutMsg)
    BY InFlightType
  <2>3. /\ ChainOK(Tail(InFlight(s)), cst'[s], acked'[s], InHand(s), rmw_to_broker[s], cseq[s])
        /\ acked[s] <= acked'[s] /\ acked'[s] <= cseq[s]
    BY <1>t, <1>3, <1>4, <2>1, <2>2, ChainReads
  <2>4. Told(s)' => Told(s)
    BY <1>3, <1>4, <2>2, AckTail DEF Told
  <2>5. InHand(s)' \in SUBSET InHand(s)
    BY <1>1, <2>4 DEF InHand
  <2>. QED  BY <1>3, <2>3, <2>5, ChainDrops
<1>6. /\ acked[s] <= acked'[s] /\ CountInv(s)'
      /\ cst'[s] \notin {"closed", "opening"} =>
            ChainOK(InFlight(s)', cst'[s], acked'[s], InHand(s)', rmw_to_broker'[s], cseq'[s])
  <2>1. CountInv(s)
    BY DEF ChainInv
  <2>2. CASE cst[s] \in {"closed", "opening"}
    <3>1. acked'[s] = acked[s]
      BY <1>4, <2>2
    <3>. QED  BY <1>t, <1>1, <1>4, <2>1, <2>2, <3>1 DEF CountInv
  <2>3. CASE cst[s] \notin {"closed", "opening"}
    BY <1>1, <1>5, <2>1, <2>3 DEF CountInv
  <2>. QED  BY <2>2, <2>3
<1>7. ASSUME NEW r \in Sessions, r # s
      PROVE  /\ CountInv(r)'
             /\ cst'[r] \notin {"closed", "opening"} =>
                   ChainOK(InFlight(r)', cst'[r], acked'[r], InHand(r)', rmw_to_broker'[r], cseq'[r])
  <2>1. InFlight(r)' = InFlight(r) /\ InHand(r)' = InHand(r)
    BY <1>1, <1>2, <1>4, <1>7 DEF InFlight, InHand, Told, Heeds
  <2>. QED  BY <1>1, <1>4, <1>7, <2>1 DEF ChainInv, CountInv
<1>8. ASSUME NEW r \in Sessions PROVE acked'[r] >= acked[r]
  <2>1. CASE r = s
    BY <1>6, <2>1
  <2>2. CASE r # s
    BY <1>t, <1>4, <2>2
  <2>. QED  BY <2>1, <2>2
<1>. QED  BY <1>6, <1>7, <1>8 DEF ChainInv

\* loopback_open, first purge: until the second the client takes no replies.
LEMMA ChainOpens ==
    ASSUME TypeInv, ChainInv, NEW s \in Sessions, ClientOpens(s)
    PROVE  ChainInv'
<1>1. /\ rmw_to_broker' = [rmw_to_broker EXCEPT ![s] = <<>>]
      /\ cst' = [cst EXCEPT ![s] = "opening"]
      /\ rmw_to_broker \in [Sessions -> Seq(InMsg)] /\ cst \in [Sessions -> ClientStates]
      /\ UNCHANGED <<broker_to_rmw, cseq, acked, nwrites, bpc, cur, body, out>>
  BY DEF ClientOpens, OpenPurgeOutgoing, brokerVars, threadVars, TypeInv, TypeOK
<1>2. cst'[s] = "opening" /\ \A r \in Sessions : r # s => /\ cst'[r] = cst[r]
                                                         /\ rmw_to_broker'[r] = rmw_to_broker[r]
  BY <1>1
<1>3. ASSUME NEW r \in Sessions
      PROVE  /\ CountInv(r)'
             /\ cst'[r] \notin {"closed", "opening"} =>
                   ChainOK(InFlight(r)', cst'[r], acked'[r], InHand(r)', rmw_to_broker'[r], cseq'[r])
  <2>1. CountInv(r)'
    BY <1>1 DEF ChainInv, CountInv
  <2>2. ASSUME r # s PROVE InFlight(r)' = InFlight(r) /\ InHand(r)' = InHand(r)
    BY <1>1, <1>2, <2>2 DEF InFlight, InHand, Told, Heeds
  <2>. QED  BY <1>1, <1>2, <2>1, <2>2 DEF ChainInv
<1>. QED  BY <1>3 DEF ChainInv

\* loopback_open, second purge.  At most one reply is left on its way, whatever is in
\* hand is of an earlier life, and none of it will be heeded.
LEMMA ChainOpened ==
    ASSUME TypeInv, LifeInv, ChainInv, NEW s \in Sessions, ClientOpened(s)
    PROVE  ChainInv'
<1>t. /\ cst \in [Sessions -> ClientStates] /\ acked \in [Sessions -> SeqNums]
      /\ cseq \in [Sessions -> SeqNums] /\ broker_to_rmw \in [Sessions -> Seq(OutMsg)]
      /\ nwrites[s] \in Nat /\ (bpc = "send" => out.msg \in OutMsg)
  BY LifeTypes, ThreadTypes DEF TypeInv, TypeOK
<1>1. /\ cst[s] = "opening" /\ broker_to_rmw' = [broker_to_rmw EXCEPT ![s] = <<>>]
      /\ cst' = [cst EXCEPT ![s] = "opened"]
      /\ cseq' = [cseq EXCEPT ![s] = 0] /\ acked' = [acked EXCEPT ![s] = 0]
      /\ UNCHANGED <<rmw_to_broker, nwrites, cur, body>>
      /\ \/ UNCHANGED <<bpc, out>>
         \/ bpc = "send" /\ out.to = s /\ bpc' # "send"
  BY DEF ClientOpened, OpenPurgeIncoming, SendReturns, AfterSend
<1>2. /\ broker_to_rmw'[s] = <<>> /\ cseq'[s] = 0 /\ acked'[s] = 0 /\ cst'[s] = "opened"
      /\ \A r \in Sessions : r # s => /\ broker_to_rmw'[r] = broker_to_rmw[r]
                                      /\ cst'[r] = cst[r] /\ cseq'[r] = cseq[r] /\ acked'[r] = acked[r]
  BY <1>t, <1>1
<1>3. rmw_to_broker'[s] = <<>>
  BY <1>1 DEF LifeInv, Life, SessionInv
<1>4. \/ InFlight(s)' = <<>>
      \/ InFlight(s)' = <<out.msg>> /\ bpc = "send" /\ out.to = s
  BY <1>t, <1>1, <1>2 DEF InFlight
<1>5. /\ \A i \in 1 .. Len(InFlight(s)') : ~IsAck(InFlight(s)', cst'[s], i)
      /\ InHand(s)' = {}
  <2>1. CASE InFlight(s)' = <<>>
    <3>1. Len(<<>>) = 0
      OBVIOUS
    <3>2. ~Told(s)'
      BY <1>2, <2>1, <3>1 DEF Told, Heeds
    <3>. QED  BY <2>1, <3>1, <3>2 DEF InHand
  <2>2. CASE InFlight(s)' = <<out.msg>> /\ bpc = "send" /\ out.to = s
    <3>1. Len(<<out.msg>>) = 1 /\ <<out.msg>>[1] = out.msg
      OBVIOUS
    <3>2. \A i \in 1 .. Len(InFlight(s)') : ~IsAck(InFlight(s)', cst'[s], i)
      BY <1>2, <2>2, <3>1 DEF IsAck, Heeds
    <3>3. Told(s)' => body = <<>>
      BY <1>2, <2>2, <3>1 DEF Told, Heeds, LifeInv, AgentInv
    <3>4. Beats(<<>>) = {}
      BY DEF Beats
    <3>. QED  BY <1>1, <3>2, <3>3, <3>4 DEF InHand
  <2>. QED  BY <1>4, <2>1, <2>2
<1>6. ChainOK(InFlight(s)', cst'[s], acked'[s], InHand(s)', rmw_to_broker'[s], cseq'[s])
  <2>1. Acks(InFlight(s)', cst'[s]) = {} /\ AcksRise(InFlight(s)', cst'[s])
    BY <1>5 DEF Acks, AcksRise
  <2>. QED  BY <1>2, <1>3, <1>5, <2>1 DEF ChainOK, Leq
<1>7. CountInv(s)'
  BY <1>t, <1>1, <1>2 DEF CountInv
<1>8. ASSUME NEW r \in Sessions, r # s
      PROVE  /\ CountInv(r)'
             /\ cst'[r] \notin {"closed", "opening"} =>
                   ChainOK(InFlight(r)', cst'[r], acked'[r], InHand(r)', rmw_to_broker'[r], cseq'[r])
  <2>1. InFlight(r)' = InFlight(r) /\ InHand(r)' = InHand(r)
    BY <1>1, <1>2, <1>8 DEF InFlight, InHand, Told, Heeds
  <2>. QED  BY <1>1, <1>2, <1>8, <2>1 DEF ChainInv, CountInv
<1>. QED  BY <1>6, <1>7, <1>8 DEF ChainInv

\* Steps that touch neither the clients nor the queues, and make no reply.
LEMMA ChainQuiet ==
    ASSUME TypeInv, ChainInv,
           UNCHANGED <<rmw_to_broker, broker_to_rmw, cst, cseq, acked, nwrites, cur>>,
           body' = body \/ (body # <<>> /\ body' = Tail(body)),
           bpc' = "send" => bpc = "send" /\ out' = out
    PROVE  ChainInv'
<1>t. body \in Seq(Submessage) /\ \A r \in Sessions : broker_to_rmw[r] \in Seq(OutMsg)
  BY ThreadTypes DEF TypeInv, TypeOK
<1>1. Beats(body') \subseteq Beats(body)
  BY <1>t, TailItems DEF Beats
<1>2. ASSUME NEW r \in Sessions, cst'[r] \notin {"closed", "opening"}
      PROVE  ChainOK(InFlight(r)', cst'[r], acked'[r], InHand(r)', rmw_to_broker'[r], cseq'[r])
  <2>1. ChainOK(InFlight(r), cst[r], acked[r], InHand(r), rmw_to_broker[r], cseq[r])
    BY <1>2 DEF ChainInv
  <2>2. \/ InFlight(r)' = InFlight(r)
        \/ /\ bpc = "send" /\ InFlight(r) = Append(broker_to_rmw[r], out.msg)
           /\ InFlight(r)' = broker_to_rmw[r]
    BY DEF InFlight
  <2>3. ChainOK(InFlight(r)', cst[r], acked[r], InHand(r), rmw_to_broker[r], cseq[r])
    BY <1>t, <2>1, <2>2, ChainLoses, ThreadTypes
  <2>4. Told(r)' => Told(r)
    <3>1. CASE InFlight(r)' = InFlight(r)
      BY <3>1 DEF Told
    <3>2. CASE /\ bpc = "send" /\ InFlight(r) = Append(broker_to_rmw[r], out.msg)
               /\ InFlight(r)' = broker_to_rmw[r]
      <4>1. /\ Len(InFlight(r)) = Len(broker_to_rmw[r]) + 1 /\ Len(broker_to_rmw[r]) \in Nat
            /\ \A i \in 1 .. Len(broker_to_rmw[r]) : InFlight(r)[i] = broker_to_rmw[r][i]
        BY <1>t, <3>2, AppendItems, ThreadTypes
      <4>. QED  BY <3>2, <4>1 DEF Told, Heeds
    <3>. QED  BY <2>2, <3>1, <3>2
  <2>5. InHand(r)' \in SUBSET InHand(r)
    BY <1>1, <2>4 DEF InHand
  <2>. QED  BY <2>3, <2>5, ChainDrops
<1>. QED  BY <1>2 DEF ChainInv, CountInv

\* The handlers that answer, and send_data.  A reply that acknowledges something
\* acknowledges what was due for the message in hand, and STATUS_AGENT, from which
\* on acknowledgements are heeded, leaves with nothing in hand.
LEMMA ChainReply ==
    ASSUME TypeInv, ChainInv,
           UNCHANGED <<rmw_to_broker, broker_to_rmw, cst, cseq, acked, nwrites>>,
           cur'.idx = cur.idx, bpc # "send", NEW t \in Sessions, NEW m \in OutMsg, Send(t, m),
           body' = body \/ (body # <<>> /\ body' = Tail(body)),
           m.sub = "STATUS_AGENT" => body' = <<>>,
           cst[t] \notin {"closed", "opening"} /\ m.sub = "ACKNACK" /\ Told(t)
              => m.first_unacked \in InHand(t)
    PROVE  ChainInv'
<1>t. body \in Seq(Submessage) /\ \A r \in Sessions : broker_to_rmw[r] \in Seq(OutMsg)
  BY ThreadTypes DEF TypeInv, TypeOK
<1>1. Beats(body') \subseteq Beats(body) /\ (m.sub = "STATUS_AGENT" => Beats(body') = {})
  BY <1>t, TailItems DEF Beats
<1>2. ASSUME NEW r \in Sessions, cst'[r] \notin {"closed", "opening"}
      PROVE  ChainOK(InFlight(r)', cst'[r], acked'[r], InHand(r)', rmw_to_broker'[r], cseq'[r])
  <2>0. InFlight(r) = broker_to_rmw[r]
    BY DEF InFlight
  <2>1. ChainOK(broker_to_rmw[r], cst[r], acked[r], InHand(r), rmw_to_broker[r], cseq[r])
    BY <1>2, <2>0 DEF ChainInv
  <2>2. InFlight(r)' = IF r = t THEN Append(broker_to_rmw[r], m) ELSE broker_to_rmw[r]
    BY DEF InFlight, Send
  <2>3. m.sub # "STATUS_AGENT" => (Told(r)' => Told(r))
    <3>1. CASE r # t
      BY <2>0, <2>2, <3>1 DEF Told
    <3>2. CASE r = t
      <4>1. /\ Len(Append(broker_to_rmw[r], m)) = Len(broker_to_rmw[r]) + 1
            /\ Append(broker_to_rmw[r], m)[Len(broker_to_rmw[r]) + 1] = m
            /\ Len(broker_to_rmw[r]) \in Nat
            /\ \A i \in 1 .. Len(broker_to_rmw[r]) :
                  Append(broker_to_rmw[r], m)[i] = broker_to_rmw[r][i]
        BY <1>t, AppendItems
      <4>. QED  BY <2>0, <2>2, <3>2, <4>1 DEF Told, Heeds
    <3>. QED  BY <3>1, <3>2
  <2>4. InHand(r)' \in SUBSET InHand(r)
    BY <1>1, <2>3 DEF InHand
  <2>5. r = t => ChainOK(Append(broker_to_rmw[r], m), cst[r], acked[r], InHand(r),
                         rmw_to_broker[r], cseq[r])
    <3>. SUFFICES ASSUME r = t
                  PROVE  ChainOK(Append(broker_to_rmw[r], m), cst[r], acked[r], InHand(r),
                                 rmw_to_broker[r], cseq[r])
      OBVIOUS
    <3>1. /\ m.sub = "ACKNACK" /\ Heeds(broker_to_rmw[r], cst[r], Len(broker_to_rmw[r]) + 1)
               => m.first_unacked \in InHand(r)
          /\ broker_to_rmw[r] \in Seq(OutMsg)
      BY <1>t, <1>2, <2>0 DEF Told
    <3>. QED  BY <2>1, <3>1, ChainReplies
  <2>6. ChainOK(InFlight(r)', cst[r], acked[r], InHand(r), rmw_to_broker[r], cseq[r])
    BY <2>1, <2>2, <2>5
  <2>. QED  BY <2>4, <2>6, ChainDrops
<1>. QED  BY <1>2 DEF ChainInv, CountInv

\* loopback_broker_recv_any: what the message is due for goes into the thread's
\* hands, and the acknowledgement of a reliable one straight on to the replies.
LEMMA ChainTake ==
    ASSUME TypeInv, LifeInv, ChainInv, NEW s \in Sessions, BrokerTake(s)
    PROVE  ChainInv'
<1>. DEFINE q == rmw_to_broker[s]
            m == Head(q)
            f == broker_to_rmw[s]
<1>t. /\ cseq[s] \in Nat /\ cseq[s] \in SeqNums /\ q \in Seq(InMsg)
      /\ rmw_to_broker \in [Sessions -> Seq(InMsg)]
      /\ \A r \in Sessions : broker_to_rmw[r] \in Seq(OutMsg)
  BY LifeTypes DEF TypeInv, TypeOK
<1>1. /\ bpc = "scan" /\ q # <<>> /\ rmw_to_broker' = [rmw_to_broker EXCEPT ![s] = Tail(@)]
      /\ UNCHANGED <<broker_to_rmw, cst, cseq, acked, nwrites>>
      /\ \/ bpc' = "poll" /\ UNCHANGED <<cur, body, out>>
         \/ /\ cur'.idx = s
            /\ body' = m.body
            /\ \/ /\ m.hdr.stream >= STREAM_THRESH_REL
                  /\ Send(s, AckNack(m.hdr, Inc(m.hdr.seq)))
               \/ bpc' = "sub"
  BY DEF BrokerTake, ScanTake, staticVars, clientVars
<1>2. m \in InMsg /\ 1 \in 1 .. Len(q) /\ m = q[1]
  BY <1>t, <1>1, TailItems
<1>3. cst[s] \notin {"closed", "opening"}
  BY <1>1 DEF LifeInv, Life, SessionInv
<1>4. rmw_to_broker'[s] = Tail(q) /\ \A r \in Sessions : r # s => rmw_to_broker'[r] = rmw_to_broker[r]
  BY <1>t, <1>1
<1>5. \A r \in Sessions : InFlight(r) = broker_to_rmw[r]
  BY <1>1 DEF InFlight
<1>6. ASSUME NEW r \in Sessions, r # s, cst'[r] \notin {"closed", "opening"}
      PROVE  ChainOK(InFlight(r)', cst'[r], acked'[r], InHand(r)', rmw_to_broker'[r], cseq'[r])
  <2>1. ChainOK(broker_to_rmw[r], cst[r], acked[r], InHand(r), rmw_to_broker[r], cseq[r])
    BY <1>1, <1>5, <1>6 DEF ChainInv
  <2>2. InFlight(r)' = broker_to_rmw[r]
    BY <1>1, <1>6 DEF InFlight, Send
  <2>3. InHand(r)' \in SUBSET InHand(r)
    BY <1>1, <1>5, <1>6, <2>2 DEF InHand, Told
  <2>. QED  BY <1>1, <1>4, <1>6, <2>1, <2>2, <2>3, ChainDrops
<1>7. ChainOK(InFlight(s)', cst'[s], acked'[s], InHand(s)', rmw_to_broker'[s], cseq'[s])
  <2>1. ChainOK(f, cst[s], acked[s], InHand(s), q, cseq[s])
    BY <1>3, <1>5 DEF ChainInv
  <2>2. /\ ChainOK(f, cst[s], acked[s], Due(m), Tail(q), cseq[s])
        /\ ChainOK(f, cst[s], acked[s], InHand(s), Tail(q), cseq[s])
    BY <1>t, <1>1, <2>1, ChainTakes
  <2>3. CASE bpc' = "poll" /\ UNCHANGED <<cur, body, out>>
    <3>1. InFlight(s)' = f /\ InHand(s)' = InHand(s)
      BY <1>1, <1>5, <2>3 DEF InFlight, InHand, Told
    <3>. QED  BY <1>1, <1>4, <2>2, <3>1
  <2>4. CASE cur'.idx = s /\ body' = m.body /\ bpc' = "sub"
    <3>1. InFlight(s)' = f /\ InHand(s)' \in SUBSET Due(m)
      BY <1>1, <2>4 DEF InFlight, InHand, Due
    <3>. QED  BY <1>1, <1>4, <2>2, <3>1, ChainDrops
  <2>5. CASE /\ cur'.idx = s /\ body' = m.body /\ m.hdr.stream >= STREAM_THRESH_REL
             /\ Send(s, AckNack(m.hdr, Inc(m.hdr.seq)))
    <3>. DEFINE a == AckNack(m.hdr, Inc(m.hdr.seq))
    <3>1. InHand(s)' \in SUBSET Due(m)
      BY <2>5 DEF InHand, Due
    <3>2. /\ m.hdr.stream = STREAM_THRESH_REL /\ m.hdr.seq \in Nat
          /\ m.hdr.sid \in SessionIds /\ m.hdr.key \in Keys
      <4>1. /\ m.hdr.stream \in StreamIds /\ m.hdr.seq \in SeqNums
            /\ m.hdr.sid \in SessionIds /\ m.hdr.key \in Keys
        BY <1>2 DEF InMsg, Header
      <4>. QED  BY <2>5, <4>1, BrokerAssumption DEF StreamIds, SeqNums, STREAM_NONE, STREAM_THRESH_REL
    <3>3. m.hdr.seq + 1 \in Due(m) /\ m.hdr.seq + 1 <= cseq[s]
      <4>1. m.hdr.seq + 1 \in Due(m) /\ Due(m) \subseteq 0 .. cseq[s]
        BY <1>2, <2>1, <3>2 DEF Due, ChainOK
      <4>. QED  BY <1>t, <3>2, <4>1
    <3>4. Inc(m.hdr.seq) = m.hdr.seq + 1 /\ m.hdr.seq + 1 \in SeqNums
      <4>1. m.hdr.seq + 1 < SeqMod /\ m.hdr.seq + 1 \in SeqNums
        BY <1>t, <3>2, <3>3, BrokerAssumption DEF SeqNums
      <4>. QED  BY <3>2, <4>1, SmallNumbers
    <3>5. a \in OutMsg /\ a.first_unacked \in Due(m) /\ a.sub = "ACKNACK"
      <4>1. a \in OutMsg
        BY <3>2, <3>4, AckNackType
      <4>2. a.first_unacked = m.hdr.seq + 1 /\ a.sub = "ACKNACK"
        BY <3>4 DEF AckNack
      <4>. QED  BY <3>3, <4>1, <4>2
    <3>6. InFlight(s)' = Append(f, a)
      BY <1>1, <2>5 DEF InFlight, Send
    <3>. HIDE DEF a, m
    <3>7. ChainOK(Append(f, a), cst[s], acked[s], Due(m), Tail(q), cseq[s])
      BY <1>t, <2>2, <3>5, ChainReplies
    <3>8. ChainOK(Append(f, a), cst[s], acked[s], InHand(s)', Tail(q), cseq[s])
      BY <3>1, <3>7, ChainDrops
    <3>. QED  BY <1>1, <1>4, <3>6, <3>8
  <2>. QED  BY <1>1, <2>3, <2>4, <2>5
<1>. QED  BY <1>1, <1>6, <1>7 DEF ChainInv, CountInv

\* loopback_broker_send stores the reply where it was on its way to, or loses it.
LEMMA ChainSent ==
    ASSUME TypeInv, ChainInv, BrokerSend
    PROVE  ChainInv'
<1>1. /\ bpc = "send" /\ bpc' # "send"
      /\ SendQueued(out.to, out.msg) \/ SendTimeout(out.to)
      /\ UNCHANGED <<rmw_to_broker, cst, cseq, acked, nwrites, cur, body>>
  BY DEF BrokerSend, SendReturns, AfterSend, staticVars, clientVars
<1>2. CASE SendTimeout(out.to)
  BY <1>1, <1>2, ChainQuiet DEF SendTimeout
<1>3. CASE SendQueued(out.to, out.msg)
  <2>1. broker_to_rmw' = [broker_to_rmw EXCEPT ![out.to] = Append(@, out.msg)]
    BY <1>3 DEF SendQueued
  <2>2. ASSUME NEW r \in Sessions PROVE InFlight(r)' = InFlight(r) /\ InHand(r)' = InHand(r)
    <3>1. broker_to_rmw'[r] = IF r = out.to THEN Append(broker_to_rmw[r], out.msg)
                              ELSE broker_to_rmw[r]
      BY <2>1 DEF TypeInv, TypeOK
    <3>2. InFlight(r)' = InFlight(r)
      BY <1>1, <3>1 DEF InFlight
    <3>. QED  BY <1>1, <3>2 DEF InHand, Told, Heeds
  <2>. QED  BY <1>1, <2>2 DEF ChainInv, CountInv
<1>. QED  BY <1>1, <1>2, <1>3

\* The handlers that answer, and send_data.
LEMMA ChainHandlers ==
    ASSUME TypeInv, LifeInv, ChainInv,
           \/ handle_create_client \/ handle_create \/ handle_get_info \/ handle_delete
           \/ handle_heartbeat \/ send_data
    PROVE  ChainInv'
<1>t. cur.idx \in Sessions /\ body \in Seq(Submessage)
  BY ThreadTypes
<1>1. TypeInv'
  BY HandlerType
<1>2. /\ UNCHANGED <<rmw_to_broker, broker_to_rmw, cst, cseq, acked, nwrites>>
      /\ bpc # "send" /\ bpc' = "send"
      /\ body' = body \/ (body # <<>> /\ body' = Tail(body))
  BY DEF handle_create_client, handle_create, handle_get_info, handle_delete,
         handle_heartbeat, send_data, send_status, send_info, Handling, Consumed, Send,
         HandlerKeeps, transportVars, clientVars
<1>3. cur'.idx = cur.idx
  BY DEF handle_create_client, handle_create, handle_get_info, handle_delete,
         handle_heartbeat, send_data, TypeInv, TypeOK
<1>4. /\ out'.to \in Sessions /\ out'.msg \in OutMsg /\ Send(out'.to, out'.msg)
  <2>1. out' \in [to : Sessions, msg : OutMsg \cup {Unused}] /\ out'.msg \in OutMsg
    BY <1>1, <1>2 DEF TypeInv, TypeOK, SendOK
  <2>. QED  BY <1>2, <2>1 DEF Send
<1>5. PICK t \in Sessions, m \in OutMsg : out' = [to |-> t, msg |-> m]
  BY <1>4 DEF Send
<1>6. cst[t] \notin {"closed", "opening"} /\ m.sub = "ACKNACK" /\ Told(t) => m.first_unacked \in InHand(t)
  <2>1. CASE handle_heartbeat
    <3>. DEFINE b == Head(body)
    <3>1. /\ body # <<>> /\ b.sub = "HEARTBEAT" /\ t = cur.idx /\ m = AckNack(cur, Inc(b.last))
      BY <1>5, <2>1 DEF handle_heartbeat, Handling, Send
    <3>2. 1 \in 1 .. Len(body) /\ b = body[1] /\ b \in Submessage
      BY <1>t, <3>1, TailItems
    <3>. HIDE DEF b
    <3>3. m.first_unacked = Inc(b.last) /\ b.last \in Nat /\ cseq[t] \in SeqNums /\ cseq[t] \in Nat
      BY <3>1, <3>2, SubmessageFields, LifeTypes, BrokerAssumption DEF AckNack, SeqNums
    <3>4. ASSUME Told(t), cst[t] \notin {"closed", "opening"} PROVE m.first_unacked \in InHand(t)
      <4>1. b.last + 1 \in InHand(t)
        BY <3>1, <3>2, <3>4 DEF InHand, Beats
      <4>2. ChainOK(InFlight(t), cst[t], acked[t], InHand(t), rmw_to_broker[t], cseq[t])
        BY <3>4 DEF ChainInv
      <4>3. b.last + 1 \in 0 .. cseq[t]
        BY <4>1, <4>2 DEF ChainOK
      <4>4. b.last + 1 < SeqMod
        BY <3>3, <4>3, BrokerAssumption DEF SeqNums
      <4>5. Inc(b.last) = b.last + 1
        BY <3>3, <4>4, SmallNumbers
      <4>. QED  BY <3>3, <4>1, <4>5
    <3>. QED  BY <3>4
  <2>2. CASE ~handle_heartbeat
    BY <1>5, <2>2 DEF handle_create_client, handle_create, handle_get_info, handle_delete,
                      send_data, send_status, send_info, Send
  <2>. QED  BY <2>1, <2>2
<1>7. m.sub = "STATUS_AGENT" => body' = <<>>
  <2>1. CASE handle_create_client
    BY <2>1, LifeCreateClient
  <2>2. CASE ~handle_create_client
    BY <1>5, <2>2 DEF handle_create, handle_get_info, handle_delete, handle_heartbeat,
                      send_data, send_status, send_info, AckNack, Send
  <2>. QED  BY <2>1, <2>2
<1>8. Send(t, m)
  BY <1>2, <1>5 DEF Send
<1>. QED  BY <1>2, <1>3, <1>6, <1>7, <1>8, ChainReply

\* Every step keeps the numbers in order.
LEMMA ChainStep ==
    ASSUME ProperClients, NoWrap, TypeInv, LifeInv, ChainInv, [Next]_vars
    PROVE  ChainInv'
<1>1. CASE UNCHANGED vars
  BY <1>1, ChainQuiet DEF vars, transportVars, clientVars, threadVars
<1>2. CASE \E s \in Sessions : ClientStep(s)
  BY <1>2, ChainClient, ChainRead, ChainOpens, ChainOpened DEF ClientStep
<1>3. CASE broker_quiesce \/ BrokerPoll \/ MessageDone \/ \E s \in Sessions : BrokerMiss(s)
  <2>1. /\ UNCHANGED <<rmw_to_broker, broker_to_rmw, cst, cseq, acked, nwrites, cur, body>>
        /\ bpc' = "send" => bpc = "send" /\ out' = out
    BY <1>3 DEF broker_quiesce, BrokerPoll, MessageDone, BrokerMiss, staticVars, clientVars,
                transportVars, threadVars
  <2>. QED  BY <2>1, ChainQuiet
<1>4. CASE SkipSubmessage \/ handle_write_data \/ EmitDone \/ NoSubscriber
  <2>1. /\ UNCHANGED <<rmw_to_broker, broker_to_rmw, cst, cseq, acked, nwrites, cur>>
        /\ bpc' # "send"
        /\ body' = body \/ (body # <<>> /\ body' = Tail(body))
    BY <1>4 DEF SkipSubmessage, handle_write_data, EmitDone, NoSubscriber, Handling, Consumed,
                HandlerKeeps, transportVars, clientVars
  <2>. QED  BY <2>1, ChainQuiet
<1>. QED
  BY <1>1, <1>2, <1>3, <1>4, ChainTake, ChainSent, ChainHandlers DEF Next, BrokerStep

\* At the start nothing is numbered and no transport is open.
LEMMA ChainInit == Init => ChainInv
BY DEF Init, ChainInv, CountInv

\* Whatever the session id: no acknowledgement, to a message or to a heartbeat, runs
\* ahead of what the client has numbered in its present life, not even one made for
\* an earlier life and sent after both purges of loopback_open.
THEOREM NoAckAhead == ProperClients /\ NoWrap => (Spec => []AckNotAhead)
<1>. SUFFICES ASSUME ProperClients, NoWrap PROVE Spec => []AckNotAhead
  OBVIOUS
<1>1. Init => LifeInv /\ ChainInv
  BY LifeInit, ChainInit
<1>2. TypeInv /\ LifeInv /\ ChainInv /\ [Next]_vars => LifeInv' /\ ChainInv'
  BY LifeStep, ChainStep
<1>3. Spec => []TypeInv
  BY TypeCorrect DEF TypeInv
<1>4. ChainInv => AckNotAhead
  BY DEF ChainInv, CountInv, AckNotAhead
<1>. QED  BY <1>1, <1>2, <1>3, <1>4, PTL DEF Spec

\* While a client keeps its session no acknowledgement is taken back: the replies
\* to messages and to heartbeats, made at different moments and queued behind each
\* other, reach it in the order of their numbers.
THEOREM AcksNeverRetracted == ProperClients /\ NoWrap => (Spec => AckNeverRetracted)
<1>. SUFFICES ASSUME ProperClients, NoWrap PROVE Spec => AckNeverRetracted
  OBVIOUS
<1>1. Init => LifeInv /\ ChainInv
  BY LifeInit, ChainInit
<1>2. TypeInv /\ LifeInv /\ ChainInv /\ [Next]_vars => LifeInv' /\ ChainInv'
  BY LifeStep, ChainStep
<1>3. Spec => []TypeInv
  BY TypeCorrect DEF TypeInv
<1>4. TypeInv /\ LifeInv /\ ChainInv /\ [Next]_vars
         => [\A s \in Sessions : key'[s] = key[s] => acked'[s] >= acked[s]]_vars
  <2>. SUFFICES ASSUME TypeInv, ChainInv, Next, NEW s \in Sessions, key'[s] = key[s]
                PROVE  acked'[s] >= acked[s]
    OBVIOUS
  <2>0. acked[s] \in Nat /\ acked[s] >= acked[s] /\ key[s] \in Nat
    BY LifeTypes
  <2>1. CASE \E r \in Sessions : ClientRead(r)
    BY <2>0, <2>1, ChainRead
  <2>2. CASE \E r \in Sessions : ClientOpened(r)
    <3>1. PICK r \in Sessions : ClientOpened(r)
      BY <2>2
    <3>2. /\ key' = [key EXCEPT ![r] = @ + 1] /\ acked' = [acked EXCEPT ![r] = 0]
          /\ key \in [Sessions -> Nat] /\ acked \in [Sessions -> SeqNums]
      BY <3>1 DEF ClientOpened, TypeInv, TypeOK, Keys
    <3>. QED  BY <2>0, <3>2
  <2>3. CASE UNCHANGED acked
    BY <2>0, <2>3
  <2>4. \/ \E r \in Sessions : ClientRead(r) \/ ClientOpened(r)
        \/ UNCHANGED acked
    BY DEF Next, BrokerStep, ClientStep, ClientOpens, ClientCreatesSession, ClientPings,
           ClientRequests, ClientHeartbeat, ClientSends, broker_quiesce, BrokerPoll,
           BrokerSend, MessageDone, BrokerTake, BrokerMiss, handle_create_client,
           handle_create, handle_get_info, handle_delete, handle_heartbeat, SkipSubmessage,
           handle_write_data, EmitDone, send_data, NoSubscriber, HandlerKeeps, staticVars,
           clientVars
  <2>. QED  BY <2>1, <2>2, <2>3, <2>4
<1>. QED  BY <1>1, <1>2, <1>3, <1>4, PTL DEF Spec, AckNeverRetracted

-----------------------------------------------------------------------------
(* What a subscriber gets: the inductive invariant. *)

\* A client's submessages are its own or the client library's.
Control == {"CREATE_CLIENT", "GET_INFO", "HEARTBEAT"}
Known(subs, s) == \A i \in 1 .. Len(subs) : subs[i].sub \in Control \/ subs[i] \in Asked(s)

\* An entry of a table is what its session has asked for.
TopicAsked(e) == \E c \in Asked(e.session) : c.sub = "CREATE" /\ c.id = e.id /\ c.name = e.name
EndAsked(e)   == \E c \in Asked(e.session) : c.sub = "CREATE" /\ c.id = e.id /\ c.topic = e.topic
TablesAsked ==
    /\ \A i \in 1 .. MaxTopics : topics[i] # Unused => TopicAsked(topics[i])
    /\ \A i \in 1 .. MaxDataWriters : datawriters[i] # Unused => EndAsked(datawriters[i])
    /\ \A i \in 1 .. MaxDataReaders : datareaders[i] # Unused => EndAsked(datareaders[i])

Named(tops, s, id, name) ==
    \E t \in DOMAIN tops : /\ tops[t] # Unused /\ tops[t].session = s
                           /\ tops[t].id = id /\ tops[t].name = name

\* A DATA message on its way to session s is for a reader of that session whose
\* topic has the name it was published under.
OnTopic(readers, tops, m, s) ==
    m.sub = "DATA" =>
        \E r \in DOMAIN readers : /\ readers[r] # Unused /\ readers[r].session = s
                                  /\ readers[r].id = m.id
                                  /\ Named(tops, s, readers[r].topic, m.data.topic)
Shown(m, log, quiet) == m.sub = "DATA" /\ LogDevice /\ ~quiet => <<m.data.topic, m.data>> \in log

\* The fan-out under way: its name is the one its publisher meant, the readers
\* left have a topic of that name, and past log_topic_emit the log shows it.
FanInv ==
    /\ fan.todo # {} => bpc \in {"emit", "fan", "send"}
    /\ fan.todo # {} \/ bpc \in {"emit", "fan"} => fan.name = fan.data.topic
    /\ \A i \in fan.todo :
          Named(topics, datareaders[i].session, datareaders[i].topic, fan.name)
    /\ LogDevice /\ ~broker_quiet /\ (bpc = "fan" \/ (fan.todo # {} /\ bpc = "send"))
          => <<fan.name, fan.data>> \in logged

KnownInv == /\ \A s \in Sessions : \A i \in 1 .. Len(rmw_to_broker[s]) :
                  Known(rmw_to_broker[s][i].body, s)
            /\ Known(body, cur.idx)

OnWayInv ==
    /\ \A s \in Sessions : \A i \in 1 .. Len(broker_to_rmw[s]) :
          /\ OnTopic(datareaders, topics, broker_to_rmw[s][i], s)
          /\ Shown(broker_to_rmw[s][i], logged, broker_quiet)
    /\ bpc = "send" => /\ OnTopic(datareaders, topics, out.msg, out.to)
                       /\ Shown(out.msg, logged, broker_quiet)

DataInv == KnownInv /\ TablesAsked /\ FanInv /\ OnWayInv

-----------------------------------------------------------------------------
(* The tables only grow. *)

\* If the entry that is there says the same, alloc_topic and alloc_ep change no
\* slot in use.
LEMMA RegisterSame ==
    ASSUME NEW N \in Nat, NEW table, DOMAIN table = 1 .. N, NEW ent, ent # Unused,
           \A i \in 1 .. N : /\ table[i] # Unused
                             /\ table[i].session = ent.session /\ table[i].id = ent.id
                             => table[i] = ent
    PROVE  \A i \in 1 .. N : /\ table[i] # Unused => Register(table, ent)[i] = table[i]
                             /\ Register(table, ent)[i] \in {table[i], ent}
<1>. DEFINE new == Register(table, ent)
<1>1. /\ new = table \/ \E a \in 1 .. N : new = [table EXCEPT ![a] = ent]
      /\ \A i \in 1 .. N : table[i] # Unused
            => new[i].session = table[i].session /\ new[i].id = table[i].id
  BY RegisterSlot
<1>. HIDE DEF new
<1>2. \A i \in 1 .. N : new[i] \in {table[i], ent}
  BY <1>1
<1>3. ASSUME NEW i \in 1 .. N, table[i] # Unused PROVE new[i] = table[i]
  BY <1>1, <1>2, <1>3
<1>4. \A i \in 1 .. N : (table[i] # Unused => new[i] = table[i]) /\ new[i] \in {table[i], ent}
  BY <1>2, <1>3
<1>. QED  BY <1>4 DEF new

\* handle_create of an honest client overwrites an entry only with itself.
LEMMA CreateKeeps ==
    ASSUME HonestClients, TypeInv, TablesAsked, Known(body, cur.idx), handle_create
    PROVE  /\ \A i \in 1 .. MaxTopics : topics[i] # Unused => topics'[i] = topics[i]
           /\ \A i \in 1 .. MaxDataReaders : datareaders[i] # Unused => datareaders'[i] = datareaders[i]
           /\ TablesAsked'
<1>. DEFINE m == Head(body)
            ent == [session |-> cur.idx, id |-> m.id, name |-> m.name]
            ep  == [session |-> cur.idx, id |-> m.id, topic |-> m.topic]
<1>1. /\ body \in Seq(Submessage) /\ body # <<>> /\ m.sub = "CREATE" /\ cur.idx \in Sessions
      /\ topics \in [1 .. MaxTopics -> TopicEnt \cup {Unused}]
      /\ datawriters \in [1 .. MaxDataWriters -> WriterEnt \cup {Unused}]
      /\ datareaders \in [1 .. MaxDataReaders -> ReaderEnt \cup {Unused}]
      /\ MaxTopics \in Nat /\ MaxDataWriters \in Nat /\ MaxDataReaders \in Nat
  BY BrokerAssumption DEF TypeInv, TypeOK, handle_create, Handling
<1>2. m \in Submessage /\ m = body[1] /\ 1 \in 1 .. Len(body)
  BY <1>1, TailItems
<1>3. m \in Asked(cur.idx)
  BY <1>1, <1>2 DEF Known, Control
<1>4. /\ topics' = topics \/ (m.id \in TopicIds /\ topics' = Register(topics, ent))
      /\ datawriters' = datawriters
           \/ (m.id \in WriterIds /\ datawriters' = Register(datawriters, ep))
      /\ datareaders' = datareaders
           \/ (m.id \in ReaderIds /\ datareaders' = Register(datareaders, ep))
  BY DEF handle_create
<1>. HIDE DEF m
<1>5. /\ m.id \in TopicIds => ent \in TopicEnt /\ ent # Unused /\ TopicAsked(ent)
      /\ m.id \in WriterIds => ep \in WriterEnt /\ ep # Unused /\ EndAsked(ep)
      /\ m.id \in ReaderIds => ep \in ReaderEnt /\ ep # Unused /\ EndAsked(ep)
  <2>1. /\ m.id \in TopicIds => ent \in TopicEnt /\ ent # Unused
        /\ m.id \in WriterIds => ep \in WriterEnt /\ ep # Unused
        /\ m.id \in ReaderIds => ep \in ReaderEnt /\ ep # Unused
    BY <1>1, <1>2, SubmessageFields, UnusedAssumption DEF TopicEnt, WriterEnt, ReaderEnt
  <2>2. TopicAsked(ent) /\ EndAsked(ep)
    BY <1>1, <1>3 DEF TopicAsked, EndAsked
  <2>. QED  BY <2>1, <2>2
\* Two requests of one session for one object are the same request.
<1>6. ASSUME NEW e \in TopicEnt, TopicAsked(e), e.session = cur.idx, e.id = m.id
      PROVE  e = ent
  <2>1. PICK c \in Asked(cur.idx) : c.sub = "CREATE" /\ c.id = m.id /\ c.name = e.name
    BY <1>6 DEF TopicAsked
  <2>2. m.id \in TopicIds
    BY <1>6 DEF TopicEnt
  <2>3. c.name = m.name
    BY <1>1, <1>3, <2>1, <2>2 DEF HonestClients
  <2>. QED  BY <1>6, <2>1, <2>3 DEF TopicEnt
<1>7. ASSUME NEW e \in WriterEnt \cup ReaderEnt, EndAsked(e), e.session = cur.idx, e.id = m.id
      PROVE  e = ep
  <2>1. PICK c \in Asked(cur.idx) : c.sub = "CREATE" /\ c.id = m.id /\ c.topic = e.topic
    BY <1>7 DEF EndAsked
  <2>2. m.id \in WriterIds \cup ReaderIds
    BY <1>7 DEF WriterEnt, ReaderEnt
  <2>3. c.topic = m.topic
    BY <1>1, <1>3, <2>1, <2>2 DEF HonestClients
  <2>. QED  BY <1>7, <2>1, <2>3 DEF WriterEnt, ReaderEnt
<1>f. ent.session = cur.idx /\ ent.id = m.id /\ ep.session = cur.idx /\ ep.id = m.id
  OBVIOUS
<1>. HIDE DEF ent, ep
<1>8. ASSUME NEW i \in 1 .. MaxTopics
      PROVE  /\ topics[i] # Unused => topics'[i] = topics[i]
             /\ topics'[i] # Unused => TopicAsked(topics'[i])
  <2>1. topics[i] # Unused => TopicAsked(topics[i])
    BY DEF TablesAsked
  <2>2. CASE topics' = topics
    BY <2>1, <2>2
  <2>3. CASE m.id \in TopicIds /\ topics' = Register(topics, ent)
    <3>1. ASSUME NEW j \in 1 .. MaxTopics, topics[j] # Unused,
                 topics[j].session = ent.session, topics[j].id = ent.id
          PROVE  topics[j] = ent
      BY <1>1, <1>6, <1>f, <3>1 DEF TablesAsked
    <3>2. /\ topics[i] # Unused => Register(topics, ent)[i] = topics[i]
          /\ Register(topics, ent)[i] \in {topics[i], ent}
      BY <1>1, <1>5, <2>3, <3>1, RegisterSame
    <3>. QED  BY <1>5, <2>1, <2>3, <3>2
  <2>. QED  BY <1>4, <2>2, <2>3
<1>9. ASSUME NEW i \in 1 .. MaxDataWriters
      PROVE  datawriters'[i] # Unused => EndAsked(datawriters'[i])
  <2>1. datawriters[i] # Unused => EndAsked(datawriters[i])
    BY DEF TablesAsked
  <2>2. CASE datawriters' = datawriters
    BY <2>1, <2>2
  <2>3. CASE m.id \in WriterIds /\ datawriters' = Register(datawriters, ep)
    <3>1. ASSUME NEW j \in 1 .. MaxDataWriters, datawriters[j] # Unused,
                 datawriters[j].session = ep.session, datawriters[j].id = ep.id
          PROVE  datawriters[j] = ep
      BY <1>1, <1>7, <1>f, <3>1 DEF TablesAsked
    <3>2. Register(datawriters, ep)[i] \in {datawriters[i], ep}
      BY <1>1, <1>5, <2>3, <3>1, RegisterSame
    <3>. QED  BY <1>5, <2>1, <2>3, <3>2
  <2>. QED  BY <1>4, <2>2, <2>3
<1>10. ASSUME NEW i \in 1 .. MaxDataReaders
       PROVE  /\ datareaders[i] # Unused => datareaders'[i] = datareaders[i]
              /\ datareaders'[i] # Unused => EndAsked(datareaders'[i])
  <2>1. datareaders[i] # Unused => EndAsked(datareaders[i])
    BY DEF TablesAsked
  <2>2. CASE datareaders' = datareaders
    BY <2>1, <2>2
  <2>3. CASE m.id \in ReaderIds /\ datareaders' = Register(datareaders, ep)
    <3>1. ASSUME NEW j \in 1 .. MaxDataReaders, datareaders[j] # Unused,
                 datareaders[j].session = ep.session, datareaders[j].id = ep.id
          PROVE  datareaders[j] = ep
      BY <1>1, <1>7, <1>f, <3>1 DEF TablesAsked
    <3>2. /\ datareaders[i] # Unused => Register(datareaders, ep)[i] = datareaders[i]
          /\ Register(datareaders, ep)[i] \in {datareaders[i], ep}
      BY <1>1, <1>5, <2>3, <3>1, RegisterSame
    <3>. QED  BY <1>5, <2>1, <2>3, <3>2
  <2>. QED  BY <1>4, <2>2, <2>3
<1>. QED  BY <1>8, <1>9, <1>10 DEF TablesAsked

\* So does every other step, for it leaves the tables alone.
LEMMA EntriesStay ==
    ASSUME HonestClients, TypeInv, TablesAsked, Known(body, cur.idx), [Next]_vars
    PROVE  /\ \A i \in 1 .. MaxTopics : topics[i] # Unused => topics'[i] = topics[i]
           /\ \A i \in 1 .. MaxDataReaders : datareaders[i] # Unused => datareaders'[i] = datareaders[i]
           /\ TablesAsked'
<1>1. CASE handle_create
  BY <1>1, CreateKeeps
<1>2. CASE UNCHANGED tableVars
  BY <1>2 DEF tableVars, TablesAsked, TopicAsked, EndAsked
<1>. QED  BY <1>1, <1>2, TablesStep DEF vars

\* What is on its way stays on its topic.
LEMMA OnTopicStays ==
    ASSUME HonestClients, TypeInv, TypeInv', TablesAsked, Known(body, cur.idx), [Next]_vars
    PROVE  /\ \A s, id, name : Named(topics, s, id, name) => Named(topics', s, id, name)
           /\ \A m, s : OnTopic(datareaders, topics, m, s) => OnTopic(datareaders', topics', m, s)
<1>1. /\ \A i \in 1 .. MaxTopics : topics[i] # Unused => topics'[i] = topics[i]
      /\ \A i \in 1 .. MaxDataReaders : datareaders[i] # Unused => datareaders'[i] = datareaders[i]
  BY EntriesStay
<1>2. /\ DOMAIN topics = 1 .. MaxTopics /\ DOMAIN datareaders = 1 .. MaxDataReaders
      /\ DOMAIN topics' = 1 .. MaxTopics /\ DOMAIN datareaders' = 1 .. MaxDataReaders
  BY DEF TypeInv, TypeOK
<1>3. ASSUME NEW s, NEW id, NEW name, Named(topics, s, id, name)
      PROVE  Named(topics', s, id, name)
  BY <1>1, <1>2, <1>3 DEF Named
<1>4. ASSUME NEW m, NEW s, OnTopic(datareaders, topics, m, s)
      PROVE  OnTopic(datareaders', topics', m, s)
  BY <1>1, <1>2, <1>3, <1>4 DEF OnTopic
<1>. QED  BY <1>3, <1>4

-----------------------------------------------------------------------------
(* What the broker has to handle is what the clients asked for. *)

\* loopback_write of a body the client may send.
LEMMA SendsKnown ==
    ASSUME TypeInv, NEW s \in Sessions, NEW sid \in SessionIds, NEW stream \in StreamIds,
           NEW subs \in Seq(Submessage), Known(subs, s), ClientSends(s, sid, stream, subs)
    PROVE  \/ rmw_to_broker' = rmw_to_broker
           \/ \E m \in InMsg : /\ Known(m.body, s)
                               /\ rmw_to_broker' = [rmw_to_broker EXCEPT ![s] = Append(@, m)]
<1>. DEFINE h == put_msg_header(sid, stream,
                      IF stream = STREAM_THRESH_REL THEN cseq[s] ELSE 0, key[s])
            m == [hdr |-> h, body |-> subs]
<1>1. WriteQueued(s, m) \/ WriteDropped(s)
  BY DEF ClientSends
<1>2. m \in InMsg /\ m.body = subs
  <2>1. h \in Header
    BY LifeTypes, HeaderType, ConstantTypes DEF Keys
  <2>. QED  BY <2>1 DEF InMsg
<1>. HIDE DEF m
<1>. QED  BY <1>1, <1>2 DEF WriteQueued, WriteDropped

\* The four ways a client sends.
LEMMA WritesKnown ==
    ASSUME TypeInv, NEW s \in Sessions,
           \/ ClientCreatesSession(s) \/ ClientPings(s)
           \/ ClientRequests(s) \/ ClientHeartbeat(s)
    PROVE  \/ rmw_to_broker' = rmw_to_broker
           \/ \E m \in InMsg : /\ Known(m.body, s)
                               /\ rmw_to_broker' = [rmw_to_broker EXCEPT ![s] = Append(@, m)]
<1>0. ASSUME NEW b \in Submessage, b.sub \in Control
      PROVE  <<b>> \in Seq(Submessage) /\ Known(<<b>>, s)
  <2>1. <<b>> \in Seq(Submessage) /\ Len(<<b>>) = 1 /\ <<b>>[1] = b
    OBVIOUS
  <2>. QED  BY <1>0, <2>1 DEF Known
<1>1. CASE ClientCreatesSession(s)
  <2>. DEFINE b == Join(key[s])
  <2>1. b \in Submessage /\ b.sub \in Control
    BY LifeTypes, ConstantTypes DEF Submessage, Control, Keys, Join
  <2>2. ClientSends(s, MaskedSid, STREAM_NONE, <<b>>)
    BY <1>1 DEF ClientCreatesSession
  <2>. HIDE DEF b
  <2>3. <<b>> \in Seq(Submessage) /\ Known(<<b>>, s)
    BY <1>0, <2>1
  <2>. QED  BY <2>2, <2>3, SendsKnown, ConstantTypes
<1>2. CASE ClientPings(s)
  <2>1. PICK id \in OtherIds :
          ClientSends(s, SESSION_NO_KEY, STREAM_NONE, <<[sub |-> "GET_INFO", id |-> id]>>)
    BY <1>2 DEF ClientPings
  <2>. DEFINE b == [sub |-> "GET_INFO", id |-> id]
  <2>2. b \in Submessage /\ b.sub \in Control
    BY DEF Submessage, ObjectIds, Control
  <2>3. ClientSends(s, SESSION_NO_KEY, STREAM_NONE, <<b>>)
    BY <2>1
  <2>. HIDE DEF b
  <2>4. <<b>> \in Seq(Submessage) /\ Known(<<b>>, s)
    BY <1>0, <2>2
  <2>. QED  BY <2>3, <2>4, SendsKnown, ConstantTypes
<1>3. CASE ClientRequests(s)
  <2>1. PICK b \in ClientBody[s] : ClientSends(s, RealSid, b.stream, b.body)
    BY <1>3 DEF ClientRequests
  <2>2. b.stream \in StreamIds /\ b.body \in Seq(Submessage)
    BY ClientBodyAssumption
  <2>3. Known(b.body, s)
    BY <2>2 DEF Known, Asked
  <2>. QED  BY <2>1, <2>2, <2>3, SendsKnown, ConstantTypes
<1>4. CASE ClientHeartbeat(s)
  <2>. DEFINE last == (cseq[s] + SeqMod - 1) % SeqMod
              b == [sub |-> "HEARTBEAT", last |-> last]
  <2>1. last \in SeqNums
    BY LifeTypes, BrokerAssumption DEF SeqNums
  <2>2. ClientSends(s, RealSid, STREAM_NONE, <<b>>)
    BY <1>4 DEF ClientHeartbeat
  <2>. HIDE DEF last
  <2>3. b \in Submessage /\ b.sub \in Control
    BY <2>1 DEF Submessage, Control
  <2>. HIDE DEF b
  <2>4. <<b>> \in Seq(Submessage) /\ Known(<<b>>, s)
    BY <1>0, <2>3
  <2>. QED  BY <2>2, <2>4, SendsKnown, ConstantTypes
<1>. QED  BY <1>1, <1>2, <1>3, <1>4

\* What a step may do to the clients' queues.
LEMMA RequestsStep ==
    ASSUME TypeInv, Next
    PROVE  \/ UNCHANGED rmw_to_broker
           \/ \E s \in Sessions : OpenPurgeOutgoing(s) \/ ScanTake(s)
           \/ \E s \in Sessions : \E m \in InMsg :
                 /\ Known(m.body, s)
                 /\ rmw_to_broker' = [rmw_to_broker EXCEPT ![s] = Append(@, m)]
<1>1. CASE \E s \in Sessions : ClientStep(s)
  <2>1. PICK s \in Sessions : ClientStep(s)
    BY <1>1
  <2>2. CASE ClientOpens(s) \/ ClientOpened(s) \/ ClientRead(s)
    BY <2>2 DEF ClientOpens, ClientOpened, ClientRead
  <2>. QED  BY <2>1, <2>2, WritesKnown DEF ClientStep
<1>2. CASE broker_quiesce
  BY <1>2 DEF broker_quiesce, transportVars
<1>3. CASE BrokerStep
  BY <1>3 DEF BrokerStep, BrokerPoll, BrokerSend, MessageDone, BrokerTake, BrokerMiss,
              HandlerKeeps, transportVars, handle_create_client, handle_create,
              handle_get_info, handle_delete, handle_heartbeat, SkipSubmessage,
              handle_write_data, EmitDone, send_data, NoSubscriber
<1>. QED  BY <1>1, <1>2, <1>3 DEF Next

\* What a step may do to the message in hand.
LEMMA BodyStep ==
    ASSUME TypeInv, Next
    PROVE  /\ \/ UNCHANGED body
              \/ body # <<>> /\ body' = Tail(body)
              \/ \E s \in Sessions : /\ rmw_to_broker[s] # <<>> /\ cur'.idx = s
                                     /\ body' = Head(rmw_to_broker[s]).body
           /\ cur'.idx = cur.idx \/ \E s \in Sessions :
                                     /\ rmw_to_broker[s] # <<>> /\ cur'.idx = s
                                     /\ body' = Head(rmw_to_broker[s]).body
<1>0. cur \in [idx : Sessions, sid : SessionIds, stream : StreamIds, key : Keys]
  BY DEF TypeInv, TypeOK
<1>1. CASE \E s \in Sessions : ClientStep(s)
  BY <1>1 DEF ClientStep, ClientOpens, ClientOpened, ClientCreatesSession, ClientPings,
              ClientRequests, ClientHeartbeat, ClientRead, ClientSends, brokerVars, threadVars
<1>2. CASE broker_quiesce
  BY <1>2 DEF broker_quiesce, threadVars
<1>3. CASE \E s \in Sessions : BrokerTake(s)
  BY <1>3 DEF BrokerTake, ScanTake
<1>4. CASE BrokerPoll \/ BrokerSend \/ MessageDone \/ \E s \in Sessions : BrokerMiss(s)
  BY <1>4 DEF BrokerPoll, BrokerSend, MessageDone, BrokerMiss
<1>5. CASE handle_create_client
  BY <1>0, <1>5 DEF handle_create_client, Handling, Consumed
<1>6. CASE \/ handle_create \/ handle_get_info \/ handle_delete \/ handle_heartbeat
           \/ SkipSubmessage \/ handle_write_data
  BY <1>6 DEF handle_create, handle_get_info, handle_delete, handle_heartbeat,
              SkipSubmessage, handle_write_data, Handling, Consumed
<1>7. CASE EmitDone \/ send_data \/ NoSubscriber
  BY <1>7 DEF EmitDone, send_data, NoSubscriber
<1>. QED  BY <1>1, <1>2, <1>3, <1>4, <1>5, <1>6, <1>7 DEF Next, BrokerStep

\* No step brings up a submessage nobody asked for.
LEMMA KnownStep ==
    ASSUME TypeInv, KnownInv, [Next]_vars
    PROVE  KnownInv'
<1>0. rmw_to_broker \in [Sessions -> Seq(InMsg)] /\ body \in Seq(Submessage)
  BY DEF TypeInv, TypeOK
<1>1. CASE UNCHANGED vars
  BY <1>1 DEF KnownInv, Known, vars, transportVars, threadVars
<1>2. CASE Next
  <2>1. ASSUME NEW s \in Sessions, NEW i \in 1 .. Len(rmw_to_broker'[s])
        PROVE  Known(rmw_to_broker'[s][i].body, s)
    <3>1. CASE UNCHANGED rmw_to_broker
      BY <2>1, <3>1 DEF KnownInv
    <3>2. CASE \E t \in Sessions : OpenPurgeOutgoing(t) \/ ScanTake(t)
      <4>1. PICK t \in Sessions : OpenPurgeOutgoing(t) \/ ScanTake(t)
        BY <3>2
      <4>2. CASE t # s
        <5>1. rmw_to_broker'[s] = rmw_to_broker[s]
          BY <1>0, <4>1, <4>2 DEF OpenPurgeOutgoing, ScanTake
        <5>. QED  BY <2>1, <5>1 DEF KnownInv
      <4>3. CASE OpenPurgeOutgoing(t) /\ t = s
        BY <1>0, <2>1, <4>3 DEF OpenPurgeOutgoing
      <4>4. CASE ScanTake(t) /\ t = s
        <5>1. rmw_to_broker'[s] = Tail(rmw_to_broker[s]) /\ rmw_to_broker[s] # <<>>
          BY <1>0, <4>4 DEF ScanTake
        <5>2. /\ i + 1 \in 1 .. Len(rmw_to_broker[s])
              /\ rmw_to_broker'[s][i] = rmw_to_broker[s][i + 1]
          BY <1>0, <2>1, <5>1, TailItems
        <5>. QED  BY <5>2 DEF KnownInv
      <4>. QED  BY <4>1, <4>2, <4>3, <4>4
    <3>3. CASE \E t \in Sessions : \E m \in InMsg :
                 /\ Known(m.body, t)
                 /\ rmw_to_broker' = [rmw_to_broker EXCEPT ![t] = Append(@, m)]
      <4>1. PICK t \in Sessions, m \in InMsg :
                 /\ Known(m.body, t)
                 /\ rmw_to_broker' = [rmw_to_broker EXCEPT ![t] = Append(@, m)]
        BY <3>3
      <4>2. CASE t # s
        <5>1. rmw_to_broker'[s] = rmw_to_broker[s]
          BY <1>0, <4>1, <4>2
        <5>. QED  BY <2>1, <5>1 DEF KnownInv
      <4>3. CASE t = s
        <5>1. rmw_to_broker'[s] = Append(rmw_to_broker[s], m)
          BY <1>0, <4>1, <4>3
        <5>2. \/ i \in 1 .. Len(rmw_to_broker[s]) /\ rmw_to_broker'[s][i] = rmw_to_broker[s][i]
              \/ rmw_to_broker'[s][i] = m
          BY <1>0, <2>1, <5>1, AppendItems
        <5>. QED  BY <4>1, <4>3, <5>2 DEF KnownInv
      <4>. QED  BY <4>2, <4>3
    <3>. QED  BY <1>2, <3>1, <3>2, <3>3, RequestsStep
  <2>2. Known(body', cur'.idx)
    <3>1. CASE body' = body /\ cur'.idx = cur.idx
      BY <3>1 DEF KnownInv
    <3>2. CASE body # <<>> /\ body' = Tail(body) /\ cur'.idx = cur.idx
      <4>1. \A i \in 1 .. Len(body') : i + 1 \in 1 .. Len(body) /\ body'[i] = body[i + 1]
        BY <1>0, <3>2, TailItems
      <4>. QED  BY <3>2, <4>1 DEF KnownInv, Known
    <3>3. CASE \E s \in Sessions : /\ rmw_to_broker[s] # <<>> /\ cur'.idx = s
                                   /\ body' = Head(rmw_to_broker[s]).body
      BY <1>0, <3>3, TailItems DEF KnownInv
    <3>. QED  BY <1>2, <3>1, <3>2, <3>3, BodyStep
  <2>. QED  BY <2>1, <2>2 DEF KnownInv
<1>. QED  BY <1>1, <1>2

-----------------------------------------------------------------------------
(* The fan-out. *)

\* The log only grows, and a broker that has gone quiet stays quiet.
LEMMA LogGrows ==
    ASSUME [Next]_vars
    PROVE  logged \subseteq logged' /\ (~broker_quiet' => ~broker_quiet)
<1>1. CASE UNCHANGED vars
  BY <1>1 DEF vars
<1>2. CASE \E s \in Sessions : ClientStep(s)
  <2>1. UNCHANGED <<logged, broker_quiet>>
    BY <1>2 DEF ClientStep, ClientOpens, ClientOpened, ClientCreatesSession, ClientPings,
                ClientRequests, ClientHeartbeat, ClientRead, ClientSends, brokerVars
  <2>. QED  BY <2>1
<1>3. CASE broker_quiesce
  BY <1>3 DEF broker_quiesce
<1>4. CASE BrokerStep
  BY <1>4 DEF BrokerStep, BrokerPoll, BrokerSend, MessageDone, BrokerTake, BrokerMiss,
              staticVars, HandlerKeeps, handle_create_client, handle_create,
              handle_get_info, handle_delete, handle_heartbeat, SkipSubmessage,
              handle_write_data, EmitDone, send_data, NoSubscriber
<1>. QED  BY <1>1, <1>2, <1>3, <1>4 DEF Next

\* Outside handle_write_data and its fan-out no step touches fan, and the thread
\* gets back into a fan-out only where loopback_broker_send returns to one.
LEMMA FanSteps ==
    ASSUME TypeInv, [Next]_vars
    PROVE  \/ handle_write_data \/ EmitDone \/ send_data \/ NoSubscriber
           \/ /\ fan' = fan
              /\ \/ bpc' = bpc
                 \/ bpc = "send" /\ bpc' = AfterSend
                 \/ /\ bpc \in {"poll", "scan", "sub"}
                    /\ bpc' \in {"poll", "scan", "sub", "send"}
<1>1. CASE UNCHANGED vars
  BY <1>1 DEF vars, threadVars
<1>2. CASE \E s \in Sessions : ClientStep(s)
  BY <1>2 DEF ClientStep, ClientOpens, ClientOpened, ClientCreatesSession, ClientPings,
              ClientRequests, ClientHeartbeat, ClientRead, ClientSends, brokerVars,
              threadVars, SendReturns
<1>3. CASE broker_quiesce
  BY <1>3 DEF broker_quiesce, threadVars
<1>4. CASE \/ BrokerPoll \/ BrokerSend \/ MessageDone
           \/ \E s \in Sessions : BrokerTake(s) \/ BrokerMiss(s)
  BY <1>4 DEF BrokerPoll, BrokerSend, MessageDone, BrokerTake, BrokerMiss, Send, SendReturns
<1>5. CASE \/ handle_create_client \/ handle_create \/ handle_get_info
           \/ handle_delete \/ handle_heartbeat \/ SkipSubmessage
  BY <1>5 DEF handle_create_client, handle_create, handle_get_info, handle_delete,
              handle_heartbeat, SkipSubmessage, Handling, send_status, send_info, Send
<1>. QED  BY <1>1, <1>2, <1>3, <1>4, <1>5 DEF Next, BrokerStep

\* The readers left to serve keep their topic.
LEMMA FanNamed ==
    ASSUME HonestClients, TypeInv, TypeInv', DataInv, [Next]_vars
    PROVE  \A i \in fan.todo :
              Named(topics', datareaders'[i].session, datareaders'[i].topic, fan.name)
<1>. SUFFICES ASSUME NEW i \in fan.todo
              PROVE  Named(topics', datareaders'[i].session, datareaders'[i].topic, fan.name)
  OBVIOUS
<1>1. TablesAsked /\ Known(body, cur.idx)
  BY DEF DataInv, KnownInv
<1>2. i \in 1 .. MaxDataReaders /\ datareaders[i] # Unused
  BY DEF TypeInv, TypeOK, FanOK
<1>3. datareaders'[i] = datareaders[i]
  BY <1>1, <1>2, EntriesStay
<1>4. Named(topics, datareaders[i].session, datareaders[i].topic, fan.name)
  BY DEF DataInv, FanInv
<1>. QED  BY <1>1, <1>3, <1>4, OnTopicStays

\* The name an endpoint resolves to is that of a topic of the endpoint's session.
LEMMA NameOfNamed ==
    ASSUME TypeInv, NEW ep, NameOf(ep) # Unused
    PROVE  \E t \in 1 .. MaxTopics : /\ topics[t] # Unused
                                     /\ topics[t].session = ep.session
                                     /\ topics[t].id = ep.topic
                                     /\ topics[t].name = NameOf(ep)
<1>. DEFINE t == Find(topics, ep.session, ep.topic)
<1>1. DOMAIN topics = 1 .. MaxTopics /\ MaxTopics \in Nat
  BY BrokerAssumption DEF TypeInv, TypeOK
<1>2. t # NULL /\ NameOf(ep) = topics[t].name
  BY DEF NameOf
<1>3. \/ t = NULL
      \/ /\ t \in 1 .. MaxTopics /\ topics[t] # Unused
         /\ topics[t].session = ep.session /\ topics[t].id = ep.topic
  BY <1>1, FindSlot
<1>. HIDE DEF t
<1>. QED  BY <1>2, <1>3

\* handle_write_data resolves the writer to the name its client meant.
LEMMA WriteResolves ==
    ASSUME HonestClients, TypeInv, TablesAsked, Known(body, cur.idx),
           body # <<>>, Head(body).sub = "WRITE_DATA",
           NEW dw, dw = Find(datawriters, cur.idx, Head(body).id), dw # NULL,
           NameOf(datawriters[dw]) # Unused
    PROVE  Head(body).data.topic = NameOf(datawriters[dw])
<1>. DEFINE m == Head(body)
            e == datawriters[dw]
<1>1. body \in Seq(Submessage) /\ cur.idx \in Sessions
  BY ThreadTypes
<1>2. m \in Submessage /\ m = body[1] /\ 1 \in 1 .. Len(body)
  BY <1>1, TailItems
<1>3. m \in Asked(cur.idx) /\ m.id \in WriterIds
  BY <1>2, SubmessageFields DEF Known, Control
<1>4. DOMAIN datawriters = 1 .. MaxDataWriters /\ MaxDataWriters \in Nat
  BY BrokerAssumption DEF TypeInv, TypeOK
<1>5. dw \in 1 .. MaxDataWriters /\ e # Unused /\ e.session = cur.idx /\ e.id = m.id
  BY <1>4, FindSlot
<1>6. PICK c \in Asked(cur.idx) : c.sub = "CREATE" /\ c.id = m.id /\ c.topic = e.topic
  BY <1>5 DEF TablesAsked, EndAsked
<1>7. PICK t \in 1 .. MaxTopics : /\ topics[t] # Unused
                                  /\ topics[t].session = e.session
                                  /\ topics[t].id = e.topic
                                  /\ topics[t].name = NameOf(e)
  BY NameOfNamed
<1>8. PICK d \in Asked(cur.idx) : c.sub = "CREATE" /\ d.sub = "CREATE" /\ d.id = c.topic
                                  /\ d.name = NameOf(e)
  BY <1>5, <1>6, <1>7 DEF TablesAsked, TopicAsked
<1>. HIDE DEF m, e
<1>9. m.sub = "WRITE_DATA"
  BY DEF m
<1>10. m.data.topic = d.name
  BY <1>1, <1>3, <1>6, <1>8, <1>9 DEF HonestClients
<1>. QED  BY <1>8, <1>10 DEF m, e

\* Every step keeps the fan-out on the topic it was published on.
LEMMA FanStep ==
    ASSUME HonestClients, TypeInv, TypeInv', DataInv, [Next]_vars
    PROVE  FanInv'
<1>0. FanInv /\ TablesAsked /\ Known(body, cur.idx)
  BY DEF DataInv, KnownInv
<1>n. \A i \in fan.todo :
         Named(topics', datareaders'[i].session, datareaders'[i].topic, fan.name)
  BY FanNamed
<1>l. logged \subseteq logged' /\ (~broker_quiet' => ~broker_quiet)
  BY LogGrows
<1>t. fan \in [todo : SUBSET (1 .. MaxDataReaders), data : Data \cup {Unused},
               name : Names \cup {Unused}]
  BY DEF TypeInv, TypeOK
<1>1. ASSUME fan' = fan,
             \/ bpc' = bpc
             \/ bpc = "send" /\ bpc' = AfterSend
             \/ /\ bpc \in {"poll", "scan", "sub"}
                /\ bpc' \in {"poll", "scan", "sub", "send"}
      PROVE  FanInv'
  <2>1. CASE bpc' = bpc
    BY <1>0, <1>n, <1>l, <1>1, <2>1 DEF FanInv
  <2>2. CASE bpc = "send" /\ bpc' = AfterSend
    BY <1>0, <1>n, <1>l, <1>1, <2>2 DEF FanInv, AfterSend
  <2>3. CASE /\ bpc \in {"poll", "scan", "sub"}
             /\ bpc' \in {"poll", "scan", "sub", "send"}
    BY <1>0, <1>n, <1>1, <2>3 DEF FanInv
  <2>. QED  BY <1>1, <2>1, <2>2, <2>3
<1>2. CASE handle_write_data
  <2>. DEFINE m == Head(body)
              dw == Find(datawriters, cur.idx, m.id)
              name == IF dw = NULL THEN Unused ELSE NameOf(datawriters[dw])
  <2>1. /\ body # <<>> /\ m.sub = "WRITE_DATA"
        /\ UNCHANGED <<topics, datareaders, broker_quiet>>
        /\ \/ name = Unused /\ UNCHANGED <<bpc, fan>>
           \/ /\ name # Unused
              /\ fan' = [todo |-> Subscribers(name), data |-> m.data, name |-> name]
              /\ bpc' = IF LogsWrite THEN "emit" ELSE "fan"
    BY <1>2 DEF handle_write_data, Handling, tableVars, HandlerKeeps
  <2>2. CASE name = Unused /\ UNCHANGED <<bpc, fan>>
    BY <1>1, <2>2
  <2>3. CASE /\ name # Unused
             /\ fan' = [todo |-> Subscribers(name), data |-> m.data, name |-> name]
             /\ bpc' = IF LogsWrite THEN "emit" ELSE "fan"
    <3>1. dw # NULL /\ NameOf(datawriters[dw]) # Unused /\ name = NameOf(datawriters[dw])
      BY <2>3
    <3>2. m.data.topic = name
      BY <1>0, <2>1, <3>1, WriteResolves
    <3>. HIDE DEF name, dw, m
    <3>3. /\ fan'.name = name /\ fan'.data = m.data /\ fan'.todo = Subscribers(name)
          /\ bpc' \in {"emit", "fan"} /\ (bpc' = "fan" => broker_quiet \/ ~LogDevice)
      BY <2>3 DEF LogsWrite
    <3>4. ASSUME NEW i \in Subscribers(name)
          PROVE  Named(topics, datareaders[i].session, datareaders[i].topic, name)
      <4>1. datareaders[i] # Unused /\ NameOf(datareaders[i]) = name
        BY DEF Subscribers
      <4>2. DOMAIN topics = 1 .. MaxTopics
        BY DEF TypeInv, TypeOK
      <4>. QED  BY <2>3, <4>1, <4>2, NameOfNamed DEF Named
    <3>. QED  BY <2>1, <3>2, <3>3, <3>4 DEF FanInv
  <2>. QED  BY <2>1, <2>2, <2>3
<1>3. CASE EmitDone
  <2>1. /\ bpc = "emit" /\ bpc' = "fan" /\ fan' = fan
        /\ logged' = logged \cup {<<fan.name, fan.data>>}
    BY <1>3 DEF EmitDone
  <2>. QED  BY <1>0, <1>n, <2>1 DEF FanInv
<1>4. CASE send_data
  <2>. DEFINE i == Lowest(fan.todo)
  <2>1. /\ bpc = "fan" /\ bpc' = "send"
        /\ fan' = IF fan.todo = {i} THEN NoFan ELSE [fan EXCEPT !.todo = @ \ {i}]
    BY <1>4 DEF send_data, Send
  <2>. HIDE DEF i
  <2>2. CASE fan' = NoFan
    BY <2>1, <2>2 DEF NoFan, FanInv
  <2>3. CASE fan' = [fan EXCEPT !.todo = @ \ {i}]
    <3>1. /\ fan'.name = fan.name /\ fan'.data = fan.data /\ fan'.todo \subseteq fan.todo
      BY <1>t, <2>3
    <3>. QED  BY <1>0, <1>n, <1>l, <2>1, <3>1 DEF FanInv
  <2>. QED  BY <2>1, <2>2, <2>3
<1>5. CASE NoSubscriber
  BY <1>5 DEF NoSubscriber, NoFan, FanInv
<1>. QED  BY <1>1, <1>2, <1>3, <1>4, <1>5, FanSteps

-----------------------------------------------------------------------------
(* What is on its way. *)

\* send_data's message is for a reader of the fan-out's topic, and in the log.
LEMMA SentOnTopic ==
    ASSUME TypeInv, DataInv, send_data
    PROVE  /\ OnTopic(datareaders, topics, out'.msg, out'.to)
           /\ Shown(out'.msg, logged, broker_quiet)
<1>. DEFINE i == Lowest(fan.todo)
<1>1. fan.todo # {} /\ fan.todo \in SUBSET Nat /\ bpc = "fan"
  BY DEF TypeInv, TypeOK, send_data
<1>2. i \in fan.todo
  BY <1>1, LowestInSet
<1>3. /\ out'.to = datareaders[i].session /\ out'.msg.id = datareaders[i].id
      /\ out'.msg.data = fan.data
  BY DEF send_data, Send
<1>. HIDE DEF i
<1>4. i \in DOMAIN datareaders /\ datareaders[i] # Unused
  BY <1>2 DEF TypeInv, FanOK
<1>5. /\ Named(topics, datareaders[i].session, datareaders[i].topic, fan.name)
      /\ fan.name = fan.data.topic
      /\ LogDevice /\ ~broker_quiet => <<fan.name, fan.data>> \in logged
  BY <1>1, <1>2 DEF DataInv, FanInv
<1>6. OnTopic(datareaders, topics, out'.msg, out'.to)
  BY <1>3, <1>4, <1>5 DEF OnTopic
<1>7. Shown(out'.msg, logged, broker_quiet)
  BY <1>3, <1>5 DEF Shown
<1>. QED  BY <1>6, <1>7

\* Every step keeps what is on its way on its topic and in the log.
LEMMA OnWayStep ==
    ASSUME HonestClients, TypeInv, TypeInv', DataInv, [Next]_vars
    PROVE  OnWayInv'
<1>. DEFINE Good(m, s)  == OnTopic(datareaders, topics, m, s) /\ Shown(m, logged, broker_quiet)
            Good1(m, s) == /\ OnTopic(datareaders', topics', m, s)
                           /\ Shown(m, logged', broker_quiet')
<1>0. broker_to_rmw \in [Sessions -> Seq(OutMsg)]
  BY DEF TypeInv, TypeOK
<1>1. \A m, s : Good(m, s) => Good1(m, s)
  <2>1. TablesAsked /\ Known(body, cur.idx)
    BY DEF DataInv, KnownInv
  <2>2. \A m, s : OnTopic(datareaders, topics, m, s) => OnTopic(datareaders', topics', m, s)
    BY <2>1, OnTopicStays
  <2>3. \A m : Shown(m, logged, broker_quiet) => Shown(m, logged', broker_quiet')
    BY LogGrows DEF Shown
  <2>. QED  BY <2>2, <2>3
<1>2. /\ \A s \in Sessions : \A i \in 1 .. Len(broker_to_rmw[s]) : Good(broker_to_rmw[s][i], s)
      /\ bpc = "send" => Good(out.msg, out.to)
  BY DEF DataInv, OnWayInv
<1>3. ASSUME NEW m, NEW s, m.sub # "DATA" PROVE Good1(m, s)
  BY <1>3 DEF OnTopic, Shown
<1>4. send_data => Good(out'.msg, out'.to)
  BY SentOnTopic
<1>. SUFFICES /\ \A s \in Sessions : \A i \in 1 .. Len(broker_to_rmw'[s]) :
                    Good1(broker_to_rmw'[s][i], s)
              /\ bpc' = "send" => Good1(out'.msg, out'.to)
  BY DEF OnWayInv
<1>. HIDE DEF Good, Good1
<1>5. CASE UNCHANGED vars
  BY <1>1, <1>2, <1>5 DEF vars, transportVars, threadVars
<1>6. CASE Next
  <2>1. ASSUME NEW s \in Sessions, NEW i \in 1 .. Len(broker_to_rmw'[s])
        PROVE  Good1(broker_to_rmw'[s][i], s)
    <3>1. CASE broker_to_rmw'[s] = broker_to_rmw[s]
      BY <1>1, <1>2, <2>1, <3>1
    <3>2. CASE broker_to_rmw'[s] = <<>>
      BY <2>1, <3>2
    <3>3. CASE broker_to_rmw[s] # <<>> /\ broker_to_rmw'[s] = Tail(broker_to_rmw[s])
      <4>1. /\ i + 1 \in 1 .. Len(broker_to_rmw[s])
            /\ broker_to_rmw'[s][i] = broker_to_rmw[s][i + 1]
        BY <1>0, <2>1, <3>3, TailItems
      <4>. QED  BY <1>1, <1>2, <4>1
    <3>4. CASE /\ bpc = "send" /\ s = out.to
               /\ broker_to_rmw'[s] = Append(broker_to_rmw[s], out.msg)
      <4>1. out.msg \in OutMsg
        BY <3>4, ThreadTypes
      <4>2. \/ i \in 1 .. Len(broker_to_rmw[s]) /\ broker_to_rmw'[s][i] = broker_to_rmw[s][i]
            \/ broker_to_rmw'[s][i] = out.msg
        BY <1>0, <2>1, <3>4, <4>1, AppendItems
      <4>. QED  BY <1>1, <1>2, <3>4, <4>2
    <3>. QED
      BY <1>0, <1>6, <3>1, <3>2, <3>3, <3>4, RepliesStep, ThreadTypes
         DEF OpenPurgeIncoming, ReadReply, SendQueued
  <2>2. ASSUME bpc' = "send" PROVE Good1(out'.msg, out'.to)
    BY <1>1, <1>2, <1>3, <1>4, <1>6, <2>2, ReplyStep
  <2>. QED  BY <2>1, <2>2
<1>. QED  BY <1>5, <1>6

\* At the start nothing is on its way.
LEMMA DataInit == Init => DataInv
<1>. SUFFICES ASSUME Init PROVE DataInv
  OBVIOUS
<1>1. KnownInv
  BY DEF Init, TransportInit, KnownInv, Known
<1>2. TablesAsked
  BY DEF Init, TablesAsked
<1>3. FanInv
  BY DEF Init, NoFan, FanInv
<1>4. OnWayInv
  BY DEF Init, TransportInit, OnWayInv
<1>. QED  BY <1>1, <1>2, <1>3, <1>4 DEF DataInv

\* If the clients label what they publish with the topic they gave the writer, a
\* subscriber gets only what was published on its own topic, and nothing that the
\* log has not shown before: creations, other sessions' topics of the same ids,
\* blocking and failing sends and reopened transports in between change nothing.
THEOREM DataAsPublished == HonestClients => (Spec => []DeliveredAsPublished)
<1>. SUFFICES ASSUME HonestClients PROVE Spec => []DeliveredAsPublished
  OBVIOUS
<1>1. Init => DataInv
  BY DataInit
<1>2. TypeInv /\ TypeInv' /\ DataInv /\ [Next]_vars => DataInv'
  <2>. SUFFICES ASSUME TypeInv, TypeInv', DataInv, [Next]_vars PROVE DataInv'
    OBVIOUS
  <2>1. KnownInv'
    BY KnownStep DEF DataInv
  <2>2. TablesAsked'
    BY EntriesStay DEF DataInv, KnownInv
  <2>3. FanInv' /\ OnWayInv'
    BY FanStep, OnWayStep
  <2>. QED  BY <2>1, <2>2, <2>3 DEF DataInv
<1>3. Spec => []TypeInv
  BY TypeCorrect DEF TypeInv
<1>4. TypeInv /\ DataInv => DeliveredAsPublished
  <2>. SUFFICES ASSUME TypeInv, DataInv PROVE DeliveredAsPublished
    OBVIOUS
  <2>1. ASSUME NEW s \in Sessions, NEW i \in DataTo(s)
        PROVE  /\ OnTopic(datareaders, topics, InFlight(s)[i], s)
               /\ Shown(InFlight(s)[i], logged, broker_quiet)
               /\ InFlight(s)[i].sub = "DATA"
    <3>1. i \in DOMAIN InFlight(s) /\ InFlight(s)[i].sub = "DATA"
      BY DEF DataTo
    <3>. QED  BY <3>1, InFlightItems DEF DataInv, OnWayInv
  <2>2. TopicIsolation
    BY <2>1 DEF TopicIsolation, OnTopic, Named
  <2>3. LoggedBeforeDelivered
    BY <2>1 DEF LoggedBeforeDelivered, Shown
  <2>. QED  BY <2>2, <2>3 DEF DeliveredAsPublished
<1>. QED  BY <1>1, <1>2, <1>3, <1>4, PTL DEF Spec

-----------------------------------------------------------------------------
(* The numbers of the reliable stream. *)

\* The submessages whose answer is on the reliable stream or that let others' samples in.
Asks(subs) == \E i \in 1 .. Len(subs) : subs[i].sub \notin Control
Joins(subs) == Has(subs, "CREATE_CLIENT")

\* The session's counter is in use, or may come to be without the client.
Touched(s) == \/ sessions[s].seq_rel > 0
              \/ \E r \in DOMAIN datareaders : datareaders[r] # Unused /\ datareaders[r].session = s

\* No CREATE_CLIENT of the client is on its way.
NoJoin(s) == /\ \A i \in 1 .. Len(rmw_to_broker[s]) : ~Joins(rmw_to_broker[s][i].body)
             /\ cur.idx = s => ~Joins(body)

\* A queue in which no CREATE_CLIENT comes with or behind a request.
JoinsFirst(q) == \A i, j \in 1 .. Len(q) : i <= j /\ Asks(q[i].body) => ~Joins(q[j].body)

\* One life of a client: it joins before it asks.
OnceInv(s) ==
    /\ cst[s] = "closed" => key[s] = 0
    /\ cst[s] \notin {"closed", "opening"} => key[s] >= 1
    /\ cst[s] # "up" => /\ ~Touched(s) /\ (cur.idx = s => ~Asks(body))
                        /\ \A i \in 1 .. Len(rmw_to_broker[s]) : ~Asks(rmw_to_broker[s][i].body)
    /\ JoinsFirst(rmw_to_broker[s])
    /\ cur.idx = s /\ Asks(body) => NoJoin(s)
    /\ Touched(s) => NoJoin(s)

\* What is on its way has numbers that were given out, in their order.
Numbered(q, n) ==
    /\ \A i \in 1 .. Len(q) : q[i].hdr.stream = STREAM_THRESH_REL => q[i].hdr.seq < n
    /\ \A i, j \in 1 .. Len(q) : /\ i < j /\ q[i].hdr.stream = STREAM_THRESH_REL
                                 /\ q[j].hdr.stream = STREAM_THRESH_REL
                                 => q[i].hdr.seq < q[j].hdr.seq

OrderInv == \A s \in Sessions : OnceInv(s) /\ Numbered(InFlight(s), sessions[s].seq_rel)

\* The invariant at the start.
LEMMA OrderInit == Init => OrderInv
<1>. SUFFICES ASSUME Init, NEW s \in Sessions
              PROVE  OnceInv(s) /\ Numbered(InFlight(s), sessions[s].seq_rel)
  BY DEF OrderInv
<1>1. /\ rmw_to_broker[s] = <<>> /\ broker_to_rmw[s] = <<>> /\ body = <<>> /\ bpc = "poll"
      /\ cst[s] = "closed" /\ key[s] = 0 /\ sessions[s].seq_rel = 0
      /\ \A r \in DOMAIN datareaders : datareaders[r] = Unused
  BY DEF Init, TransportInit, NoSession
<1>2. ~Touched(s)
  BY <1>1 DEF Touched
<1>3. OnceInv(s)
  BY <1>1, <1>2 DEF OnceInv, NoJoin, JoinsFirst, Asks, Joins, Has
<1>. QED  BY <1>1, <1>3 DEF Numbered, InFlight

\* A client that neither opens nor comes up.
Steady(s) == \/ cst'[s] = cst[s]
             \/ /\ cst[s] \notin {"closed", "opening", "up"}
                /\ cst'[s] \notin {"closed", "opening", "up"}

\* A client about which nothing changes but that less of a message is left.
LEMMA OnceFrame ==
    ASSUME NEW s \in Sessions, OnceInv(s), Steady(s), key'[s] = key[s],
           rmw_to_broker'[s] = rmw_to_broker[s],
           cur'.idx = s => /\ cur.idx = s
                           /\ Asks(body') => Asks(body)
                           /\ Joins(body') => Joins(body),
           Touched(s)' => Touched(s) \/ (cst[s] = "up" /\ NoJoin(s))
    PROVE  OnceInv(s)'
<1>1. NoJoin(s) => NoJoin(s)'
  BY DEF NoJoin
<1>2. JoinsFirst(rmw_to_broker'[s])
  BY DEF OnceInv
<1>3. cst'[s] # "up" => /\ ~Touched(s)' /\ (cur'.idx = s => ~Asks(body'))
                       /\ \A i \in 1 .. Len(rmw_to_broker'[s]) : ~Asks(rmw_to_broker'[s][i].body)
  BY DEF OnceInv, Steady
<1>4. cur'.idx = s /\ Asks(body') => NoJoin(s)'
  BY <1>1 DEF OnceInv
<1>5. Touched(s)' => NoJoin(s)'
  BY <1>1 DEF OnceInv
<1>6. /\ cst'[s] = "closed" => key'[s] = 0
      /\ cst'[s] \notin {"closed", "opening"} => key'[s] >= 1
  BY DEF OnceInv, Steady
<1>. QED  BY <1>2, <1>3, <1>4, <1>5, <1>6 DEF OnceInv

\* The rest of a body asks and joins no more than the body.
LEMMA RestAsks ==
    ASSUME NEW b \in Seq(Submessage), b # <<>>
    PROVE  (Asks(Tail(b)) => Asks(b)) /\ (Joins(Tail(b)) => Joins(b))
<1>1. \A i \in 1 .. Len(Tail(b)) : i + 1 \in 1 .. Len(b) /\ Tail(b)[i] = b[i + 1]
  BY TailItems
<1>. QED  BY <1>1 DEF Asks, Joins, Has

\* A message is stored behind the others.
LEMMA JoinsFirstPut ==
    ASSUME NEW q \in Seq(InMsg), NEW m \in InMsg, JoinsFirst(q),
           Joins(m.body) => ~Asks(m.body) /\ \A i \in 1 .. Len(q) : ~Asks(q[i].body)
    PROVE  JoinsFirst(Append(q, m))
<1>1. \A i \in 1 .. Len(Append(q, m)) : \/ i \in 1 .. Len(q) /\ Append(q, m)[i] = q[i]
                                        \/ i = Len(q) + 1 /\ Append(q, m)[i] = m
  BY AppendItems
<1>2. Len(q) \in Nat
  OBVIOUS
<1>. SUFFICES ASSUME NEW i \in 1 .. Len(Append(q, m)), NEW j \in 1 .. Len(Append(q, m)), i <= j,
                     Asks(Append(q, m)[i].body)
              PROVE  ~Joins(Append(q, m)[j].body)
  BY DEF JoinsFirst
<1>3. CASE j \in 1 .. Len(q)
  <2>1. i \in 1 .. Len(q) /\ Append(q, m)[i] = q[i] /\ Append(q, m)[j] = q[j]
    BY <1>1, <1>2, <1>3
  <2>. QED  BY <1>3, <2>1 DEF JoinsFirst
<1>4. CASE j = Len(q) + 1 /\ Append(q, m)[j] = m
  BY <1>1, <1>4
<1>. QED  BY <1>1, <1>3, <1>4

\* The oldest message is taken.
LEMMA JoinsFirstGet ==
    ASSUME NEW q \in Seq(InMsg), q # <<>>, JoinsFirst(q)
    PROVE  JoinsFirst(Tail(q))
<1>1. \A i \in 1 .. Len(Tail(q)) : i + 1 \in 1 .. Len(q) /\ Tail(q)[i] = q[i + 1]
  BY TailItems
<1>2. Tail(q) \in Seq(InMsg) /\ Len(Tail(q)) \in Nat
  OBVIOUS
<1>. SUFFICES ASSUME NEW i \in 1 .. Len(Tail(q)), NEW j \in 1 .. Len(Tail(q)), i <= j, Asks(Tail(q)[i].body)
              PROVE  ~Joins(Tail(q)[j].body)
  BY DEF JoinsFirst
<1>3. i + 1 <= j + 1
  BY <1>2
<1>. QED  BY <1>1, <1>3 DEF JoinsFirst

\* loopback_write of a message that joins, of one that asks, and of one that does neither.
LEMMA OnceSends ==
    ASSUME TypeInv, NEW s \in Sessions, \A t \in Sessions : OnceInv(t),
           NEW sid \in SessionIds, NEW stream \in StreamIds, NEW subs \in Seq(Submessage),
           ClientSends(s, sid, stream, subs), NEW st \in ClientStates,
           cst' = [cst EXCEPT ![s] = st], Steady(s), cst[s] \notin {"closed", "opening"},
           Joins(subs) => cst[s] # "up" /\ ~Asks(subs),
           Asks(subs) => cst[s] = "up"
    PROVE  \A t \in Sessions : OnceInv(t)'
<1>. DEFINE h == put_msg_header(sid, stream,
                      IF stream = STREAM_THRESH_REL THEN cseq[s] ELSE 0, key[s])
            m == [hdr |-> h, body |-> subs]
<1>1. /\ WriteQueued(s, m) \/ WriteDropped(s)
      /\ UNCHANGED <<key, sessions, datareaders, cur, body>>
  BY DEF ClientSends, brokerVars, threadVars, tableVars
<1>2. m \in InMsg /\ m.body = subs
  <2>1. h \in Header
    BY LifeTypes, HeaderType, ConstantTypes DEF Keys
  <2>. QED  BY <2>1 DEF InMsg
<1>. HIDE DEF m
<1>0. rmw_to_broker \in [Sessions -> Seq(InMsg)] /\ cst \in [Sessions -> ClientStates]
  BY DEF TypeInv, TypeOK
<1>s. \A t \in Sessions : Steady(t)
  BY <1>0 DEF Steady
<1>3. \A t \in Sessions : Touched(t)' <=> Touched(t)
  BY <1>1 DEF Touched
<1>. SUFFICES ASSUME NEW t \in Sessions PROVE OnceInv(t)'
  OBVIOUS
<1>4. CASE rmw_to_broker'[t] = rmw_to_broker[t]
  BY <1>1, <1>3, <1>4, <1>s, OnceFrame
<1>5. CASE t = s /\ rmw_to_broker'[s] = Append(rmw_to_broker[s], m)
  <2>. DEFINE q == rmw_to_broker[s]
  <2>0. q \in Seq(InMsg) /\ OnceInv(s)
    BY <1>0
  <2>1. \A i \in 1 .. Len(Append(q, m)) : \/ i \in 1 .. Len(q) /\ Append(q, m)[i] = q[i]
                                          \/ Append(q, m)[i] = m
    BY <1>2, <2>0, AppendItems
  <2>2. cst[s] # "up" => ~Touched(s) /\ (cur.idx = s => ~Asks(body)) /\ \A i \in 1 .. Len(q) : ~Asks(q[i].body)
    BY <2>0 DEF OnceInv
  <2>3. JoinsFirst(Append(q, m))
    BY <1>2, <2>0, <2>2, JoinsFirstPut DEF OnceInv
  <2>4. cst[s] # "up" => \A i \in 1 .. Len(Append(q, m)) : ~Asks(Append(q, m)[i].body)
    BY <1>2, <2>1, <2>2
  <2>5. NoJoin(s) /\ ~Joins(subs) => NoJoin(s)'
    <3>1. SUFFICES ASSUME NoJoin(s), ~Joins(subs) PROVE NoJoin(s)'
      OBVIOUS
    <3>2. \A i \in 1 .. Len(Append(q, m)) : ~Joins(Append(q, m)[i].body)
      BY <1>2, <2>1, <3>1 DEF NoJoin
    <3>. QED  BY <1>1, <1>5, <3>1, <3>2 DEF NoJoin
  <2>6. Touched(s) => NoJoin(s)'
    BY <2>0, <2>2, <2>5 DEF OnceInv
  <2>7. cur.idx = s /\ Asks(body) => NoJoin(s)'
    BY <2>0, <2>2, <2>5 DEF OnceInv
  <2>8. /\ cst[s] = "closed" => key[s] = 0
        /\ cst[s] \notin {"closed", "opening"} => key[s] >= 1
    BY <2>0 DEF OnceInv
  <2>. HIDE DEF q
  <2>9. JoinsFirst(rmw_to_broker'[s]) /\ (cst[s] # "up" => \A i \in 1 .. Len(rmw_to_broker'[s]) : ~Asks(rmw_to_broker'[s][i].body))
    BY <1>5, <2>3, <2>4 DEF q
  <2>10. /\ cst'[s] = "up" <=> cst[s] = "up"
         /\ cst'[s] \notin {"closed", "opening"} /\ key[s] >= 1
    BY <2>8 DEF Steady
  <2>. QED  BY <1>1, <1>3, <1>5, <2>2, <2>6, <2>7, <2>9, <2>10 DEF OnceInv
<1>. QED  BY <1>0, <1>1, <1>4, <1>5 DEF WriteQueued, WriteDropped

\* The four ways a client sends.
LEMMA OnceWrites ==
    ASSUME ProperClients, TypeInv, NEW s \in Sessions, \A t \in Sessions : OnceInv(t),
           \/ ClientCreatesSession(s) \/ ClientPings(s)
           \/ ClientRequests(s) \/ ClientHeartbeat(s)
    PROVE  \A t \in Sessions : OnceInv(t)'
<1>. cst \in [Sessions -> ClientStates]
  BY DEF TypeInv, TypeOK
<1>0. ASSUME NEW b \in Submessage, b.sub \in Control
      PROVE  <<b>> \in Seq(Submessage) /\ ~Asks(<<b>>) /\ (Joins(<<b>>) => b.sub = "CREATE_CLIENT")
  <2>1. <<b>> \in Seq(Submessage) /\ Len(<<b>>) = 1 /\ <<b>>[1] = b
    OBVIOUS
  <2>. QED  BY <1>0, <2>1 DEF Asks, Joins, Has
<1>1. CASE ClientCreatesSession(s)
  <2>. DEFINE b == Join(key[s])
  <2>1. b \in Submessage /\ b.sub \in Control
    BY LifeTypes, ConstantTypes DEF Submessage, Control, Keys, Join
  <2>2. ClientSends(s, MaskedSid, STREAM_NONE, <<b>>) /\ cst[s] # "up"
    BY <1>1 DEF ClientCreatesSession
  <2>4. /\ "joining" \in ClientStates /\ cst' = [cst EXCEPT ![s] = "joining"] /\ Steady(s)
        /\ cst[s] \notin {"closed", "opening"}
    BY <1>1 DEF ClientCreatesSession, ClientStates, Steady
  <2>. HIDE DEF b
  <2>3. <<b>> \in Seq(Submessage) /\ ~Asks(<<b>>)
    BY <1>0, <2>1
  <2>. QED  BY <2>2, <2>3, <2>4, OnceSends, ConstantTypes
<1>2. CASE ClientPings(s)
  <2>1. PICK id \in OtherIds :
          ClientSends(s, SESSION_NO_KEY, STREAM_NONE, <<[sub |-> "GET_INFO", id |-> id]>>)
    BY <1>2 DEF ClientPings
  <2>. DEFINE b == [sub |-> "GET_INFO", id |-> id]
  <2>2. b \in Submessage /\ b.sub \in Control /\ b.sub # "CREATE_CLIENT"
    BY DEF Submessage, ObjectIds, Control
  <2>3. ClientSends(s, SESSION_NO_KEY, STREAM_NONE, <<b>>)
    BY <2>1
  <2>. HIDE DEF b
  <2>4. <<b>> \in Seq(Submessage) /\ ~Asks(<<b>>) /\ ~Joins(<<b>>)
    BY <1>0, <2>2
  <2>5. PICK st \in ClientStates : /\ cst' = [cst EXCEPT ![s] = st] /\ Steady(s)
                                   /\ cst[s] \notin {"closed", "opening"}
    <3>1. CASE cst[s] = "opened"
      <4>1. /\ "pinging" \in ClientStates /\ cst' = [cst EXCEPT ![s] = "pinging"] /\ Steady(s)
            /\ cst[s] \notin {"closed", "opening"}
        BY <1>2, <3>1 DEF ClientPings, ClientStates, Steady
      <4>. QED  BY <4>1
    <3>2. CASE cst[s] # "opened"
      <4>1. /\ cst' = [cst EXCEPT ![s] = cst[s]] /\ Steady(s) /\ cst[s] \notin {"closed", "opening"}
        BY <1>2, <3>2 DEF ClientPings, Steady
      <4>. QED  BY <4>1
    <3>. QED  BY <3>1, <3>2
  <2>. QED  BY <2>3, <2>4, <2>5, OnceSends, ConstantTypes
<1>3. CASE ClientRequests(s)
  <2>1. PICK b \in ClientBody[s] : ClientSends(s, RealSid, b.stream, b.body)
    BY <1>3 DEF ClientRequests
  <2>2. b.stream \in StreamIds /\ b.body \in Seq(Submessage) /\ cst[s] = "up"
    BY <1>3, ClientBodyAssumption DEF ClientRequests
  <2>3. ~Joins(b.body)
    <3>1. \A i \in 1 .. Len(b.body) : b.body[i] \in Asked(s)
      BY <2>2 DEF Asked
    <3>. QED  BY <3>1 DEF Joins, Has, ProperClients
  <2>4. /\ cst' = [cst EXCEPT ![s] = cst[s]] /\ Steady(s) /\ cst[s] \notin {"closed", "opening"}
    BY <1>3 DEF ClientRequests, Steady
  <2>. QED  BY <2>1, <2>2, <2>3, <2>4, OnceSends, ConstantTypes
<1>4. CASE ClientHeartbeat(s)
  <2>. DEFINE last == (cseq[s] + SeqMod - 1) % SeqMod
              b == [sub |-> "HEARTBEAT", last |-> last]
  <2>1. last \in SeqNums
    BY LifeTypes, BrokerAssumption DEF SeqNums
  <2>2. ClientSends(s, RealSid, STREAM_NONE, <<b>>)
    BY <1>4 DEF ClientHeartbeat
  <2>. HIDE DEF last
  <2>3. b \in Submessage /\ b.sub \in Control /\ b.sub # "CREATE_CLIENT"
    BY <2>1 DEF Submessage, Control
  <2>. HIDE DEF b
  <2>4. <<b>> \in Seq(Submessage) /\ ~Asks(<<b>>) /\ ~Joins(<<b>>)
    BY <1>0, <2>3
  <2>5. /\ cst' = [cst EXCEPT ![s] = cst[s]] /\ Steady(s) /\ cst[s] \notin {"closed", "opening"}
    BY <1>4 DEF ClientHeartbeat, Steady
  <2>. QED  BY <2>2, <2>4, <2>5, OnceSends, ConstantTypes
<1>. QED  BY <1>1, <1>2, <1>3, <1>4

\* A client that joins, reads or opens.
LEMMA OnceClient ==
    ASSUME OpensOnce, TypeInv, NEW s \in Sessions, \A t \in Sessions : OnceInv(t),
           ClientRead(s) \/ ClientOpens(s) \/ ClientOpened(s)
    PROVE  \A t \in Sessions : OnceInv(t)'
<1>0. /\ cst \in [Sessions -> ClientStates] /\ key \in [Sessions -> Nat]
      /\ rmw_to_broker \in [Sessions -> Seq(InMsg)]
  BY DEF TypeInv, TypeOK, Keys
<1>1. UNCHANGED <<sessions, datareaders, cur, body>>
  BY DEF ClientRead, ClientOpens, ClientOpened, brokerVars, threadVars, tableVars
<1>2. \A t \in Sessions : Touched(t)' <=> Touched(t)
  BY <1>1 DEF Touched
<1>. SUFFICES ASSUME NEW t \in Sessions PROVE OnceInv(t)'
  OBVIOUS
<1>3. CASE t # s
  <2>1. cst'[t] = cst[t] /\ key'[t] = key[t] /\ rmw_to_broker'[t] = rmw_to_broker[t]
    BY <1>0, <1>3 DEF ClientRead, ClientOpens, ClientOpened, OpenPurgeOutgoing
  <2>. QED  BY <1>1, <1>2, <2>1, OnceFrame DEF Steady
<1>4. CASE t = s /\ ClientRead(s)
  <2>1. /\ cst'[s] = cst[s] \/ (cst[s] = "joining" /\ cst'[s] = "up")
        /\ key' = key /\ rmw_to_broker' = rmw_to_broker
    BY <1>0, <1>4 DEF ClientRead
  <2>2. CASE cst'[s] = cst[s]
    BY <1>1, <1>2, <1>4, <2>1, <2>2, OnceFrame DEF Steady
  <2>3. CASE cst[s] = "joining" /\ cst'[s] = "up"
    <3>1. NoJoin(s)' <=> NoJoin(s)
      BY <1>1, <2>1 DEF NoJoin
    <3>. QED  BY <1>1, <1>2, <1>4, <2>1, <2>3, <3>1 DEF OnceInv
  <2>. QED  BY <2>1, <2>2, <2>3
<1>5. CASE t = s /\ ClientOpens(s)
  <2>1. /\ cst[s] # "opening" /\ key[s] < MaxOpens[s] /\ cst'[s] = "opening"
        /\ key' = key /\ rmw_to_broker'[s] = <<>>
    BY <1>0, <1>5 DEF ClientOpens, OpenPurgeOutgoing
  <2>2. key[s] = 0
    BY <1>0, <2>1, BrokerAssumption DEF OpensOnce
  <2>3. cst[s] = "closed"
    <3>1. cst[s] \in ClientStates
      BY <1>0
    <3>2. cst[s] \notin {"closed", "opening"} => key[s] >= 1
      BY DEF OnceInv
    <3>3. ~(key[s] >= 1)
      BY <2>2
    <3>. QED  BY <2>1, <3>1, <3>2, <3>3
  <2>4. ~Touched(s) /\ (cur.idx = s => ~Asks(body))
    BY <2>3 DEF OnceInv
  <2>5. JoinsFirst(rmw_to_broker'[s]) /\ \A i \in 1 .. Len(rmw_to_broker'[s]) : ~Asks(rmw_to_broker'[s][i].body)
    BY <2>1 DEF JoinsFirst
  <2>. QED  BY <1>1, <1>2, <1>5, <2>1, <2>4, <2>5 DEF OnceInv
<1>6. CASE t = s /\ ClientOpened(s)
  <2>1. /\ cst[s] = "opening" /\ cst'[s] = "opened" /\ key'[s] = key[s] + 1 /\ rmw_to_broker' = rmw_to_broker
    BY <1>0, <1>6 DEF ClientOpened
  <2>2. key'[s] >= 1
    BY <1>0, <2>1
  <2>3. NoJoin(s)' <=> NoJoin(s)
    BY <1>1, <2>1 DEF NoJoin
  <2>. QED  BY <1>1, <1>2, <1>6, <2>1, <2>2, <2>3 DEF OnceInv
<1>. QED  BY <1>3, <1>4, <1>5, <1>6

\* A message is taken.
LEMMA OnceTake ==
    ASSUME TypeInv, NEW s \in Sessions, \A t \in Sessions : OnceInv(t), BrokerTake(s)
    PROVE  \A t \in Sessions : OnceInv(t)'
<1>. DEFINE q == rmw_to_broker[s]
            m == Head(q)
<1>0. rmw_to_broker \in [Sessions -> Seq(InMsg)] /\ cur.idx \in Sessions
  BY DEF TypeInv, TypeOK
<1>1. /\ q # <<>> /\ rmw_to_broker' = [rmw_to_broker EXCEPT ![s] = Tail(@)]
      /\ UNCHANGED <<cst, key, sessions, datareaders>>
      /\ UNCHANGED <<cur, body>> \/ (cur'.idx = s /\ body' = m.body)
  BY DEF BrokerTake, ScanTake, staticVars, clientVars, tableVars
<1>2. \A t \in Sessions : Touched(t)' <=> Touched(t)
  BY <1>1 DEF Touched
<1>. SUFFICES ASSUME NEW t \in Sessions PROVE OnceInv(t)'
  OBVIOUS
<1>3. CASE t # s
  <2>1. cst'[t] = cst[t] /\ key'[t] = key[t] /\ rmw_to_broker'[t] = rmw_to_broker[t]
    BY <1>0, <1>1, <1>3
  <2>2. cur'.idx = t => cur' = cur /\ body' = body
    BY <1>1, <1>3
  <2>. QED  BY <1>2, <2>1, <2>2, OnceFrame DEF Steady
<1>4. CASE t = s
  <2>0. q \in Seq(InMsg) /\ OnceInv(s) /\ rmw_to_broker'[s] = Tail(q)
    BY <1>0, <1>1
  <2>1. /\ 1 \in 1 .. Len(q) /\ m = q[1]
        /\ \A i \in 1 .. Len(Tail(q)) : i + 1 \in 1 .. Len(q) /\ Tail(q)[i] = q[i + 1]
    BY <1>1, <2>0, TailItems
  <2>2. JoinsFirst(q)
    BY <2>0 DEF OnceInv
  <2>3. JoinsFirst(Tail(q))
    BY <1>1, <2>0, <2>2, JoinsFirstGet
  <2>4. cst[s] # "up" => /\ ~Touched(s) /\ (cur'.idx = s => ~Asks(body'))
                         /\ \A i \in 1 .. Len(Tail(q)) : ~Asks(Tail(q)[i].body)
    BY <1>1, <2>0, <2>1 DEF OnceInv
  <2>5. NoJoin(s) => NoJoin(s)'
    <3>1. SUFFICES ASSUME NoJoin(s) PROVE NoJoin(s)'
      OBVIOUS
    <3>2. \A i \in 1 .. Len(q) : ~Joins(q[i].body)
      BY <3>1 DEF NoJoin
    <3>3. \A i \in 1 .. Len(Tail(q)) : ~Joins(Tail(q)[i].body)
      BY <2>1, <3>2
    <3>4. cur'.idx = s => ~Joins(body')
      BY <1>1, <2>1, <3>1, <3>2 DEF NoJoin
    <3>. QED  BY <2>0, <3>3, <3>4 DEF NoJoin
  <2>6. ASSUME cur'.idx = s, Asks(body') PROVE NoJoin(s)'
    <3>1. CASE UNCHANGED <<cur, body>>
      BY <2>0, <2>5, <2>6, <3>1 DEF OnceInv
    <3>2. CASE cur'.idx = s /\ body' = m.body
      <4>1. \A i \in 1 .. Len(q) : 1 <= i
        OBVIOUS
      <4>2. \A i \in 1 .. Len(q) : ~Joins(q[i].body)
        BY <2>1, <2>2, <2>6, <3>2, <4>1 DEF JoinsFirst
      <4>3. \A i \in 1 .. Len(Tail(q)) : ~Joins(Tail(q)[i].body)
        BY <2>1, <4>2
      <4>4. ~Joins(body')
        BY <2>1, <3>2, <4>2
      <4>. QED  BY <2>0, <4>3, <4>4 DEF NoJoin
    <3>. QED  BY <1>1, <3>1, <3>2
  <2>7. Touched(s) => NoJoin(s)'
    BY <2>0, <2>5 DEF OnceInv
  <2>. HIDE DEF q, m
  <2>8. /\ cst[s] = "closed" => key[s] = 0
        /\ cst[s] \notin {"closed", "opening"} => key[s] >= 1
    BY <2>0 DEF OnceInv
  <2>9. JoinsFirst(rmw_to_broker'[s]) /\ (cst[s] # "up" => \A i \in 1 .. Len(rmw_to_broker'[s]) : ~Asks(rmw_to_broker'[s][i].body))
    BY <2>0, <2>3, <2>4
  <2>. QED  BY <1>1, <1>2, <1>4, <2>4, <2>6, <2>7, <2>8, <2>9 DEF OnceInv
<1>. QED  BY <1>3, <1>4

\* A submessage that is not CREATE or DELETE has been handled, or there was none to handle.
LEMMA OnceQuiet ==
    ASSUME TypeInv, \A t \in Sessions : OnceInv(t), UNCHANGED <<cst, key, rmw_to_broker, datareaders>>,
           cur'.idx = cur.idx, body' = body \/ (body # <<>> /\ body' = Tail(body)),
           \A t \in Sessions : sessions'[t].seq_rel > 0 => Touched(t)
    PROVE  \A t \in Sessions : OnceInv(t)'
<1>1. (Asks(body') => Asks(body)) /\ (Joins(body') => Joins(body))
  BY RestAsks, ThreadTypes
<1>2. ASSUME NEW t \in Sessions PROVE Touched(t)' => Touched(t)
  BY DEF Touched
<1>. QED  BY <1>1, <1>2, OnceFrame DEF Steady

\* What next_seq_for does to the counter of the reliable stream.
LEMMA BumpedCounter ==
    ASSUME NEW ss \in SessionState, NEW stream \in StreamIds, ss.seq_rel < SeqMod - 1
    PROVE  /\ Bumped(ss, stream).seq_rel = IF stream = STREAM_THRESH_REL THEN ss.seq_rel + 1 ELSE ss.seq_rel
           /\ stream = STREAM_THRESH_REL => SeqFor(ss, stream) = ss.seq_rel
           /\ ss.seq_rel \in Nat
<1>1. ss.seq_rel \in Nat /\ SeqMod \in Nat
  BY BrokerAssumption DEF SessionState, SeqNums
<1>2. Inc(ss.seq_rel) = ss.seq_rel + 1
  BY <1>1, SmallNumbers
<1>3. stream \in {0, 1, 128}
  BY DEF StreamIds, STREAM_NONE, STREAM_THRESH_REL
<1>4. CASE stream = 0
  BY <1>1, <1>4 DEF Bumped, SeqFor, STREAM_NONE, STREAM_THRESH_REL, SessionState
<1>5. CASE stream = 1
  BY <1>1, <1>5 DEF Bumped, SeqFor, STREAM_NONE, STREAM_THRESH_REL, SessionState
<1>6. CASE stream = 128
  BY <1>1, <1>2, <1>6 DEF Bumped, SeqFor, STREAM_NONE, STREAM_THRESH_REL, SessionState
<1>. QED  BY <1>3, <1>4, <1>5, <1>6

\* The same of one session among all.
LEMMA BumpCounter ==
    ASSUME TypeInv, NumbersLeft, NEW t \in Sessions, NEW stream \in StreamIds,
           sessions' = [sessions EXCEPT ![t] = Bumped(@, stream)]
    PROVE  /\ \A s \in Sessions : s # t => sessions'[s].seq_rel = sessions[s].seq_rel
           /\ stream # STREAM_THRESH_REL => sessions'[t].seq_rel = sessions[t].seq_rel
           /\ stream = STREAM_THRESH_REL => /\ sessions'[t].seq_rel = sessions[t].seq_rel + 1
                                            /\ SeqFor(sessions[t], stream) = sessions[t].seq_rel
<1>1. sessions \in [Sessions -> SessionState]
  BY DEF TypeInv, TypeOK
<1>2. sessions'[t] = Bumped(sessions[t], stream) /\ \A s \in Sessions : s # t => sessions'[s] = sessions[s]
  BY <1>1
<1>3. sessions[t] \in SessionState /\ sessions[t].seq_rel < SeqMod - 1
  BY <1>1 DEF NumbersLeft
<1>. QED  BY <1>2, <1>3, BumpedCounter

\* The oldest reply is taken.
LEMMA NumberedGet ==
    ASSUME NEW q \in Seq(OutMsg), NEW n, q # <<>>, Numbered(q, n)
    PROVE  Numbered(Tail(q), n)
<1>1. \A i \in 1 .. Len(Tail(q)) : i + 1 \in 1 .. Len(q) /\ Tail(q)[i] = q[i + 1]
  BY TailItems
<1>2. \A i, j \in 1 .. Len(Tail(q)) : i < j => i + 1 < j + 1
  OBVIOUS
<1>. QED  BY <1>1, <1>2 DEF Numbered

\* The newest one is lost.
LEMMA NumberedLose ==
    ASSUME NEW q \in Seq(OutMsg), NEW m \in OutMsg, NEW n, Numbered(Append(q, m), n)
    PROVE  Numbered(q, n)
<1>1. \A i \in 1 .. Len(q) : i \in 1 .. Len(Append(q, m)) /\ Append(q, m)[i] = q[i]
  OBVIOUS
<1>. QED  BY <1>1 DEF Numbered

\* A reply is put behind the others: one without a number of the reliable stream, or
\* one with the next.
LEMMA NumberedPut ==
    ASSUME NEW q \in Seq(OutMsg), NEW m \in OutMsg, NEW n \in Nat, NEW n1 \in Nat, Numbered(q, n),
           \/ m.hdr.stream # STREAM_THRESH_REL /\ n1 = n
           \/ m.hdr.seq = n /\ n1 = n + 1
    PROVE  Numbered(Append(q, m), n1)
<1>1. \A i \in 1 .. Len(Append(q, m)) : \/ i \in 1 .. Len(q) /\ Append(q, m)[i] = q[i]
                                        \/ i = Len(q) + 1 /\ Append(q, m)[i] = m
  BY AppendItems
<1>2. Len(q) \in Nat
  OBVIOUS
<1>3. ASSUME NEW i \in 1 .. Len(Append(q, m)), Append(q, m)[i].hdr.stream = STREAM_THRESH_REL
      PROVE  Append(q, m)[i].hdr.seq < n1
  <2>1. CASE i \in 1 .. Len(q) /\ Append(q, m)[i] = q[i]
    <3>1. q[i].hdr.seq < n
      BY <1>3, <2>1 DEF Numbered
    <3>2. q[i].hdr.seq \in Nat
      <4>1. q[i] \in OutMsg
        BY <2>1
      <4>2. q[i].hdr \in Header
        BY <4>1, OutMsgFields
      <4>. QED  BY <4>2, BrokerAssumption DEF Header, SeqNums
    <3>. QED  BY <2>1, <3>1, <3>2
  <2>2. CASE Append(q, m)[i] = m
    BY <1>3, <2>2
  <2>. QED  BY <1>1, <2>1, <2>2
<1>4. ASSUME NEW i \in 1 .. Len(Append(q, m)), NEW j \in 1 .. Len(Append(q, m)), i < j,
             Append(q, m)[i].hdr.stream = STREAM_THRESH_REL, Append(q, m)[j].hdr.stream = STREAM_THRESH_REL
      PROVE  Append(q, m)[i].hdr.seq < Append(q, m)[j].hdr.seq
  <2>1. i \in 1 .. Len(q) /\ Append(q, m)[i] = q[i]
    BY <1>1, <1>2, <1>4
  <2>2. CASE j \in 1 .. Len(q) /\ Append(q, m)[j] = q[j]
    BY <1>4, <2>1, <2>2 DEF Numbered
  <2>3. CASE Append(q, m)[j] = m
    <3>1. q[i].hdr.seq < n
      BY <1>4, <2>1 DEF Numbered
    <3>. QED  BY <1>4, <2>1, <2>3, <3>1
  <2>. QED  BY <1>1, <2>2, <2>3
<1>. QED  BY <1>3, <1>4 DEF Numbered

\* The thread builds a reply.
LEMMA NumberedSend ==
    ASSUME TypeInv, TypeInv', \A s \in Sessions : Numbered(InFlight(s), sessions[s].seq_rel),
           bpc # "send", UNCHANGED broker_to_rmw, NEW t \in Sessions, NEW m, Send(t, m),
           \A s \in Sessions : s # t => sessions'[s].seq_rel = sessions[s].seq_rel,
           \/ m.hdr.stream # STREAM_THRESH_REL /\ sessions'[t].seq_rel = sessions[t].seq_rel
           \/ m.hdr.seq = sessions[t].seq_rel /\ sessions'[t].seq_rel = sessions[t].seq_rel + 1
    PROVE  \A s \in Sessions : Numbered(InFlight(s), sessions[s].seq_rel)'
<1>1. bpc' = "send" /\ out'.to = t /\ out'.msg = m
  BY DEF Send
<1>2. m \in OutMsg
  BY <1>1 DEF TypeInv, SendOK
<1>. SUFFICES ASSUME NEW s \in Sessions PROVE Numbered(InFlight(s), sessions[s].seq_rel)'
  OBVIOUS
<1>3. Numbered(broker_to_rmw[s], sessions[s].seq_rel) /\ broker_to_rmw[s] \in Seq(OutMsg)
  BY LifeTypes DEF InFlight
<1>4. sessions[s].seq_rel \in Nat /\ sessions'[s].seq_rel \in Nat
  <2>1. sessions \in [Sessions -> SessionState] /\ sessions' \in [Sessions -> SessionState]
    BY DEF TypeInv, TypeOK
  <2>2. \A ss \in SessionState : ss.seq_rel \in Nat
    BY BrokerAssumption DEF SessionState, SeqNums
  <2>. QED  BY <2>1, <2>2
<1>5. CASE s # t
  <2>1. InFlight(s)' = broker_to_rmw[s]
    BY <1>1, <1>5 DEF InFlight
  <2>. QED  BY <1>3, <1>5, <2>1
<1>6. CASE s = t
  <2>1. InFlight(s)' = Append(broker_to_rmw[s], m)
    BY <1>1, <1>6 DEF InFlight
  <2>2. Numbered(Append(broker_to_rmw[s], m), sessions'[s].seq_rel)
    BY <1>2, <1>3, <1>4, <1>6, NumberedPut
  <2>. QED  BY <2>1, <2>2
<1>. QED  BY <1>5, <1>6

\* Nothing happens to the replies.
LEMMA NumberedStays ==
    ASSUME \A s \in Sessions : Numbered(InFlight(s), sessions[s].seq_rel),
           UNCHANGED <<sessions, broker_to_rmw>>, bpc' = "send" \/ bpc = "send" => UNCHANGED <<bpc, out>>
    PROVE  \A s \in Sessions : Numbered(InFlight(s), sessions[s].seq_rel)'
<1>1. \A s \in Sessions : InFlight(s)' = InFlight(s)
  BY DEF InFlight
<1>. QED  BY <1>1

\* A client reads or opens.
LEMMA NumberedClient ==
    ASSUME TypeInv, \A s \in Sessions : Numbered(InFlight(s), sessions[s].seq_rel),
           NEW s \in Sessions, ClientRead(s) \/ ClientOpened(s)
    PROVE  \A t \in Sessions : Numbered(InFlight(t), sessions[t].seq_rel)'
<1>0. broker_to_rmw \in [Sessions -> Seq(OutMsg)] /\ (bpc = "send" => out.msg \in OutMsg)
  BY DEF TypeInv, TypeOK, SendOK
<1>1. UNCHANGED sessions
  BY DEF ClientRead, ClientOpened, brokerVars
<1>. SUFFICES ASSUME NEW t \in Sessions PROVE Numbered(InFlight(t)', sessions[t].seq_rel)
  BY <1>1
<1>2. Numbered(InFlight(t), sessions[t].seq_rel)
  OBVIOUS
<1>3. CASE ClientRead(s)
  <2>1. /\ UNCHANGED <<bpc, out>> /\ broker_to_rmw[s] # <<>>
        /\ broker_to_rmw' = [broker_to_rmw EXCEPT ![s] = Tail(@)]
    BY <1>3 DEF ClientRead, ReadReply, brokerVars, threadVars
  <2>2. CASE t # s
    <3>1. InFlight(t)' = InFlight(t)
      BY <1>0, <2>1, <2>2 DEF InFlight
    <3>. QED  BY <1>2, <3>1
  <2>3. CASE t = s
    <3>1. broker_to_rmw'[t] = Tail(broker_to_rmw[t])
      BY <1>0, <2>1, <2>3
    <3>2. CASE bpc = "send" /\ out.to = t
      <4>1. InFlight(t) = Append(broker_to_rmw[t], out.msg) /\ InFlight(t)' = Append(Tail(broker_to_rmw[t]), out.msg)
        BY <2>1, <3>1, <3>2 DEF InFlight
      <4>2. Append(Tail(broker_to_rmw[t]), out.msg) = Tail(Append(broker_to_rmw[t], out.msg)) /\ Append(broker_to_rmw[t], out.msg) # <<>>
        BY <1>0, <2>1, <2>3, <3>2, AppendTail
      <4>3. Append(broker_to_rmw[t], out.msg) \in Seq(OutMsg)
        BY <1>0, <3>2
      <4>4. Numbered(Append(broker_to_rmw[t], out.msg), sessions[t].seq_rel)
        BY <1>2, <4>1
      <4>5. Numbered(Tail(Append(broker_to_rmw[t], out.msg)), sessions[t].seq_rel)
        BY <4>2, <4>3, <4>4, NumberedGet
      <4>. QED  BY <4>1, <4>2, <4>5
    <3>3. CASE ~(bpc = "send" /\ out.to = t)
      <4>1. InFlight(t) = broker_to_rmw[t] /\ InFlight(t)' = Tail(broker_to_rmw[t])
        BY <2>1, <3>1, <3>3 DEF InFlight
      <4>2. Numbered(Tail(broker_to_rmw[t]), sessions[t].seq_rel)
        BY <1>0, <1>2, <2>1, <2>3, <4>1, NumberedGet
      <4>. QED  BY <4>1, <4>2
    <3>. QED  BY <3>2, <3>3
  <2>. QED  BY <2>2, <2>3
<1>4. CASE ClientOpened(s)
  <2>1. /\ broker_to_rmw' = [broker_to_rmw EXCEPT ![s] = <<>>]
        /\ UNCHANGED <<bpc, out>> \/ (bpc = "send" /\ out.to = s /\ bpc' # "send")
    BY <1>4 DEF ClientOpened, OpenPurgeIncoming, SendReturns, AfterSend
  <2>2. CASE t # s
    <3>1. InFlight(t)' = InFlight(t)
      BY <1>0, <2>1, <2>2 DEF InFlight
    <3>. QED  BY <1>2, <3>1
  <2>3. CASE t = s
    <3>1. broker_to_rmw'[t] = <<>>
      BY <1>0, <2>1, <2>3
    <3>2. CASE UNCHANGED <<bpc, out>> /\ bpc = "send" /\ out.to = t
      <4>1. InFlight(t) = Append(broker_to_rmw[t], out.msg) /\ InFlight(t)' = <<out.msg>>
        BY <3>1, <3>2 DEF InFlight
      <4>2. LET k1 == Len(broker_to_rmw[t]) + 1 IN
              k1 \in 1 .. Len(Append(broker_to_rmw[t], out.msg)) /\ Append(broker_to_rmw[t], out.msg)[k1] = out.msg
        BY <1>0, <3>2
      <4>3. out.msg.hdr.stream = STREAM_THRESH_REL => out.msg.hdr.seq < sessions[t].seq_rel
        BY <1>2, <4>1, <4>2 DEF Numbered
      <4>4. Len(<<out.msg>>) = 1 /\ <<out.msg>>[1] = out.msg /\ \A i \in 1 .. 1 : i = 1
        OBVIOUS
      <4>5. \A i, j \in 1 .. 1 : ~(i < j)
        OBVIOUS
      <4>. QED  BY <4>1, <4>3, <4>4, <4>5 DEF Numbered
    <3>3. CASE ~(UNCHANGED <<bpc, out>> /\ bpc = "send" /\ out.to = t)
      <4>1. InFlight(t)' = <<>>
        BY <2>1, <2>3, <3>1, <3>3 DEF InFlight
      <4>. QED  BY <4>1 DEF Numbered
    <3>. QED  BY <3>2, <3>3
  <2>. QED  BY <2>2, <2>3
<1>. QED  BY <1>3, <1>4

\* loopback_broker_send stores the reply or gives up.
LEMMA NumberedSent ==
    ASSUME TypeInv, \A s \in Sessions : Numbered(InFlight(s), sessions[s].seq_rel), BrokerSend
    PROVE  \A s \in Sessions : Numbered(InFlight(s), sessions[s].seq_rel)'
<1>0. broker_to_rmw \in [Sessions -> Seq(OutMsg)] /\ bpc = "send" /\ out.msg \in OutMsg /\ out.to \in Sessions
  BY DEF TypeInv, TypeOK, SendOK, BrokerSend
<1>1. /\ UNCHANGED sessions /\ bpc' # "send"
      /\ \/ broker_to_rmw' = [broker_to_rmw EXCEPT ![out.to] = Append(@, out.msg)]
         \/ broker_to_rmw' = broker_to_rmw
  BY DEF BrokerSend, SendReturns, AfterSend, SendQueued, SendTimeout, staticVars
<1>. SUFFICES ASSUME NEW t \in Sessions PROVE Numbered(InFlight(t)', sessions[t].seq_rel)
  BY <1>1
<1>2. Numbered(InFlight(t), sessions[t].seq_rel) /\ InFlight(t)' = broker_to_rmw'[t]
  BY <1>1 DEF InFlight
<1>3. CASE t # out.to
  <2>1. broker_to_rmw'[t] = broker_to_rmw[t] /\ InFlight(t) = broker_to_rmw[t]
    BY <1>0, <1>1, <1>3 DEF InFlight
  <2>. QED  BY <1>2, <2>1
<1>4. CASE t = out.to
  <2>1. InFlight(t) = Append(broker_to_rmw[t], out.msg)
    BY <1>0, <1>4 DEF InFlight
  <2>2. Numbered(broker_to_rmw[t], sessions[t].seq_rel)
    BY <1>0, <1>2, <2>1, NumberedLose
  <2>3. broker_to_rmw'[t] = Append(broker_to_rmw[t], out.msg) \/ broker_to_rmw'[t] = broker_to_rmw[t]
    BY <1>0, <1>1, <1>4
  <2>. QED  BY <1>2, <2>1, <2>2, <2>3
<1>. QED  BY <1>3, <1>4

\* CREATE_CLIENT starts the numbers over only while none is given out.
LEMMA OrderCreateClient ==
    ASSUME TypeInv, TypeInv', OrderInv, handle_create_client
    PROVE  OrderInv'
<1>. DEFINE m == Head(body)
            fresh == FreshSession(m)
            reply == [sub |-> "STATUS_AGENT", hdr |-> put_msg_header(m.sid, STREAM_NONE, fresh.seq_none, m.key)]
<1>0. /\ cur.idx \in Sessions /\ body \in Seq(Submessage) /\ sessions \in [Sessions -> SessionState]
      /\ cur \in [idx : Sessions, sid : SessionIds, stream : StreamIds, key : Keys]
  BY DEF TypeInv, TypeOK
<1>1. /\ bpc # "send" /\ body # <<>> /\ m.sub = "CREATE_CLIENT" /\ body' = Tail(body)
      /\ sessions' = [sessions EXCEPT ![cur.idx] = Bumped(fresh, STREAM_NONE)]
      /\ cur' = [cur EXCEPT !.sid = m.sid, !.key = m.key] /\ Send(cur.idx, reply)
      /\ UNCHANGED <<cst, key, rmw_to_broker, broker_to_rmw, datareaders>>
  BY DEF handle_create_client, Handling, Consumed, HandlerKeeps, transportVars, clientVars, tableVars
<1>2. cur'.idx = cur.idx
  BY <1>0, <1>1
<1>3. Joins(body)
  <2>1. 1 \in 1 .. Len(body) /\ m = body[1]
    BY <1>0, <1>1, TailItems
  <2>. QED  BY <1>1, <2>1 DEF Joins, Has
<1>4. ~Touched(cur.idx)
  BY <1>0, <1>3 DEF OrderInv, OnceInv, NoJoin
<1>5. sessions[cur.idx].seq_rel = 0
  <2>1. sessions[cur.idx].seq_rel \in Nat
    BY <1>0, BrokerAssumption DEF SessionState, SeqNums
  <2>. QED  BY <1>4, <2>1 DEF Touched
<1>6. Bumped(fresh, STREAM_NONE).seq_rel = 0
  BY DEF Bumped, FreshSession, NoSession
<1>7. reply.hdr.stream # STREAM_THRESH_REL
  BY DEF put_msg_header, STREAM_NONE, STREAM_THRESH_REL
<1>. HIDE DEF m, fresh, reply
<1>8. sessions'[cur.idx].seq_rel = 0 /\ \A s \in Sessions : s # cur.idx => sessions'[s].seq_rel = sessions[s].seq_rel
  BY <1>0, <1>1, <1>6
<1>9. \A s \in Sessions : OnceInv(s)'
  <2>1. \A s \in Sessions : sessions'[s].seq_rel > 0 => Touched(s)
    BY <1>8 DEF Touched
  <2>. QED  BY <1>1, <1>2, <2>1, OnceQuiet DEF OrderInv
<1>10. \A s \in Sessions : Numbered(InFlight(s), sessions[s].seq_rel)'
  BY <1>0, <1>1, <1>5, <1>7, <1>8, NumberedSend DEF OrderInv
<1>. QED  BY <1>9, <1>10 DEF OrderInv

\* A step of the thread that answers outside the reliable stream, or not at all.
LEMMA OrderQuiet ==
    ASSUME TypeInv, TypeInv', NumbersLeft, OrderInv,
           \/ handle_get_info \/ handle_heartbeat \/ SkipSubmessage \/ handle_write_data
    PROVE  OrderInv'
<1>0. cur.idx \in Sessions
  BY DEF TypeInv, TypeOK
<1>1. /\ bpc # "send" /\ body # <<>> /\ body' = Tail(body)
      /\ UNCHANGED <<cst, key, rmw_to_broker, broker_to_rmw, datareaders, cur>>
  BY DEF handle_get_info, handle_heartbeat, SkipSubmessage, handle_write_data,
         Handling, Consumed, HandlerKeeps, transportVars, clientVars, tableVars
<1>2. CASE handle_get_info
  <2>. DEFINE reply == [sub |-> "INFO", hdr |-> ReplyHeader(STREAM_NONE), id |-> Head(body).id]
  <2>1. Send(cur.idx, reply) /\ sessions' = [sessions EXCEPT ![cur.idx] = Bumped(@, STREAM_NONE)]
    BY <1>2 DEF handle_get_info, send_info
  <2>2. reply.hdr.stream # STREAM_THRESH_REL
    BY DEF ReplyHeader, put_msg_header, STREAM_NONE, STREAM_THRESH_REL
  <2>. HIDE DEF reply
  <2>3. \A s \in Sessions : sessions'[s].seq_rel = sessions[s].seq_rel
    <3>1. STREAM_NONE # STREAM_THRESH_REL /\ STREAM_NONE \in StreamIds
      BY ConstantTypes DEF STREAM_NONE, STREAM_THRESH_REL
    <3>. QED  BY <1>0, <2>1, <3>1, BumpCounter
  <2>4. \A s \in Sessions : OnceInv(s)'
    <3>1. \A s \in Sessions : sessions'[s].seq_rel > 0 => Touched(s)
      BY <2>3 DEF Touched
    <3>. QED  BY <1>1, <3>1, OnceQuiet DEF OrderInv
  <2>5. \A s \in Sessions : Numbered(InFlight(s), sessions[s].seq_rel)'
    BY <1>0, <1>1, <2>1, <2>2, <2>3, NumberedSend DEF OrderInv
  <2>. QED  BY <2>4, <2>5 DEF OrderInv
<1>3. CASE UNCHANGED sessions
  <2>1. \A s \in Sessions : OnceInv(s)'
    <3>1. \A s \in Sessions : sessions'[s].seq_rel > 0 => Touched(s)
      BY <1>3 DEF Touched
    <3>. QED  BY <1>1, <3>1, OnceQuiet DEF OrderInv
  <2>2. CASE handle_heartbeat
    <3>. DEFINE reply == AckNack(cur, Inc(Head(body).last))
    <3>1. Send(cur.idx, reply)
      BY <2>2 DEF handle_heartbeat
    <3>2. reply.hdr.stream # STREAM_THRESH_REL
      BY DEF AckNack, put_msg_header, STREAM_NONE, STREAM_THRESH_REL
    <3>. HIDE DEF reply
    <3>3. \A s \in Sessions : Numbered(InFlight(s), sessions[s].seq_rel)'
      BY <1>0, <1>1, <1>3, <3>1, <3>2, NumberedSend DEF OrderInv
    <3>. QED  BY <2>1, <3>3 DEF OrderInv
  <2>3. CASE bpc' # "send"
    <3>1. \A s \in Sessions : Numbered(InFlight(s), sessions[s].seq_rel)'
      BY <1>1, <1>3, <2>3, NumberedStays DEF OrderInv
    <3>. QED  BY <2>1, <3>1 DEF OrderInv
  <2>4. SkipSubmessage \/ handle_write_data => bpc' # "send"
    BY DEF SkipSubmessage, handle_write_data, Handling
  <2>. QED  BY <1>2, <2>2, <2>3, <2>4
<1>. QED  BY <1>2, <1>3 DEF handle_heartbeat, SkipSubmessage, handle_write_data

\* A reader that appears is one of the session whose message is in hand.
LEMMA NewReaders ==
    ASSUME TypeInv, handle_create, NEW r \in DOMAIN datareaders',
           datareaders'[r] # Unused, datareaders'[r].session # cur.idx
    PROVE  r \in DOMAIN datareaders /\ datareaders[r] = datareaders'[r]
<1>. DEFINE m == Head(body)
            ep == [session |-> cur.idx, id |-> m.id, topic |-> m.topic]
<1>1. /\ body \in Seq(Submessage) /\ body # <<>> /\ m.sub = "CREATE" /\ cur.idx \in Sessions
      /\ datareaders \in [1 .. MaxDataReaders -> ReaderEnt \cup {Unused}]
  BY DEF TypeInv, TypeOK, handle_create, Handling
<1>2. m \in Submessage
  BY <1>1
<1>3. datareaders' = datareaders \/ (m.id \in ReaderIds /\ datareaders' = Register(datareaders, ep))
  BY DEF handle_create
<1>. HIDE DEF m
<1>4. m.id \in ReaderIds => ep \in ReaderEnt /\ ep # Unused /\ ep.session = cur.idx
  BY <1>1, <1>2, SubmessageFields, UnusedAssumption DEF ReaderEnt
<1>. HIDE DEF ep
<1>5. CASE datareaders' = datareaders
  BY <1>5
<1>6. CASE m.id \in ReaderIds /\ datareaders' = Register(datareaders, ep)
  <2>1. DOMAIN datareaders = 1 .. MaxDataReaders /\ MaxDataReaders \in Nat
    BY <1>1, BrokerAssumption
  <2>2. \/ Register(datareaders, ep) = datareaders
        \/ \E a \in 1 .. MaxDataReaders : Register(datareaders, ep) = [datareaders EXCEPT ![a] = ep]
    BY <1>4, <1>6, <2>1, RegisterSlot
  <2>. QED  BY <1>1, <1>4, <1>6, <2>2
<1>. QED  BY <1>3, <1>5, <1>6

\* CREATE and DELETE are answered with the next number of the stream they came on.
LEMMA OrderStatus ==
    ASSUME TypeInv, TypeInv', NumbersLeft, OrderInv, handle_create \/ handle_delete
    PROVE  OrderInv'
<1>. DEFINE reply == [sub |-> "STATUS", hdr |-> ReplyHeader(StatusStream), id |-> Head(body).id]
<1>0. /\ cur.idx \in Sessions /\ cur.stream \in StreamIds /\ body \in Seq(Submessage)
      /\ datareaders \in [1 .. MaxDataReaders -> ReaderEnt \cup {Unused}]
      /\ datareaders' \in [1 .. MaxDataReaders -> ReaderEnt \cup {Unused}]
  BY DEF TypeInv, TypeOK
<1>1. /\ bpc # "send" /\ body # <<>> /\ body' = Tail(body) /\ Head(body).sub \notin Control
      /\ Send(cur.idx, reply) /\ sessions' = [sessions EXCEPT ![cur.idx] = Bumped(@, StatusStream)]
      /\ UNCHANGED <<cst, key, rmw_to_broker, broker_to_rmw, cur>>
  BY DEF handle_create, handle_delete, send_status, Handling, Consumed, HandlerKeeps,
         transportVars, clientVars, Control
<1>2. StatusStream \in StreamIds
  BY <1>0, ConstantTypes DEF StatusStream
<1>3. reply.hdr.stream = StatusStream /\ reply.hdr.seq = SeqFor(sessions[cur.idx], StatusStream)
  BY HeaderKey DEF ReplyHeader
<1>. HIDE DEF reply
<1>4. /\ \A s \in Sessions : s # cur.idx => sessions'[s].seq_rel = sessions[s].seq_rel
      /\ StatusStream # STREAM_THRESH_REL => sessions'[cur.idx].seq_rel = sessions[cur.idx].seq_rel
      /\ StatusStream = STREAM_THRESH_REL => /\ sessions'[cur.idx].seq_rel = sessions[cur.idx].seq_rel + 1
                                             /\ SeqFor(sessions[cur.idx], StatusStream) = sessions[cur.idx].seq_rel
  BY <1>0, <1>1, <1>2, BumpCounter
<1>5. Asks(body)
  <2>1. 1 \in 1 .. Len(body) /\ Head(body) = body[1]
    BY <1>0, <1>1, TailItems
  <2>. QED  BY <1>1, <2>1 DEF Asks
<1>6. cst[cur.idx] = "up" /\ NoJoin(cur.idx)
  BY <1>0, <1>5 DEF OrderInv, OnceInv
<1>7. ASSUME NEW s \in Sessions, s # cur.idx PROVE Touched(s)' => Touched(s)
  <2>1. \A r \in DOMAIN datareaders' : datareaders'[r] # Unused /\ datareaders'[r].session = s
           => r \in DOMAIN datareaders /\ datareaders[r] = datareaders'[r]
    BY <1>7, NewReaders DEF handle_delete, tableVars
  <2>. QED  BY <1>4, <1>7, <2>1 DEF Touched
<1>8. ASSUME NEW s \in Sessions PROVE OnceInv(s)'
  <2>1. (Asks(body') => Asks(body)) /\ (Joins(body') => Joins(body))
    BY <1>0, <1>1, RestAsks
  <2>2. OnceInv(s)
    BY DEF OrderInv
  <2>. QED  BY <1>1, <1>6, <1>7, <2>1, <2>2, OnceFrame DEF Steady
<1>9. \A s \in Sessions : Numbered(InFlight(s), sessions[s].seq_rel)'
  BY <1>0, <1>1, <1>3, <1>4, NumberedSend DEF OrderInv
<1>. QED  BY <1>8, <1>9 DEF OrderInv

\* A sample goes out with the next number of its reader's session.
LEMMA OrderData ==
    ASSUME TypeInv, TypeInv', NumbersLeft, OrderInv, send_data
    PROVE  OrderInv'
<1>. DEFINE i == Lowest(fan.todo)
            t == datareaders[i].session
            reply == [sub |-> "DATA", id |-> datareaders[i].id, data |-> fan.data,
                      hdr |-> put_msg_header(sessions[t].session_id, STREAM_THRESH_REL,
                                             SeqFor(sessions[t], STREAM_THRESH_REL), sessions[t].key)]
<1>0. fan \in [todo : SUBSET (1 .. MaxDataReaders), data : Data \cup {Unused}, name : Names \cup {Unused}]
  BY DEF TypeInv, TypeOK
<1>1. fan.todo # {} /\ fan.todo \in SUBSET Nat
  BY <1>0 DEF send_data
<1>2. i \in fan.todo
  BY <1>1, LowestInSet
<1>3. /\ bpc # "send" /\ Send(t, reply) /\ sessions' = [sessions EXCEPT ![t] = Bumped(@, STREAM_THRESH_REL)]
      /\ UNCHANGED <<cst, key, rmw_to_broker, broker_to_rmw, datareaders, cur, body>>
  BY DEF send_data, HandlerKeeps, transportVars, clientVars, tableVars
<1>4. reply.hdr.seq = SeqFor(sessions[t], STREAM_THRESH_REL)
  BY HeaderKey
<1>. HIDE DEF i, reply
<1>5. i \in DOMAIN datareaders /\ datareaders[i] # Unused
  BY <1>2 DEF TypeInv, FanOK
<1>6. t \in Sessions
  <2>1. datareaders \in [1 .. MaxDataReaders -> ReaderEnt \cup {Unused}]
    BY DEF TypeInv, TypeOK
  <2>2. datareaders[i] \in ReaderEnt
    BY <1>5, <2>1
  <2>. QED  BY <2>2 DEF ReaderEnt
<1>7. Touched(t)
  BY <1>5 DEF Touched
<1>. HIDE DEF t
<1>8. /\ \A s \in Sessions : s # t => sessions'[s].seq_rel = sessions[s].seq_rel
      /\ sessions'[t].seq_rel = sessions[t].seq_rel + 1 /\ SeqFor(sessions[t], STREAM_THRESH_REL) = sessions[t].seq_rel
  BY <1>3, <1>6, BumpCounter, ConstantTypes
<1>9. \A s \in Sessions : OnceInv(s)'
  <2>1. \A s \in Sessions : sessions'[s].seq_rel > 0 => Touched(s)
    BY <1>7, <1>8 DEF Touched
  <2>. QED  BY <1>3, <2>1, OnceQuiet DEF OrderInv
<1>10. \A s \in Sessions : Numbered(InFlight(s), sessions[s].seq_rel)'
  BY <1>3, <1>4, <1>6, <1>8, NumberedSend DEF OrderInv
<1>. QED  BY <1>9, <1>10 DEF OrderInv

\* The steps of the thread between messages and submessages.
LEMMA OrderLoop ==
    ASSUME TypeInv, TypeInv', OrderInv,
           \/ BrokerPoll \/ BrokerSend \/ MessageDone \/ EmitDone \/ NoSubscriber
           \/ \E s \in Sessions : BrokerTake(s) \/ BrokerMiss(s)
    PROVE  OrderInv'
<1>1. UNCHANGED <<cst, key, sessions, datareaders>>
  BY DEF BrokerPoll, BrokerSend, MessageDone, EmitDone, NoSubscriber, BrokerTake, BrokerMiss,
         HandlerKeeps, staticVars, clientVars, tableVars
<1>2. \A s \in Sessions : sessions'[s].seq_rel > 0 => Touched(s)
  BY <1>1 DEF Touched
<1>3. ASSUME UNCHANGED <<rmw_to_broker, cur, body>> PROVE \A s \in Sessions : OnceInv(s)'
  BY <1>1, <1>2, <1>3, OnceQuiet DEF OrderInv
<1>4. CASE BrokerSend
  <2>1. UNCHANGED <<rmw_to_broker, cur, body>>
    BY <1>4 DEF BrokerSend
  <2>2. \A s \in Sessions : Numbered(InFlight(s), sessions[s].seq_rel)'
    BY <1>4, NumberedSent DEF OrderInv
  <2>. QED  BY <1>3, <2>1, <2>2 DEF OrderInv
<1>5. CASE BrokerPoll \/ MessageDone \/ EmitDone \/ NoSubscriber \/ \E s \in Sessions : BrokerMiss(s)
  <2>1. UNCHANGED <<rmw_to_broker, broker_to_rmw, cur, body>> /\ bpc # "send" /\ bpc' # "send"
    BY <1>5 DEF BrokerPoll, MessageDone, EmitDone, NoSubscriber, BrokerMiss, HandlerKeeps, transportVars
  <2>2. \A s \in Sessions : Numbered(InFlight(s), sessions[s].seq_rel)'
    BY <1>1, <2>1, NumberedStays DEF OrderInv
  <2>. QED  BY <1>3, <2>1, <2>2 DEF OrderInv
<1>6. CASE \E s \in Sessions : BrokerTake(s)
  <2>1. PICK s \in Sessions : BrokerTake(s)
    BY <1>6
  <2>2. \A t \in Sessions : OnceInv(t)'
    BY <2>1, OnceTake DEF OrderInv
  <2>. DEFINE m == Head(rmw_to_broker[s])
              reply == AckNack(m.hdr, Inc(m.hdr.seq))
  <2>3. /\ UNCHANGED broker_to_rmw /\ bpc # "send" /\ (bpc' # "send" \/ Send(s, reply))
    BY <2>1 DEF BrokerTake
  <2>4. reply.hdr.stream # STREAM_THRESH_REL
    BY DEF AckNack, put_msg_header, STREAM_NONE, STREAM_THRESH_REL
  <2>. HIDE DEF m, reply
  <2>5. CASE bpc' # "send"
    <3>1. \A t \in Sessions : Numbered(InFlight(t), sessions[t].seq_rel)'
      BY <1>1, <2>3, <2>5, NumberedStays DEF OrderInv
    <3>. QED  BY <2>2, <3>1 DEF OrderInv
  <2>6. CASE Send(s, reply)
    <3>1. \A t \in Sessions : Numbered(InFlight(t), sessions[t].seq_rel)'
      BY <1>1, <2>3, <2>4, <2>6, NumberedSend DEF OrderInv
    <3>. QED  BY <2>2, <3>1 DEF OrderInv
  <2>. QED  BY <2>3, <2>5, <2>6
<1>. QED  BY <1>4, <1>5, <1>6

\* Every step keeps the order, while no counter is at its end.
LEMMA OrderStep ==
    ASSUME OpensOnce, ProperClients, TypeInv, TypeInv', NumbersLeft, OrderInv, [Next]_vars
    PROVE  OrderInv'
<1>1. CASE UNCHANGED vars
  <2>1. UNCHANGED <<cst, key, rmw_to_broker, broker_to_rmw, sessions, datareaders, cur, body, bpc, out>>
    BY <1>1 DEF vars, transportVars, clientVars, threadVars, tableVars
  <2>2. \A s \in Sessions : OnceInv(s)'
    <3>1. \A s \in Sessions : sessions'[s].seq_rel > 0 => Touched(s)
      BY <2>1 DEF Touched
    <3>. QED  BY <2>1, <3>1, OnceQuiet DEF OrderInv
  <2>3. \A s \in Sessions : Numbered(InFlight(s), sessions[s].seq_rel)'
    BY <2>1, NumberedStays DEF OrderInv
  <2>. QED  BY <2>2, <2>3 DEF OrderInv
<1>2. CASE broker_quiesce
  <2>1. UNCHANGED <<cst, key, rmw_to_broker, broker_to_rmw, sessions, datareaders, cur, body, bpc, out>>
    BY <1>2 DEF broker_quiesce, transportVars, clientVars, threadVars, tableVars
  <2>2. \A s \in Sessions : OnceInv(s)'
    <3>1. \A s \in Sessions : sessions'[s].seq_rel > 0 => Touched(s)
      BY <2>1 DEF Touched
    <3>. QED  BY <2>1, <3>1, OnceQuiet DEF OrderInv
  <2>3. \A s \in Sessions : Numbered(InFlight(s), sessions[s].seq_rel)'
    BY <2>1, NumberedStays DEF OrderInv
  <2>. QED  BY <2>2, <2>3 DEF OrderInv
<1>3. CASE \E s \in Sessions : ClientStep(s)
  <2>1. PICK s \in Sessions : ClientStep(s)
    BY <1>3
  <2>2. CASE ClientCreatesSession(s) \/ ClientPings(s) \/ ClientRequests(s) \/ ClientHeartbeat(s)
    <3>1. \A t \in Sessions : OnceInv(t)'
      BY <2>2, OnceWrites DEF OrderInv
    <3>2. UNCHANGED <<sessions, broker_to_rmw, bpc, out>>
      BY <2>2 DEF ClientCreatesSession, ClientPings, ClientRequests, ClientHeartbeat, ClientSends,
                  brokerVars, threadVars
    <3>3. \A t \in Sessions : Numbered(InFlight(t), sessions[t].seq_rel)'
      BY <3>2, NumberedStays DEF OrderInv
    <3>. QED  BY <3>1, <3>3 DEF OrderInv
  <2>3. CASE ClientRead(s) \/ ClientOpens(s) \/ ClientOpened(s)
    <3>1. \A t \in Sessions : OnceInv(t)'
      BY <2>3, OnceClient DEF OrderInv
    <3>2. CASE ClientRead(s) \/ ClientOpened(s)
      <4>1. \A t \in Sessions : Numbered(InFlight(t), sessions[t].seq_rel)'
        BY <3>2, NumberedClient DEF OrderInv
      <4>. QED  BY <3>1, <4>1 DEF OrderInv
    <3>3. CASE ClientOpens(s)
      <4>1. UNCHANGED <<sessions, broker_to_rmw, bpc, out>>
        BY <3>3 DEF ClientOpens, brokerVars, threadVars
      <4>2. \A t \in Sessions : Numbered(InFlight(t), sessions[t].seq_rel)'
        BY <4>1, NumberedStays DEF OrderInv
      <4>. QED  BY <3>1, <4>2 DEF OrderInv
    <3>. QED  BY <2>3, <3>2, <3>3
  <2>. QED  BY <2>1, <2>2, <2>3 DEF ClientStep
<1>4. CASE BrokerStep
  BY <1>4, OrderLoop, OrderCreateClient, OrderQuiet, OrderStatus, OrderData DEF BrokerStep
<1>. QED  BY <1>1, <1>2, <1>3, <1>4 DEF Next

\* While no counter comes to its end, the numbers on the reliable stream of a client that
\* opens once grow along its queue: answers to its own requests and other clients' samples
\* share one counter, and a repeated CREATE_CLIENT, which starts the counter over, is never
\* handled once a number is given out.
THEOREM RepliesInOrder == OpensOnce /\ ProperClients => (Spec /\ []NumbersLeft => []ReliableInOrder)
<1>. SUFFICES ASSUME OpensOnce, ProperClients PROVE Spec /\ []NumbersLeft => []ReliableInOrder
  OBVIOUS
<1>1. Init => OrderInv
  BY OrderInit
<1>2. TypeInv /\ TypeInv' /\ NumbersLeft /\ OrderInv /\ [Next]_vars => OrderInv'
  BY OrderStep
<1>3. Spec => []TypeInv
  BY TypeCorrect DEF TypeInv
<1>4. TypeInv /\ OrderInv => ReliableInOrder
  <2>. SUFFICES ASSUME TypeInv, OrderInv, NEW s \in Sessions,
                       NEW i \in DOMAIN InFlight(s), NEW j \in DOMAIN InFlight(s), i < j,
                       InFlight(s)[i].hdr.stream = STREAM_THRESH_REL,
                       InFlight(s)[j].hdr.stream = STREAM_THRESH_REL
                PROVE  InFlight(s)[i].hdr.seq < InFlight(s)[j].hdr.seq
    BY DEF ReliableInOrder
  <2>1. DOMAIN InFlight(s) = 1 .. Len(InFlight(s))
    BY InFlightItems
  <2>. QED  BY <2>1 DEF OrderInv, Numbered
<1>. QED  BY <1>1, <1>2, <1>3, <1>4, PTL DEF Spec
=============================================================================
