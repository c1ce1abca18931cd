---------------------------- MODULE BrokerProofs ----------------------------
(***************************************************************************)
(* Proofs about Broker, for every number of sessions, depth of the queues  *)
(* and size of the tables.                                                 *)
(***************************************************************************)
EXTENDS Broker, TLAPS, NaturalsInduction, WellFoundedInduction

-----------------------------------------------------------------------------
(* Arithmetic and the smallest element of a set of slots. *)

\* Sequence numbers stay below SeqMod when next_seq_for increments them.
LEMMA IncType == ASSUME NEW n \in Nat PROVE Inc(n) \in SeqNums
BY BrokerAssumption DEF Inc, SeqNums

\* Lowest returns an element of its argument: a non-empty set of naturals has a
\* smallest one.
LEMMA LowestInSet ==
    ASSUME NEW S \in SUBSET Nat, S # {}
    PROVE  Lowest(S) \in S /\ \A j \in S : Lowest(S) <= j
<1>. DEFINE Less == {p \in Nat \X Nat : p[1] < p[2]}
<1>0. OpToRel(<, Nat) = Less
  BY Zenon DEF OpToRel
<1>1. PICK x \in S : \A y \in S : ~(<<y, x>> \in Less)
  BY <1>0, NatLessThanWellFounded, WFMin
<1>2. ASSUME NEW y \in S PROVE x <= y
  <2>1. x \in Nat /\ y \in Nat
    OBVIOUS
  <2>2. <<y, x>> \in Less <=> y < x
    BY <2>1, Zenon
  <2>. QED  BY <1>1, <2>1, <2>2
<1>. QED  BY <1>2 DEF Lowest

-----------------------------------------------------------------------------
(* The queues: k_msgq_put within the bound, k_msgq_get and k_msgq_purge.  *)

Bounded(queues) == \A s \in Sessions : Len(queues[s]) <= Depth

\* k_msgq_put with room keeps the queues typed and within LOOPBACK_DEPTH.
LEMMA QueuePut ==
    ASSUME NEW M, NEW q \in [Sessions -> Seq(M)], Bounded(q),
           NEW s \in Sessions, NEW m \in M, Room(q[s])
    PROVE  /\ [q EXCEPT ![s] = Append(@, m)] \in [Sessions -> Seq(M)]
           /\ Bounded([q EXCEPT ![s] = Append(@, m)])
<1>1. Append(q[s], m) \in Seq(M) /\ Len(Append(q[s], m)) = Len(q[s]) + 1 /\ Len(q[s]) \in Nat
  OBVIOUS
<1>. QED  BY <1>1, TransportAssumption DEF Bounded, Room

\* k_msgq_get takes a message of the queue and keeps the rest within bounds.
LEMMA QueueGet ==
    ASSUME NEW M, NEW q \in [Sessions -> Seq(M)], Bounded(q),
           NEW s \in Sessions, q[s] # <<>>
    PROVE  /\ [q EXCEPT ![s] = Tail(@)] \in [Sessions -> Seq(M)]
           /\ Bounded([q EXCEPT ![s] = Tail(@)])
           /\ Head(q[s]) \in M
<1>1. /\ Tail(q[s]) \in Seq(M) /\ Len(Tail(q[s])) = Len(q[s]) - 1 /\ Len(q[s]) \in Nat
      /\ Head(q[s]) \in M
  OBVIOUS
<1>. QED  BY <1>1, TransportAssumption DEF Bounded

\* k_msgq_purge leaves well-typed queues.
LEMMA QueuePurge ==
    ASSUME NEW M, NEW q \in [Sessions -> Seq(M)], Bounded(q), NEW s \in Sessions
    PROVE  /\ [q EXCEPT ![s] = <<>>] \in [Sessions -> Seq(M)]
           /\ Bounded([q EXCEPT ![s] = <<>>])
<1>1. <<>> \in Seq(M) /\ Len(<<>>) = 0
  OBVIOUS
<1>. QED  BY <1>1, TransportAssumption DEF Bounded

-----------------------------------------------------------------------------
(* Messages and session records. *)

\* put_msg_header makes a header.
LEMMA HeaderType ==
    ASSUME NEW sid \in SessionIds, NEW stream \in StreamIds,
           NEW seq \in SeqNums, NEW k \in Keys
    PROVE  put_msg_header(sid, stream, seq, k) \in Header
BY DEF put_msg_header, Header, Keys

\* next_seq_for returns a sequence number and leaves a session record.
LEMMA SeqForType ==
    ASSUME NEW ss \in SessionState, NEW stream \in StreamIds
    PROVE  SeqFor(ss, stream) \in SeqNums /\ Bumped(ss, stream) \in SessionState
<1>1. \A n \in SeqNums : Inc(n) \in SeqNums
  BY IncType, BrokerAssumption DEF SeqNums
<1>2. /\ ss.seq_none \in SeqNums /\ ss.seq_be \in SeqNums /\ ss.seq_rel \in SeqNums
  BY DEF SessionState
<1>. QED  BY <1>1, <1>2 DEF SeqFor, Bumped, SessionState

\* send_acknack makes a reply.
LEMMA AckNackType ==
    ASSUME NEW h, h.sid \in SessionIds, h.key \in Keys, NEW n \in SeqNums
    PROVE  AckNack(h, n) \in OutMsg
<1>1. 0 \in SeqNums /\ STREAM_NONE \in StreamIds
  BY BrokerAssumption DEF SeqNums, StreamIds
<1>2. put_msg_header(h.sid, STREAM_NONE, 0, h.key) \in Header
  BY <1>1, HeaderType
<1>. QED  BY <1>2 DEF AckNack, OutMsg

\* What the fields of a submessage are, by its kind.
LEMMA SubmessageFields ==
    ASSUME NEW m \in Submessage
    PROVE  /\ m.sub = "CREATE_CLIENT" => m.sid \in SessionIds /\ m.key \in Keys
           /\ m.sub = "CREATE" => /\ m.id \in ObjectIds
                                  /\ m.id \in TopicIds => m.name \in Names
                                  /\ m.id \in WriterIds \cup ReaderIds => m.topic \in TopicIds
           /\ m.sub \in {"GET_INFO", "DELETE"} => m.id \in ObjectIds
           /\ m.sub = "WRITE_DATA" => m.id \in WriterIds /\ m.data \in Data
           /\ m.sub = "HEARTBEAT" => m.last \in SeqNums
<1>. USE DEF ObjectIds
<1>1. CASE m \in [sub : {"CREATE_CLIENT"}, sid : SessionIds, key : Keys]
  BY <1>1
<1>2. CASE m \in [sub : {"CREATE"}, id : TopicIds, rep : {"binary", "other"}, name : Names]
  BY <1>2, KindAssumption
<1>3. CASE m \in [sub : {"CREATE"}, id : WriterIds \cup ReaderIds,
                  rep : {"binary", "other"}, topic : TopicIds]
  BY <1>3, KindAssumption
<1>4. CASE m \in [sub : {"CREATE"}, id : OtherIds]
  BY <1>4, KindAssumption
<1>5. CASE m \in [sub : {"GET_INFO", "DELETE"}, id : ObjectIds]
  BY <1>5
<1>6. CASE m \in [sub : {"WRITE_DATA"}, id : WriterIds, data : Data]
  BY <1>6
<1>7. CASE m \in [sub : {"HEARTBEAT"}, last : SeqNums]
  BY <1>7
<1>8. CASE m \in [sub : {"READ_DATA", "ACKNACK"}]
  BY <1>8
<1>. QED  BY <1>1, <1>2, <1>3, <1>4, <1>5, <1>6, <1>7, <1>8 DEF Submessage

\* The fields of a reply, by its kind.
LEMMA OutMsgFields ==
    ASSUME NEW m \in OutMsg
    PROVE  /\ m.sub = "DATA" => m.id \in ReaderIds /\ m.data \in Data
           /\ m.sub = "ACKNACK" => m.first_unacked \in SeqNums
           /\ m.hdr \in Header
<1>1. CASE m \in [sub : {"STATUS_AGENT"}, hdr : Header]
  BY <1>1
<1>2. CASE m \in [sub : {"STATUS", "INFO"}, hdr : Header, id : ObjectIds]
  BY <1>2
<1>3. CASE m \in [sub : {"ACKNACK"}, hdr : Header, first_unacked : SeqNums]
  BY <1>3
<1>4. CASE m \in [sub : {"DATA"}, hdr : Header, id : ReaderIds, data : Data]
  BY <1>4
<1>. QED  BY <1>1, <1>2, <1>3, <1>4 DEF OutMsg

-----------------------------------------------------------------------------
(* The entity tables. *)

\* Find returns a slot that matches, or NULL if none does.
LEMMA FindSlot ==
    ASSUME NEW N \in Nat, NEW table, DOMAIN table = 1 .. N, NEW s, NEW id
    PROVE  \/ Find(table, s, id) = NULL /\ Matches(table, s, id) = {}
           \/ /\ Find(table, s, id) \in 1 .. N
              /\ table[Find(table, s, id)] # Unused
              /\ table[Find(table, s, id)].session = s
              /\ table[Find(table, s, id)].id = id
<1>. DEFINE M == Matches(table, s, id)
<1>1. M \in SUBSET Nat /\ M \subseteq 1 .. N
  BY DEF Matches
<1>2. M # {} => Lowest(M) \in M
  BY <1>1, LowestInSet
<1>. QED  BY <1>1, <1>2 DEF Find, Matches

\* alloc_topic / alloc_ep and what handle_create does with the slot: the table
\* keeps its type, no entry loses its slot or its name, no twin appears.
LEMMA RegisterSlot ==
    ASSUME NEW N \in Nat, NEW table, DOMAIN table = 1 .. N, NEW ent, ent # Unused
    PROVE  /\ \/ Register(table, ent) = table
              \/ \E a \in 1 .. N : Register(table, ent) = [table EXCEPT ![a] = ent]
           /\ \A i \in 1 .. N : table[i] # Unused
                 => /\ Register(table, ent)[i] # Unused
                    /\ Register(table, ent)[i].session = table[i].session
                    /\ Register(table, ent)[i].id = table[i].id
           /\ NoTwins(table) => NoTwins(Register(table, ent))
<1>. DEFINE s == ent.session
            id == ent.id
            F == FreeSlots(table)
            a == Alloc(table, s, id)
            new == Register(table, ent)
<1>1. F \in SUBSET Nat /\ F \subseteq 1 .. N
  BY DEF FreeSlots
<1>2. F # {} => Lowest(F) \in F
  BY <1>1, LowestInSet
<1>3. \/ a = NULL
      \/ /\ a \in 1 .. N /\ table[a] # Unused
         /\ table[a].session = s /\ table[a].id = id
      \/ a \in 1 .. N /\ table[a] = Unused /\ Matches(table, s, id) = {}
  <2>. DEFINE f == Find(table, s, id)
  <2>1. \/ f = NULL /\ Matches(table, s, id) = {}
        \/ f \in 1 .. N /\ table[f] # Unused /\ table[f].session = s /\ table[f].id = id
    <3>. HIDE DEF s, id
    <3>1. \/ Find(table, s, id) = NULL /\ Matches(table, s, id) = {}
          \/ /\ Find(table, s, id) \in 1 .. N
             /\ table[Find(table, s, id)] # Unused
             /\ table[Find(table, s, id)].session = s
             /\ table[Find(table, s, id)].id = id
      BY FindSlot
    <3>. QED  BY <3>1
  <2>2. CASE f # NULL
    <3>1. a = f
      BY <2>2 DEF Alloc
    <3>. QED  BY <2>1, <2>2, <3>1
  <2>3. CASE f = NULL /\ F # {}
    <3>1. a = Lowest(F)
      BY <2>3 DEF Alloc
    <3>2. Matches(table, s, id) = {}
      BY <2>1, <2>3 DEF NULL
    <3>. QED  BY <1>1, <1>2, <2>3, <3>1, <3>2 DEF FreeSlots
  <2>4. CASE f = NULL /\ F = {}
    BY <2>4 DEF Alloc
  <2>. QED  BY <2>2, <2>3, <2>4
<1>4. CASE a = NULL
  BY <1>4 DEF Register
<1>5. CASE a # NULL /\ table[a] # Unused
  <2>1. /\ new = [table EXCEPT ![a] = ent] /\ a \in 1 .. N
        /\ table[a].session = s /\ table[a].id = id
    BY <1>3, <1>5 DEF Register
  <2>2. /\ DOMAIN new = 1 .. N /\ new[a] = ent
        /\ \A i \in 1 .. N : i # a => new[i] = table[i]
    <3>. HIDE DEF new, a
    <3>. QED  BY <2>1
  <2>3. \E b \in 1 .. N : new = [table EXCEPT ![b] = ent]
    <3>. HIDE DEF new, a
    <3>. QED  BY <2>1
  <2>4. \A i \in 1 .. N : /\ table[i] # Unused <=> new[i] # Unused
                          /\ table[i] # Unused => /\ new[i].session = table[i].session
                                                 /\ new[i].id = table[i].id
    <3>. HIDE DEF new, a
    <3>. QED  BY <1>5, <2>1, <2>2
  <2>5. NoTwins(table) => NoTwins(new)
    <3>. HIDE DEF new, a, s, id
    <3>. QED  BY <2>2, <2>4 DEF NoTwins
  <2>. QED  BY <2>3, <2>4, <2>5
<1>6. CASE a # NULL /\ table[a] = Unused
  <2>1. new = [table EXCEPT ![a] = ent] /\ a \in 1 .. N
    BY <1>3, <1>6 DEF Register
  <2>2. \A i \in 1 .. N : table[i] # Unused => ~(table[i].session = s /\ table[i].id = id)
    BY <1>3, <1>6 DEF Matches
  <2>3. /\ DOMAIN new = 1 .. N /\ new[a] = ent
        /\ \A i \in 1 .. N : i # a => new[i] = table[i]
    <3>. HIDE DEF new, a
    <3>. QED  BY <2>1
  <2>4. \E b \in 1 .. N : new = [table EXCEPT ![b] = ent]
    <3>. HIDE DEF new, a
    <3>. QED  BY <2>1
  <2>5. \A i \in 1 .. N : table[i] # Unused => /\ new[i] # Unused
                                               /\ new[i].session = table[i].session
                                               /\ new[i].id = table[i].id
    <3>. HIDE DEF new, a
    <3>. QED  BY <1>6, <2>3
  <2>6. NoTwins(table) => NoTwins(new)
    <3>. HIDE DEF new, a
    <3>. QED  BY <1>6, <2>2, <2>3 DEF NoTwins
  <2>. QED  BY <2>4, <2>5, <2>6
<1>. QED  BY <1>4, <1>5, <1>6

-----------------------------------------------------------------------------
(* Type correctness.  Between its steps the broker thread keeps two promises *)
(* to itself: at "send" there is a reply to send, and the readers left to    *)
(* serve are registered, with the payload in hand.                           *)

SendOK == bpc = "send" => out.msg \in OutMsg
FanOK  == /\ \A i \in fan.todo : i \in DOMAIN datareaders /\ datareaders[i] # Unused
          /\ fan.todo # {} \/ bpc \in {"emit", "fan"}
               => fan.data \in Data /\ fan.name \in Names
TypeInv == TypeOK /\ SendOK /\ FanOK

\* The constants that handlers put into messages and tables are of their types.
LEMMA ConstantTypes ==
    /\ 0 \in SeqNums /\ 0 \in Sessions /\ 0 \in SessionIds /\ 0 \in Keys
    /\ STREAM_NONE \in StreamIds /\ STREAM_THRESH_REL \in StreamIds
    /\ RealSid \in SessionIds /\ MaskedSid \in SessionIds /\ SESSION_NO_KEY \in SessionIds
    /\ NoSession \in SessionState
BY TransportAssumption, BrokerAssumption
   DEF SeqNums, Sessions, SessionIds, Keys, StreamIds, STREAM_NONE, STREAM_THRESH_REL,
       MaskedSid, SESSION_NO_KEY, NoSession, SessionState

\* The state after broker_start_pinned is well-typed.
LEMMA InitType == Init => TypeInv
<1>. SUFFICES ASSUME Init PROVE TypeInv
  OBVIOUS
<1>1. \A s \in Sessions : MaxWrites[s] \in Nat
  BY BrokerAssumption
<1>2. cur \in [idx : Sessions, sid : SessionIds, stream : StreamIds, key : Keys]
  BY ConstantTypes DEF Init, StreamIds, STREAM_NONE
<1>3. /\ rmw_to_broker \in [Sessions -> Seq(InMsg)]
      /\ broker_to_rmw \in [Sessions -> Seq(OutMsg)]
      /\ \A s \in Sessions : Len(rmw_to_broker[s]) <= Depth /\ Len(broker_to_rmw[s]) <= Depth
  BY TransportAssumption DEF Init, TransportInit
<1>4. /\ topics \in [1 .. MaxTopics -> TopicEnt \cup {Unused}]
      /\ datawriters \in [1 .. MaxDataWriters -> WriterEnt \cup {Unused}]
      /\ datareaders \in [1 .. MaxDataReaders -> ReaderEnt \cup {Unused}]
  BY DEF Init
<1>5. /\ out \in [to : Sessions, msg : OutMsg \cup {Unused}]
      /\ fan \in [todo : SUBSET (1 .. MaxDataReaders), data : Data \cup {Unused},
                  name : Names \cup {Unused}]
      /\ fan.todo = {} /\ bpc = "poll"
  BY ConstantTypes DEF Init, NoReply, NoFan
<1>6. /\ sessions \in [Sessions -> SessionState]
      /\ key \in [Sessions -> Keys] /\ cseq \in [Sessions -> SeqNums]
      /\ acked \in [Sessions -> SeqNums]
      /\ cst \in [Sessions -> ClientStates]
  BY ConstantTypes DEF Init, ClientStates
<1>7. nwrites \in [Sessions -> Nat] /\ \A s \in Sessions : nwrites[s] <= MaxWrites[s]
  BY <1>1 DEF Init
<1>8. /\ ready = {} /\ broker_quiet = FALSE /\ body = <<>> /\ logged = {}
  BY DEF Init, TransportInit
<1>9. /\ ready \subseteq Sessions /\ broker_quiet \in BOOLEAN
      /\ body \in Seq(Submessage) /\ logged \subseteq Names \X Data
  <2>1. broker_quiet \in BOOLEAN
    BY <1>8, Zenon
  <2>2. body \in Seq(Submessage)
    BY <1>8
  <2>. QED  BY <1>8, <2>1, <2>2
<1>. QED
  BY <1>2, <1>3, <1>4, <1>5, <1>6, <1>7, <1>9 DEF TypeInv, TypeOK, SendOK, FanOK

\* loopback_write, whether it stores or drops, keeps the state well-typed.
LEMMA ClientSendsType ==
    ASSUME TypeInv, NEW s \in Sessions, NEW sid \in SessionIds, NEW stream \in StreamIds,
           NEW subs \in Seq(Submessage), ClientSends(s, sid, stream, subs),
           cst' \in [Sessions -> ClientStates]
    PROVE  TypeInv'
<1>. DEFINE hdr == put_msg_header(sid, stream,
                      IF stream = STREAM_THRESH_REL THEN cseq[s] ELSE 0, key[s])
            m == [hdr |-> hdr, body |-> subs]
<1>0. /\ rmw_to_broker \in [Sessions -> Seq(InMsg)]
      /\ \A r \in Sessions : Len(rmw_to_broker[r]) <= Depth
      /\ cseq \in [Sessions -> SeqNums]
      /\ key \in [Sessions -> Keys]
      /\ nwrites \in [Sessions -> Nat] /\ \A r \in Sessions : nwrites[r] <= MaxWrites[r]
  BY DEF TypeInv, TypeOK
<1>1. hdr \in Header
  BY <1>0, HeaderType, ConstantTypes
<1>2. m \in InMsg
  BY <1>1 DEF InMsg
<1>3. /\ WriteQueued(s, m) \/ WriteDropped(s)
      /\ nwrites[s] < MaxWrites[s]
      /\ nwrites' = [nwrites EXCEPT ![s] = @ + 1]
      /\ cseq' = cseq \/ cseq' = [cseq EXCEPT ![s] = Inc(@)]
      /\ UNCHANGED <<broker_to_rmw, key, acked, brokerVars>>
  BY DEF ClientSends
<1>. HIDE DEF hdr, m
<1>4. rmw_to_broker' \in [Sessions -> Seq(InMsg)] /\ Bounded(rmw_to_broker')
  <2>1. CASE WriteDropped(s)
    BY <1>0, <2>1 DEF WriteDropped, Bounded
  <2>2. CASE WriteQueued(s, m)
    BY <1>0, <1>2, <2>2, QueuePut DEF WriteQueued, Bounded
  <2>. QED  BY <1>3, <2>1, <2>2
<1>5. \A r \in Sessions : Len(rmw_to_broker'[r]) <= Depth
  BY <1>4 DEF Bounded
<1>6. cseq' \in [Sessions -> SeqNums]
  <2>1. cseq[s] \in SeqNums /\ cseq[s] \in Nat
    BY <1>0, BrokerAssumption DEF SeqNums
  <2>2. Inc(cseq[s]) \in SeqNums
    BY <2>1, IncType
  <2>. QED  BY <1>0, <1>3, <2>1, <2>2
<1>7. /\ nwrites' \in [Sessions -> Nat]
      /\ \A r \in Sessions : nwrites'[r] <= MaxWrites[r]
  <2>1. \A r \in Sessions : nwrites[r] \in Nat /\ MaxWrites[r] \in Nat
    BY <1>0, BrokerAssumption
  <2>. QED  BY <1>0, <1>3, <2>1
<1>. QED
  BY <1>3, <1>4, <1>5, <1>6, <1>7
     DEF brokerVars, tableVars, threadVars, TypeInv, TypeOK, SendOK, FanOK

\* So does every step of a client.
LEMMA ClientStepType ==
    ASSUME TypeInv, NEW s \in Sessions, ClientStep(s)
    PROVE  TypeInv'
<1>0. /\ rmw_to_broker \in [Sessions -> Seq(InMsg)] /\ Bounded(rmw_to_broker)
      /\ broker_to_rmw \in [Sessions -> Seq(OutMsg)] /\ Bounded(broker_to_rmw)
      /\ cst \in [Sessions -> ClientStates]
      /\ key \in [Sessions -> Keys]
      /\ cseq \in [Sessions -> SeqNums] /\ acked \in [Sessions -> SeqNums]
    BY DEF TypeInv, TypeOK, Bounded
<1>1. CASE ClientOpens(s)
  <2>1. rmw_to_broker' \in [Sessions -> Seq(InMsg)] /\ Bounded(rmw_to_broker')
    BY <1>0, <1>1, QueuePurge DEF ClientOpens, OpenPurgeOutgoing
  <2>2. /\ cst' \in [Sessions -> ClientStates]
        /\ UNCHANGED <<broker_to_rmw, key, cseq, acked, nwrites, brokerVars>>
    BY <1>0, <1>1 DEF ClientOpens, ClientStates
  <2>. QED  BY <2>1, <2>2 DEF brokerVars, tableVars, threadVars, TypeInv, TypeOK,
                              SendOK, FanOK, Bounded
<1>2. CASE ClientOpened(s)
  <2>1. broker_to_rmw' \in [Sessions -> Seq(OutMsg)] /\ Bounded(broker_to_rmw')
    BY <1>0, <1>2, QueuePurge DEF ClientOpened, OpenPurgeIncoming
  <2>2. /\ cst' \in [Sessions -> ClientStates]
        /\ key' \in [Sessions -> Keys]
        /\ cseq' \in [Sessions -> SeqNums] /\ acked' \in [Sessions -> SeqNums]
    BY <1>0, <1>2, ConstantTypes DEF ClientOpened, Keys, ClientStates
  <2>3. UNCHANGED <<rmw_to_broker, ready, nwrites, sessions, tableVars, cur, body, fan,
                    broker_quiet, logged>>
    BY <1>2 DEF ClientOpened
  <2>4. UNCHANGED <<bpc, out>> \/ (bpc = "send" /\ bpc' = AfterSend /\ out' = NoReply)
    BY <1>2 DEF ClientOpened, SendReturns
  <2>5. /\ bpc' \in {"poll", "scan", "send", "sub", "emit", "fan"}
        /\ out' \in [to : Sessions, msg : OutMsg \cup {Unused}]
        /\ SendOK' /\ FanOK'
    BY <2>3, <2>4, ConstantTypes
       DEF TypeInv, TypeOK, SendOK, FanOK, AfterSend, NoReply, tableVars
  <2>. QED  BY <2>1, <2>2, <2>3, <2>5 DEF tableVars, TypeInv, TypeOK, Bounded
<1>3. CASE ClientCreatesSession(s)
  <2>1. key[s] \in Keys
    BY <1>0
  <2>2. Join(key[s]) \in Submessage
    BY <2>1, ConstantTypes DEF Submessage, Join
  <2>3. <<Join(key[s])>> \in Seq(Submessage)
    BY <2>2
  <2>4. cst' \in [Sessions -> ClientStates]
    BY <1>0, <1>3 DEF ClientCreatesSession, ClientStates
  <2>. QED  BY <1>3, <2>3, <2>4, ConstantTypes, ClientSendsType DEF ClientCreatesSession
<1>4. CASE ClientPings(s)
  <2>1. PICK id \in OtherIds :
          ClientSends(s, SESSION_NO_KEY, STREAM_NONE, <<[sub |-> "GET_INFO", id |-> id]>>)
    BY <1>4 DEF ClientPings
  <2>2. [sub |-> "GET_INFO", id |-> id] \in Submessage
    BY DEF Submessage, ObjectIds
  <2>3. <<[sub |-> "GET_INFO", id |-> id]>> \in Seq(Submessage)
    BY <2>2
  <2>4. cst' \in [Sessions -> ClientStates]
    BY <1>0, <1>4 DEF ClientPings, ClientStates
  <2>. QED  BY <2>1, <2>3, <2>4, ConstantTypes, ClientSendsType
<1>5. CASE ClientRequests(s)
  <2>1. PICK b \in ClientBody[s] : ClientSends(s, RealSid, b.stream, b.body)
    BY <1>5 DEF ClientRequests
  <2>2. b.stream \in StreamIds /\ b.body \in Seq(Submessage)
    BY ClientBodyAssumption
  <2>3. cst' \in [Sessions -> ClientStates]
    BY <1>0, <1>5 DEF ClientRequests
  <2>. QED  BY <2>1, <2>2, <2>3, ConstantTypes, ClientSendsType
<1>6. CASE ClientHeartbeat(s)
  <2>. DEFINE last == (cseq[s] + SeqMod - 1) % SeqMod
  <2>1. cseq[s] \in Nat /\ SeqMod \in Nat \ {0} /\ cseq[s] + SeqMod - 1 \in Nat
    BY <1>0, BrokerAssumption DEF SeqNums
  <2>2. last \in SeqNums
    BY <2>1 DEF SeqNums
  <2>. HIDE DEF last
  <2>3. [sub |-> "HEARTBEAT", last |-> last] \in Submessage
    BY <2>2 DEF Submessage
  <2>4. <<[sub |-> "HEARTBEAT", last |-> last]>> \in Seq(Submessage)
    BY <2>3
  <2>5. ClientSends(s, RealSid, STREAM_NONE, <<[sub |-> "HEARTBEAT", last |-> last]>>)
    BY <1>6 DEF ClientHeartbeat, last
  <2>6. cst' \in [Sessions -> ClientStates]
    BY <1>0, <1>6 DEF ClientHeartbeat
  <2>. QED  BY <2>4, <2>5, <2>6, ConstantTypes, ClientSendsType
<1>7. CASE ClientRead(s)
  <2>. DEFINE m == Head(broker_to_rmw[s])
  <2>1. /\ broker_to_rmw' \in [Sessions -> Seq(OutMsg)] /\ Bounded(broker_to_rmw')
        /\ m \in OutMsg
    BY <1>0, <1>7, QueueGet DEF ClientRead, ReadReply
  <2>2. /\ cst' = cst \/ cst' = [cst EXCEPT ![s] = "up"]
        /\ acked' = acked \/ (m.sub = "ACKNACK" /\ acked' = [acked EXCEPT ![s] = m.first_unacked])
        /\ UNCHANGED <<rmw_to_broker, key, cseq, nwrites, brokerVars>>
    BY <1>7 DEF ClientRead
  <2>. HIDE DEF m
  <2>3. /\ cst' \in [Sessions -> ClientStates]
        /\ acked' \in [Sessions -> SeqNums]
    BY <1>0, <2>1, <2>2, OutMsgFields DEF ClientStates
  <2>. QED  BY <2>1, <2>2, <2>3 DEF brokerVars, tableVars, threadVars, TypeInv, TypeOK,
                                    SendOK, FanOK, Bounded
<1>. QED
  BY <1>1, <1>2, <1>3, <1>4, <1>5, <1>6, <1>7 DEF ClientStep

\* A reply to the message in hand, on any stream, has a header of the right type.
LEMMA ReplyHeaderType ==
    ASSUME TypeInv, NEW stream \in StreamIds
    PROVE  /\ ReplyHeader(stream) \in Header
           /\ [sessions EXCEPT ![cur.idx] = Bumped(@, stream)] \in [Sessions -> SessionState]
<1>1. /\ cur.idx \in Sessions /\ cur.sid \in SessionIds /\ cur.key \in Keys
      /\ sessions \in [Sessions -> SessionState]
  BY DEF TypeInv, TypeOK
<1>2. /\ SeqFor(sessions[cur.idx], stream) \in SeqNums
      /\ Bumped(sessions[cur.idx], stream) \in SessionState
  BY <1>1, SeqForType
<1>. QED  BY <1>1, <1>2, HeaderType DEF ReplyHeader

\* The steps that take a message and those that send one.
LEMMA LoopStepType ==
    ASSUME TypeInv,
           \/ BrokerPoll \/ BrokerSend \/ MessageDone \/ broker_quiesce
           \/ \E s \in Sessions : BrokerTake(s) \/ BrokerMiss(s)
    PROVE  TypeInv'
<1>0. /\ rmw_to_broker \in [Sessions -> Seq(InMsg)] /\ Bounded(rmw_to_broker)
      /\ broker_to_rmw \in [Sessions -> Seq(OutMsg)] /\ Bounded(broker_to_rmw)
      /\ out \in [to : Sessions, msg : OutMsg \cup {Unused}]
      /\ ready \subseteq Sessions
  BY DEF TypeInv, TypeOK, Bounded
<1>. USE DEF transportVars, clientVars, tableVars, threadVars, staticVars
<1>1. CASE BrokerPoll
  <2>1. /\ ready' \subseteq Sessions /\ bpc = "poll" /\ bpc' = "scan"
        /\ UNCHANGED <<rmw_to_broker, broker_to_rmw, staticVars, cur, body, out, fan>>
    BY <1>1 DEF BrokerPoll, PollReady
  <2>. QED  BY <2>1 DEF TypeInv, TypeOK, SendOK, FanOK
<1>2. CASE BrokerSend
  <2>1. /\ bpc = "send" /\ bpc' = AfterSend /\ out' = NoReply
        /\ SendQueued(out.to, out.msg) \/ SendTimeout(out.to)
        /\ UNCHANGED <<rmw_to_broker, ready, staticVars, cur, body, fan>>
    BY <1>2 DEF BrokerSend, SendReturns
  <2>2. out.msg \in OutMsg /\ out.to \in Sessions
    BY <1>0, <2>1 DEF TypeInv, SendOK
  <2>3. broker_to_rmw' \in [Sessions -> Seq(OutMsg)] /\ Bounded(broker_to_rmw')
    <3>1. CASE SendTimeout(out.to)
      BY <1>0, <3>1 DEF SendTimeout
    <3>2. CASE SendQueued(out.to, out.msg)
      BY <1>0, <2>2, <3>2, QueuePut DEF SendQueued
    <3>. QED  BY <2>1, <3>1, <3>2
  <2>4. /\ out' \in [to : Sessions, msg : OutMsg \cup {Unused}]
        /\ bpc' \in {"sub", "fan"} /\ (bpc' = "fan" => fan.todo # {})
    BY <2>1, ConstantTypes DEF NoReply, AfterSend
  <2>. QED  BY <2>1, <2>3, <2>4 DEF TypeInv, TypeOK, SendOK, FanOK, Bounded
<1>3. CASE MessageDone
  <2>1. /\ bpc' = "poll"
        /\ UNCHANGED <<transportVars, staticVars, cur, body, out, fan>>
    BY <1>3 DEF MessageDone
  <2>. QED  BY <2>1 DEF TypeInv, TypeOK, SendOK, FanOK
<1>4. CASE broker_quiesce
  <2>1. /\ broker_quiet' \in BOOLEAN
        /\ UNCHANGED <<transportVars, clientVars, sessions, tableVars, threadVars, logged>>
    BY <1>4, Zenon DEF broker_quiesce
  <2>. QED  BY <2>1 DEF TypeInv, TypeOK, SendOK, FanOK
<1>5. ASSUME NEW s \in Sessions, BrokerMiss(s) PROVE TypeInv'
  <2>1. /\ ready' \subseteq Sessions /\ bpc = "scan" /\ bpc' \in {"poll", "scan"}
        /\ UNCHANGED <<rmw_to_broker, broker_to_rmw, staticVars, cur, body, out, fan>>
    BY <1>0, <1>5 DEF BrokerMiss, ScanMiss
  <2>. QED  BY <2>1 DEF TypeInv, TypeOK, SendOK, FanOK
<1>6. ASSUME NEW s \in Sessions, BrokerTake(s) PROVE TypeInv'
  <2>. DEFINE m == Head(rmw_to_broker[s])
  <2>1. /\ bpc = "scan" /\ ScanTake(s)
        /\ UNCHANGED <<broker_to_rmw, staticVars, fan>>
    BY <1>6 DEF BrokerTake
  <2>2. /\ rmw_to_broker' \in [Sessions -> Seq(InMsg)] /\ Bounded(rmw_to_broker')
        /\ m \in InMsg /\ ready' = {}
    BY <1>0, <2>1, QueueGet DEF ScanTake
  <2>3. \/ bpc' = "poll" /\ UNCHANGED <<cur, body, out>>
        \/ /\ cur' = [idx |-> s, sid |-> m.hdr.sid, stream |-> m.hdr.stream, key |-> m.hdr.key]
           /\ body' = m.body
           /\ \/ bpc' = "send" /\ out' = [to |-> s, msg |-> AckNack(m.hdr, Inc(m.hdr.seq))]
              \/ bpc' = "sub" /\ UNCHANGED out
    BY <1>6 DEF BrokerTake, Send
  <2>. HIDE DEF m
  <2>4. /\ m.hdr.sid \in SessionIds /\ m.hdr.stream \in StreamIds /\ m.hdr.key \in Keys
        /\ m.hdr.seq \in SeqNums /\ m.body \in Seq(Submessage)
    BY <2>2 DEF InMsg, Header
  <2>5. AckNack(m.hdr, Inc(m.hdr.seq)) \in OutMsg
    <3>1. m.hdr.seq \in Nat
      BY <2>4, BrokerAssumption DEF SeqNums
    <3>. QED  BY <2>4, <3>1, IncType, AckNackType
  <2>6. /\ cur' \in [idx : Sessions, sid : SessionIds, stream : StreamIds, key : Keys]
        /\ body' \in Seq(Submessage)
        /\ out' \in [to : Sessions, msg : OutMsg \cup {Unused}]
        /\ bpc' \in {"poll", "send", "sub"}
        /\ bpc' = "send" => out'.msg \in OutMsg
    BY <2>3, <2>4, <2>5 DEF TypeInv, TypeOK
  <2>. QED  BY <2>1, <2>2, <2>6 DEF TypeInv, TypeOK, SendOK, FanOK, Bounded
<1>. QED  BY <1>1, <1>2, <1>3, <1>4, <1>5, <1>6

\* handle_create leaves every table well typed, and every entry where it was.
LEMMA CreateTables ==
    ASSUME TypeInv, handle_create
    PROVE  /\ topics' \in [1 .. MaxTopics -> TopicEnt \cup {Unused}]
           /\ datawriters' \in [1 .. MaxDataWriters -> WriterEnt \cup {Unused}]
           /\ datareaders' \in [1 .. MaxDataReaders -> ReaderEnt \cup {Unused}]
           /\ \A i \in 1 .. MaxDataReaders : datareaders[i] # Unused
                 => /\ datareaders'[i] # Unused
                    /\ datareaders'[i].session = datareaders[i].session
                    /\ datareaders'[i].id = datareaders[i].id
           /\ UniqueEntities => UniqueEntities'
<1>. DEFINE m == Head(body)
            ent == [session |-> cur.idx, id |-> m.id, name |-> m.name]
            ep  == [session |-> cur.idx, id |-> m.id, topic |-> m.topic]
<1>1. /\ body \in Seq(Submessage) /\ body # <<>> /\ m.sub = "CREATE" /\ cur.idx \in Sessions
      /\ topics \in [1 .. MaxTopics -> TopicEnt \cup {Unused}]
      /\ datawriters \in [1 .. MaxDataWriters -> WriterEnt \cup {Unused}]
      /\ datareaders \in [1 .. MaxDataReaders -> ReaderEnt \cup {Unused}]
  BY DEF TypeInv, TypeOK, handle_create, Handling
<1>2. m \in Submessage
  BY <1>1
<1>3. /\ topics' = topics \/ (m.id \in TopicIds /\ topics' = Register(topics, ent))
      /\ datawriters' = datawriters
           \/ (m.id \in WriterIds /\ datawriters' = Register(datawriters, ep))
      /\ datareaders' = datareaders
           \/ (m.id \in ReaderIds /\ datareaders' = Register(datareaders, ep))
  BY DEF handle_create
<1>. HIDE DEF m
<1>4. /\ m.id \in TopicIds => ent \in TopicEnt /\ ent # Unused
      /\ m.id \in WriterIds => ep \in WriterEnt /\ ep # Unused
      /\ m.id \in ReaderIds => ep \in ReaderEnt /\ ep # Unused
  BY <1>1, <1>2, SubmessageFields, UnusedAssumption DEF TopicEnt, WriterEnt, ReaderEnt
<1>. HIDE DEF ent, ep
<1>n. MaxTopics \in Nat /\ MaxDataWriters \in Nat /\ MaxDataReaders \in Nat
  BY BrokerAssumption
<1>d. /\ DOMAIN topics = 1 .. MaxTopics
      /\ DOMAIN datawriters = 1 .. MaxDataWriters
      /\ DOMAIN datareaders = 1 .. MaxDataReaders
  BY <1>1
<1>5. /\ topics' \in [1 .. MaxTopics -> TopicEnt \cup {Unused}]
      /\ NoTwins(topics) => NoTwins(topics')
  <2>1. CASE topics' = topics
    BY <1>1, <2>1
  <2>2. CASE m.id \in TopicIds /\ topics' = Register(topics, ent)
    <3>1. /\ \/ Register(topics, ent) = topics
             \/ \E a \in 1 .. MaxTopics : Register(topics, ent) = [topics EXCEPT ![a] = ent]
          /\ NoTwins(topics) => NoTwins(Register(topics, ent))
      BY <1>n, <1>d, <1>4, <2>2, RegisterSlot
    <3>2. ASSUME NEW a \in 1 .. MaxTopics
          PROVE  [topics EXCEPT ![a] = ent] \in [1 .. MaxTopics -> TopicEnt \cup {Unused}]
      BY <1>1, <1>4, <2>2
    <3>. QED  BY <1>1, <2>2, <3>1, <3>2
  <2>. QED  BY <1>3, <2>1, <2>2
<1>6. /\ datawriters' \in [1 .. MaxDataWriters -> WriterEnt \cup {Unused}]
      /\ NoTwins(datawriters) => NoTwins(datawriters')
  <2>1. CASE datawriters' = datawriters
    BY <1>1, <2>1
  <2>2. CASE m.id \in WriterIds /\ datawriters' = Register(datawriters, ep)
    <3>1. /\ \/ Register(datawriters, ep) = datawriters
             \/ \E a \in 1 .. MaxDataWriters : Register(datawriters, ep) = [datawriters EXCEPT ![a] = ep]
          /\ NoTwins(datawriters) => NoTwins(Register(datawriters, ep))
      BY <1>n, <1>d, <1>4, <2>2, RegisterSlot
    <3>2. ASSUME NEW a \in 1 .. MaxDataWriters
          PROVE  [datawriters EXCEPT ![a] = ep] \in [1 .. MaxDataWriters -> WriterEnt \cup {Unused}]
      BY <1>1, <1>4, <2>2
    <3>. QED  BY <1>1, <2>2, <3>1, <3>2
  <2>. QED  BY <1>3, <2>1, <2>2
<1>7. /\ datareaders' \in [1 .. MaxDataReaders -> ReaderEnt \cup {Unused}]
      /\ NoTwins(datareaders) => NoTwins(datareaders')
      /\ \A i \in 1 .. MaxDataReaders : datareaders[i] # Unused
            => /\ datareaders'[i] # Unused
               /\ datareaders'[i].session = datareaders[i].session
               /\ datareaders'[i].id = datareaders[i].id
  <2>1. CASE datareaders' = datareaders
    BY <1>1, <2>1
  <2>2. CASE m.id \in ReaderIds /\ datareaders' = Register(datareaders, ep)
    <3>1. /\ \/ Register(datareaders, ep) = datareaders
             \/ \E a \in 1 .. MaxDataReaders : Register(datareaders, ep) = [datareaders EXCEPT ![a] = ep]
          /\ \A i \in 1 .. MaxDataReaders : datareaders[i] # Unused
                => /\ Register(datareaders, ep)[i] # Unused
                   /\ Register(datareaders, ep)[i].session = datareaders[i].session
                   /\ Register(datareaders, ep)[i].id = datareaders[i].id
          /\ NoTwins(datareaders) => NoTwins(Register(datareaders, ep))
      BY <1>n, <1>d, <1>4, <2>2, RegisterSlot
    <3>2. ASSUME NEW a \in 1 .. MaxDataReaders
          PROVE  [datareaders EXCEPT ![a] = ep] \in [1 .. MaxDataReaders -> ReaderEnt \cup {Unused}]
      BY <1>1, <1>4, <2>2
    <3>3. datareaders' \in [1 .. MaxDataReaders -> ReaderEnt \cup {Unused}]
      BY <1>1, <2>2, <3>1, <3>2
    <3>. QED  BY <2>2, <3>1, <3>3
  <2>. QED  BY <1>3, <2>1, <2>2
<1>. QED  BY <1>5, <1>6, <1>7 DEF UniqueEntities

\* The name an endpoint resolves to is a topic name, or there is none.
LEMMA NameOfType ==
    ASSUME TypeInv, NEW ep
    PROVE  NameOf(ep) \in Names \cup {Unused}
<1>1. topics \in [1 .. MaxTopics -> TopicEnt \cup {Unused}] /\ MaxTopics \in Nat
  BY BrokerAssumption DEF TypeInv, TypeOK
<1>2. ASSUME NEW s, NEW id
      PROVE  \/ Find(topics, s, id) = NULL
             \/ /\ Find(topics, s, id) \in 1 .. MaxTopics
                /\ topics[Find(topics, s, id)] # Unused
  BY <1>1, FindSlot
<1>. QED  BY <1>1, <1>2 DEF NameOf, TopicEnt

\* The submessage handlers, and the fan-out of a write.
LEMMA HandlerType ==
    ASSUME TypeInv,
           \/ handle_create_client \/ handle_create \/ handle_get_info
           \/ handle_delete \/ handle_heartbeat \/ SkipSubmessage
           \/ handle_write_data \/ EmitDone \/ send_data \/ NoSubscriber
    PROVE  TypeInv'
<1>. DEFINE m == Head(body)
<1>0. /\ body \in Seq(Submessage)
      /\ cur \in [idx : Sessions, sid : SessionIds, stream : StreamIds, key : Keys]
      /\ sessions \in [Sessions -> SessionState]
      /\ datawriters \in [1 .. MaxDataWriters -> WriterEnt \cup {Unused}]
      /\ datareaders \in [1 .. MaxDataReaders -> ReaderEnt \cup {Unused}]
      /\ out \in [to : Sessions, msg : OutMsg \cup {Unused}]
      /\ fan \in [todo : SUBSET (1 .. MaxDataReaders), data : Data \cup {Unused},
                  name : Names \cup {Unused}]
  BY DEF TypeInv, TypeOK
<1>00. body # <<>> => m \in Submessage /\ Tail(body) \in Seq(Submessage)
  BY <1>0
<1>. USE DEF transportVars, clientVars, tableVars, HandlerKeeps
<1>. HIDE DEF m
\* What all the handlers that reply have in common.
<1>r. ASSUME NEW msg \in OutMsg, NEW to \in Sessions, HandlerKeeps, Consumed, body # <<>>,
             Send(to, msg), UNCHANGED <<fan, logged>>,
             sessions' \in [Sessions -> SessionState],
             cur' \in [idx : Sessions, sid : SessionIds, stream : StreamIds, key : Keys],
             topics' \in [1 .. MaxTopics -> TopicEnt \cup {Unused}],
             datawriters' \in [1 .. MaxDataWriters -> WriterEnt \cup {Unused}],
             datareaders' \in [1 .. MaxDataReaders -> ReaderEnt \cup {Unused}],
             \A i \in 1 .. MaxDataReaders : datareaders[i] # Unused => datareaders'[i] # Unused
      PROVE  TypeInv'
  <2>1. /\ body' \in Seq(Submessage) /\ bpc' = "send"
        /\ out' \in [to : Sessions, msg : OutMsg \cup {Unused}] /\ out'.msg \in OutMsg
    BY <1>r, <1>00 DEF Consumed, Send
  <2>2. FanOK'
    BY <1>0, <1>r, <2>1 DEF TypeInv, FanOK
  <2>. QED  BY <1>r, <2>1, <2>2 DEF TypeInv, TypeOK, SendOK
<1>1. CASE handle_create_client
  <2>. DEFINE fresh == FreshSession(m)
              msg == [sub |-> "STATUS_AGENT",
                      hdr |-> put_msg_header(m.sid, STREAM_NONE, fresh.seq_none, m.key)]
  <2>1. /\ body # <<>> /\ m.sub = "CREATE_CLIENT"
        /\ sessions' = [sessions EXCEPT ![cur.idx] = Bumped(fresh, STREAM_NONE)]
        /\ cur' = [cur EXCEPT !.sid = m.sid, !.key = m.key]
        /\ Send(cur.idx, msg) /\ Consumed /\ HandlerKeeps
        /\ UNCHANGED <<tableVars, fan, logged>>
    BY <1>1 DEF handle_create_client, Handling, m
  <2>2. m.sid \in SessionIds /\ m.key \in Keys
    BY <1>00, <2>1, SubmessageFields
  <2>3. fresh \in SessionState
    BY <2>2, ConstantTypes DEF FreshSession, SessionState, NoSession
  <2>4. fresh.seq_none \in SeqNums /\ Bumped(fresh, STREAM_NONE) \in SessionState
    BY <2>3, SeqForType, ConstantTypes DEF SessionState
  <2>. HIDE DEF fresh
  <2>5. msg \in OutMsg
    BY <2>2, <2>4, HeaderType, ConstantTypes DEF OutMsg
  <2>. HIDE DEF msg
  <2>6. /\ sessions' \in [Sessions -> SessionState]
        /\ cur' \in [idx : Sessions, sid : SessionIds, stream : StreamIds, key : Keys]
        /\ cur.idx \in Sessions
    BY <1>0, <2>1, <2>2, <2>4
  <2>. QED  BY <1>0, <1>r, <2>1, <2>5, <2>6 DEF TypeInv, TypeOK
\* send_status and send_info.
<1>s. ASSUME NEW id \in ObjectIds, send_status(id)
      PROVE  /\ Send(cur.idx, [sub |-> "STATUS", hdr |-> ReplyHeader(StatusStream), id |-> id])
             /\ [sub |-> "STATUS", hdr |-> ReplyHeader(StatusStream), id |-> id] \in OutMsg
             /\ sessions' \in [Sessions -> SessionState]
  <2>1. StatusStream \in StreamIds
    BY <1>0, ConstantTypes DEF StatusStream
  <2>2. ReplyHeader(StatusStream) \in Header
    BY <2>1, ReplyHeaderType
  <2>3. [sub |-> "STATUS", hdr |-> ReplyHeader(StatusStream), id |-> id] \in OutMsg
    BY <2>2 DEF OutMsg
  <2>. QED  BY <1>s, <2>1, <2>3, ReplyHeaderType DEF send_status
<1>2. CASE handle_create
  <2>1. /\ body # <<>> /\ m.sub = "CREATE" /\ send_status(m.id) /\ Consumed /\ HandlerKeeps
        /\ UNCHANGED <<cur, fan, logged>>
    BY <1>2 DEF handle_create, Handling, m
  <2>2. m.id \in ObjectIds
    BY <1>00, <2>1, SubmessageFields
  <2>. DEFINE msg == [sub |-> "STATUS", hdr |-> ReplyHeader(StatusStream), id |-> m.id]
  <2>3. Send(cur.idx, msg) /\ msg \in OutMsg /\ sessions' \in [Sessions -> SessionState]
    BY <1>s, <2>1, <2>2
  <2>. HIDE DEF msg
  <2>4. /\ topics' \in [1 .. MaxTopics -> TopicEnt \cup {Unused}]
        /\ datawriters' \in [1 .. MaxDataWriters -> WriterEnt \cup {Unused}]
        /\ datareaders' \in [1 .. MaxDataReaders -> ReaderEnt \cup {Unused}]
        /\ \A i \in 1 .. MaxDataReaders : datareaders[i] # Unused => datareaders'[i] # Unused
    BY <1>2, CreateTables
  <2>. QED  BY <1>0, <1>r, <2>1, <2>3, <2>4
<1>3. CASE handle_get_info
  <2>. DEFINE msg == [sub |-> "INFO", hdr |-> ReplyHeader(STREAM_NONE), id |-> m.id]
  <2>1. /\ body # <<>> /\ m.sub = "GET_INFO" /\ Consumed /\ HandlerKeeps
        /\ Send(cur.idx, msg)
        /\ sessions' = [sessions EXCEPT ![cur.idx] = Bumped(@, STREAM_NONE)]
        /\ UNCHANGED <<tableVars, cur, fan, logged>>
    BY <1>3 DEF handle_get_info, Handling, send_info, m
  <2>2. m.id \in ObjectIds
    BY <1>00, <2>1, SubmessageFields
  <2>3. ReplyHeader(STREAM_NONE) \in Header /\ sessions' \in [Sessions -> SessionState]
    BY <2>1, ReplyHeaderType, ConstantTypes
  <2>4. msg \in OutMsg
    BY <2>2, <2>3 DEF OutMsg
  <2>. HIDE DEF msg
  <2>. QED  BY <1>0, <1>r, <2>1, <2>3, <2>4 DEF TypeInv, TypeOK
<1>4. CASE handle_delete
  <2>1. /\ body # <<>> /\ m.sub = "DELETE" /\ send_status(m.id) /\ Consumed /\ HandlerKeeps
        /\ UNCHANGED <<tableVars, cur, fan, logged>>
    BY <1>4 DEF handle_delete, Handling, m
  <2>2. m.id \in ObjectIds
    BY <1>00, <2>1, SubmessageFields
  <2>. DEFINE msg == [sub |-> "STATUS", hdr |-> ReplyHeader(StatusStream), id |-> m.id]
  <2>3. Send(cur.idx, msg) /\ msg \in OutMsg /\ sessions' \in [Sessions -> SessionState]
    BY <1>s, <2>1, <2>2
  <2>. HIDE DEF msg
  <2>. QED  BY <1>0, <1>r, <2>1, <2>3 DEF TypeInv, TypeOK
<1>5. CASE handle_heartbeat
  <2>. DEFINE msg == AckNack(cur, Inc(m.last))
  <2>1. /\ body # <<>> /\ m.sub = "HEARTBEAT" /\ Consumed /\ HandlerKeeps
        /\ Send(cur.idx, msg)
        /\ UNCHANGED <<sessions, tableVars, cur, fan, logged>>
    BY <1>5 DEF handle_heartbeat, Handling, m
  <2>2. m.last \in Nat
    BY <1>00, <2>1, SubmessageFields, BrokerAssumption DEF SeqNums
  <2>3. msg \in OutMsg
    BY <1>0, <2>2, IncType, AckNackType
  <2>. HIDE DEF msg
  <2>. QED  BY <1>0, <1>r, <2>1, <2>3 DEF TypeInv, TypeOK
<1>6. CASE SkipSubmessage
  <2>1. /\ body' \in Seq(Submessage) /\ HandlerKeeps
        /\ UNCHANGED <<bpc, out, sessions, tableVars, cur, fan, logged>>
    BY <1>6, <1>00 DEF SkipSubmessage, Handling, Consumed
  <2>. QED  BY <2>1 DEF TypeInv, TypeOK, SendOK, FanOK
<1>7. CASE handle_write_data
  <2>. DEFINE dw == Find(datawriters, cur.idx, m.id)
              name == IF dw = NULL THEN Unused ELSE NameOf(datawriters[dw])
  <2>1. /\ body # <<>> /\ m.sub = "WRITE_DATA" /\ Consumed /\ HandlerKeeps
        /\ UNCHANGED <<out, sessions, tableVars, cur, logged>>
        /\ \/ UNCHANGED <<bpc, fan>> /\ bpc = "sub"
           \/ /\ name # Unused
              /\ fan' = [todo |-> Subscribers(name), data |-> m.data, name |-> name]
              /\ bpc' \in {"fan", "emit"}
    BY <1>7 DEF handle_write_data, Handling, m
  <2>2. m.data \in Data /\ body' \in Seq(Submessage)
    BY <1>00, <2>1, SubmessageFields DEF Consumed
  <2>3. name # Unused => name \in Names
    BY NameOfType
  <2>. HIDE DEF name
  <2>4. /\ Subscribers(name) \subseteq 1 .. MaxDataReaders
        /\ \A i \in Subscribers(name) : datareaders[i] # Unused
    BY <1>0 DEF Subscribers
  <2>5. CASE UNCHANGED <<bpc, fan>>
    BY <2>1, <2>2, <2>5 DEF TypeInv, TypeOK, SendOK, FanOK
  <2>6. CASE /\ name # Unused /\ bpc' \in {"fan", "emit"}
             /\ fan' = [todo |-> Subscribers(name), data |-> m.data, name |-> name]
    <3>1. /\ fan' \in [todo : SUBSET (1 .. MaxDataReaders), data : Data \cup {Unused},
                       name : Names \cup {Unused}]
          /\ bpc' # "send"
      BY <2>2, <2>3, <2>4, <2>6
    <3>2. FanOK'
      BY <1>0, <2>1, <2>2, <2>3, <2>4, <2>6 DEF FanOK
    <3>. QED  BY <2>1, <2>2, <2>6, <3>1, <3>2 DEF TypeInv, TypeOK, SendOK
  <2>. QED  BY <2>1, <2>5, <2>6
<1>8. CASE EmitDone
  <2>1. /\ bpc = "emit" /\ bpc' = "fan" /\ logged' = logged \cup {<<fan.name, fan.data>>}
        /\ HandlerKeeps /\ UNCHANGED <<out, sessions, tableVars, cur, body, fan>>
    BY <1>8 DEF EmitDone
  <2>2. fan.name \in Names /\ fan.data \in Data
    BY <2>1 DEF TypeInv, FanOK
  <2>3. logged' \subseteq Names \X Data
    BY <2>1, <2>2 DEF TypeInv, TypeOK
  <2>. QED  BY <2>1, <2>2, <2>3 DEF TypeInv, TypeOK, SendOK, FanOK
<1>9. CASE send_data
  <2>. DEFINE i == Lowest(fan.todo)
              r == datareaders[i]
              target == sessions[r.session]
              hdr == put_msg_header(target.session_id, STREAM_THRESH_REL,
                                    SeqFor(target, STREAM_THRESH_REL), target.key)
              msg == [sub |-> "DATA", id |-> r.id, data |-> fan.data, hdr |-> hdr]
  <2>1. /\ bpc = "fan" /\ fan.todo # {}
        /\ Send(r.session, msg)
        /\ sessions' = [sessions EXCEPT ![r.session] = Bumped(@, STREAM_THRESH_REL)]
        /\ fan' = NoFan \/ fan' = [fan EXCEPT !.todo = @ \ {i}]
        /\ HandlerKeeps /\ UNCHANGED <<tableVars, cur, body, logged>>
    BY <1>9 DEF send_data
  <2>2. i \in fan.todo
    <3>1. fan.todo \in SUBSET Nat
      BY <1>0
    <3>. QED  BY <2>1, <3>1, LowestInSet
  <2>. HIDE DEF i
  <2>3. r \in ReaderEnt
    BY <1>0, <2>2 DEF TypeInv, FanOK
  <2>. HIDE DEF r
  <2>4. r.session \in Sessions /\ r.id \in ReaderIds /\ fan.data \in Data
    BY <2>1, <2>3 DEF ReaderEnt, TypeInv, FanOK
  <2>5. target \in SessionState
    BY <1>0, <2>4
  <2>6. /\ SeqFor(target, STREAM_THRESH_REL) \in SeqNums
        /\ Bumped(target, STREAM_THRESH_REL) \in SessionState
        /\ target.session_id \in SessionIds /\ target.key \in Keys
    BY <2>5, SeqForType, ConstantTypes DEF SessionState
  <2>7. hdr \in Header
    BY <2>6, HeaderType, ConstantTypes
  <2>. HIDE DEF hdr
  <2>8. msg \in OutMsg
    BY <2>4, <2>7 DEF OutMsg
  <2>. HIDE DEF msg
  <2>9. /\ sessions' \in [Sessions -> SessionState]
        /\ out' \in [to : Sessions, msg : OutMsg \cup {Unused}] /\ out'.msg \in OutMsg
        /\ bpc' = "send"
    BY <1>0, <2>1, <2>4, <2>6, <2>8 DEF Send
  <2>10. /\ fan' \in [todo : SUBSET (1 .. MaxDataReaders), data : Data \cup {Unused},
                      name : Names \cup {Unused}]
         /\ fan'.todo \subseteq fan.todo
         /\ fan'.todo # {} => fan'.data = fan.data /\ fan'.name = fan.name
    BY <1>0, <2>1 DEF NoFan
  <2>11. FanOK'
    BY <2>1, <2>9, <2>10 DEF TypeInv, FanOK
  <2>. QED  BY <2>1, <2>9, <2>10, <2>11 DEF TypeInv, TypeOK, SendOK
<1>10. CASE NoSubscriber
  <2>1. /\ bpc' = "sub" /\ fan' = NoFan /\ HandlerKeeps
        /\ UNCHANGED <<out, sessions, tableVars, cur, body, logged>>
    BY <1>10 DEF NoSubscriber
  <2>2. /\ fan' \in [todo : SUBSET (1 .. MaxDataReaders), data : Data \cup {Unused},
                     name : Names \cup {Unused}]
        /\ fan'.todo = {}
    BY <2>1 DEF NoFan
  <2>. QED  BY <2>1, <2>2 DEF TypeInv, TypeOK, SendOK, FanOK
<1>. QED
  BY <1>1, <1>2, <1>3, <1>4, <1>5, <1>6, <1>7, <1>8, <1>9, <1>10

\* Every reachable state of the broker, its clients and their queues is well
\* typed: in particular no queue ever exceeds LOOPBACK_DEPTH, every reply has a
\* complete header, and the fan-out only reads registered slots.
THEOREM TypeCorrect == Spec => [](TypeOK /\ SendOK /\ FanOK)
<1>1. Init => TypeInv
  BY InitType
<1>2. TypeInv /\ [Next]_vars => TypeInv'
  <2>. SUFFICES ASSUME TypeInv, [Next]_vars PROVE TypeInv'
    OBVIOUS
  <2>1. CASE UNCHANGED vars
    BY <2>1 DEF vars, transportVars, clientVars, tableVars, threadVars,
                TypeInv, TypeOK, SendOK, FanOK
  <2>2. CASE \E s \in Sessions : ClientStep(s)
    BY <2>2, ClientStepType
  <2>3. CASE BrokerStep \/ broker_quiesce
    BY <2>3, LoopStepType, HandlerType DEF BrokerStep
  <2>. QED  BY <2>1, <2>2, <2>3 DEF Next
<1>. QED  BY <1>1, <1>2, PTL DEF Spec, TypeInv

-----------------------------------------------------------------------------
(* The tables. *)

\* Only handle_create writes an entity table.
LEMMA TablesStep ==
    ASSUME Next
    PROVE  handle_create \/ UNCHANGED tableVars
<1>1. CASE \E s \in Sessions : ClientStep(s)
  BY <1>1 DEF ClientStep, ClientOpens, ClientOpened, ClientCreatesSession, ClientPings,
              ClientRequests, ClientHeartbeat, ClientRead, ClientSends, brokerVars
<1>2. CASE broker_quiesce
  BY <1>2 DEF broker_quiesce
<1>3. CASE BrokerStep
  BY <1>3 DEF BrokerStep, BrokerPoll, BrokerSend, MessageDone, BrokerTake, BrokerMiss,
              staticVars, handle_create_client, handle_get_info, handle_delete,
              handle_heartbeat, SkipSubmessage, handle_write_data, EmitDone, send_data,
              NoSubscriber
<1>. QED  BY <1>1, <1>2, <1>3 DEF Next

\* find_topic and find_ep, which stop at their first match, never miss an entry:
\* whatever is created again, in whichever session and at whatever moment, no
\* two slots carry the same session and object id.
THEOREM EntitiesUnique == Spec => []UniqueEntities
<1>1. Init => UniqueEntities
  BY DEF Init, UniqueEntities, NoTwins
<1>2. TypeInv /\ UniqueEntities /\ [Next]_vars => UniqueEntities'
  <2>. SUFFICES ASSUME TypeInv, UniqueEntities, [Next]_vars PROVE UniqueEntities'
    OBVIOUS
  <2>1. CASE handle_create
    BY <2>1, CreateTables
  <2>2. CASE UNCHANGED tableVars
    BY <2>2 DEF tableVars, UniqueEntities, NoTwins
  <2>3. CASE UNCHANGED vars
    BY <2>2, <2>3 DEF vars
  <2>. QED  BY <2>1, <2>2, <2>3, TablesStep
<1>3. Spec => []TypeInv
  BY TypeCorrect DEF TypeInv
<1>. QED  BY <1>1, <1>2, <1>3, PTL DEF Spec

-----------------------------------------------------------------------------
(* Routing.  RoutedToOwner looks at the queue with the reply in the thread's *)
(* hands behind it; as an inductive invariant it is said of each of the two. *)

HasReader(table, s, id) == \E r \in DOMAIN table : /\ table[r] # Unused
                                                   /\ table[r].session = s
                                                   /\ table[r].id = id
Owned(table, m, s) == m.sub = "DATA" => HasReader(table, s, m.id)
RouteInv ==
    /\ \A s \in Sessions : \A i \in 1 .. Len(broker_to_rmw[s]) :
          Owned(datareaders, broker_to_rmw[s][i], s)
    /\ bpc = "send" => Owned(datareaders, out.msg, out.to)

\* A datareader, once registered, stays registered.
LEMMA ReadersStay ==
    ASSUME TypeInv, [Next]_vars, NEW s, NEW id, HasReader(datareaders, s, id)
    PROVE  HasReader(datareaders', s, id)
<1>0. datareaders \in [1 .. MaxDataReaders -> ReaderEnt \cup {Unused}]
  BY DEF TypeInv, TypeOK
<1>1. CASE handle_create
  <2>1. /\ datareaders' \in [1 .. MaxDataReaders -> ReaderEnt \cup {Unused}]
        /\ \A i \in 1 .. MaxDataReaders : datareaders[i] # Unused
              => /\ datareaders'[i] # Unused
                 /\ datareaders'[i].session = datareaders[i].session
                 /\ datareaders'[i].id = datareaders[i].id
    BY <1>1, CreateTables
  <2>. QED  BY <1>0, <2>1 DEF HasReader
<1>2. CASE UNCHANGED datareaders
  BY <1>2 DEF HasReader
<1>. QED  BY <1>1, <1>2, TablesStep DEF vars, tableVars

\* What a step may do to the replies of a session: purge them, take the oldest,
\* or store the reply in the thread's hands behind them.
LEMMA RepliesStep ==
    ASSUME TypeInv, Next
    PROVE  \/ UNCHANGED broker_to_rmw
           \/ \E s \in Sessions : OpenPurgeIncoming(s) \/ ReadReply(s)
           \/ bpc = "send" /\ SendQueued(out.to, out.msg)
<1>1. CASE \E s \in Sessions : ClientStep(s)
  BY <1>1 DEF ClientStep, ClientOpens, ClientOpened, ClientCreatesSession, ClientPings,
              ClientRequests, ClientHeartbeat, ClientRead, ClientSends
<1>2. CASE broker_quiesce
  BY <1>2 DEF broker_quiesce, transportVars
<1>3. CASE BrokerStep
  BY <1>3 DEF BrokerStep, BrokerPoll, BrokerSend, MessageDone, BrokerTake, BrokerMiss,
              SendTimeout, HandlerKeeps, transportVars, handle_create_client, handle_create,
              handle_get_info, handle_delete, handle_heartbeat, SkipSubmessage,
              handle_write_data, EmitDone, send_data, NoSubscriber
<1>. QED  BY <1>1, <1>2, <1>3 DEF Next

\* What a step may do to the reply in the thread's hands: only send_data puts a
\* DATA there.
LEMMA ReplyStep ==
    ASSUME TypeInv, Next, bpc' = "send"
    PROVE  \/ bpc = "send" /\ out' = out
           \/ out'.msg.sub # "DATA"
           \/ send_data
<1>1. CASE \E s \in Sessions : ClientStep(s)
  <2>1. PICK s \in Sessions : ClientStep(s)
    BY <1>1
  <2>2. CASE ClientOpened(s)
    BY <2>2 DEF ClientOpened, SendReturns, AfterSend
  <2>3. CASE UNCHANGED threadVars
    BY <2>3 DEF threadVars
  <2>. QED
    BY <2>1, <2>2, <2>3 DEF ClientStep, ClientOpens, ClientCreatesSession, ClientPings,
              ClientRequests, ClientHeartbeat, ClientRead, ClientSends, brokerVars
<1>2. CASE broker_quiesce
  BY <1>2 DEF broker_quiesce, threadVars
<1>3. CASE BrokerPoll \/ BrokerSend \/ MessageDone \/ SkipSubmessage \/ EmitDone \/ NoSubscriber
  BY <1>3 DEF BrokerPoll, BrokerSend, SendReturns, AfterSend, MessageDone, SkipSubmessage,
              Handling, EmitDone, NoSubscriber
<1>4. CASE \E s \in Sessions : BrokerTake(s) \/ BrokerMiss(s)
  BY <1>4 DEF BrokerTake, BrokerMiss, Send, AckNack
<1>5. CASE handle_create_client \/ handle_heartbeat
  BY <1>5 DEF handle_create_client, handle_heartbeat, Send, AckNack
<1>6. CASE handle_create \/ handle_get_info \/ handle_delete
  BY <1>6 DEF handle_create, handle_get_info, handle_delete, send_status, send_info, Send
<1>7. CASE handle_write_data
  BY <1>7 DEF handle_write_data, Handling
<1>8. CASE send_data
  BY <1>8
<1>. QED  BY <1>1, <1>2, <1>3, <1>4, <1>5, <1>6, <1>7, <1>8 DEF Next, BrokerStep

\* send_data addresses a registered reader of the session whose queue it uses.
LEMMA SentIsOwned ==
    ASSUME TypeInv, send_data
    PROVE  Owned(datareaders, out'.msg, out'.to)
<1>. DEFINE i == Lowest(fan.todo)
<1>1. fan.todo # {} /\ fan.todo \in SUBSET Nat
  BY DEF TypeInv, TypeOK, send_data
<1>2. i \in fan.todo
  BY <1>1, LowestInSet
<1>3. out'.to = datareaders[i].session /\ out'.msg.id = datareaders[i].id
  BY DEF send_data, Send
<1>. HIDE DEF i
<1>4. i \in DOMAIN datareaders /\ datareaders[i] # Unused
  BY <1>2 DEF TypeInv, FanOK
<1>. QED  BY <1>3, <1>4 DEF Owned, HasReader

\* Every step keeps every DATA on its way owned by the session it goes to.
LEMMA RouteStep ==
    ASSUME TypeInv, RouteInv, [Next]_vars
    PROVE  RouteInv'
<1>0. broker_to_rmw \in [Sessions -> Seq(OutMsg)]
  BY DEF TypeInv, TypeOK
<1>1. CASE UNCHANGED vars
  BY <1>1 DEF RouteInv, Owned, HasReader, vars, transportVars, tableVars, threadVars
<1>2. CASE Next
  <2>1. \A m, s : Owned(datareaders, m, s) => Owned(datareaders', m, s)
    BY ReadersStay DEF Owned
  <2>2. ASSUME NEW s \in Sessions, NEW i \in 1 .. Len(broker_to_rmw'[s])
        PROVE  Owned(datareaders', broker_to_rmw'[s][i], s)
    <3>1. CASE UNCHANGED broker_to_rmw
      BY <2>1, <2>2, <3>1 DEF RouteInv
    <3>2. CASE \E t \in Sessions : OpenPurgeIncoming(t) \/ ReadReply(t)
      <4>1. PICK t \in Sessions : OpenPurgeIncoming(t) \/ ReadReply(t)
        BY <3>2
      <4>2. CASE t # s
        <5>1. broker_to_rmw'[s] = broker_to_rmw[s]
          BY <1>0, <4>1, <4>2 DEF OpenPurgeIncoming, ReadReply
        <5>. QED  BY <2>1, <2>2, <5>1 DEF RouteInv
      <4>3. CASE OpenPurgeIncoming(t) /\ t = s
        BY <1>0, <2>2, <4>3 DEF OpenPurgeIncoming
      <4>4. CASE ReadReply(t) /\ t = s
        <5>1. broker_to_rmw'[s] = Tail(broker_to_rmw[s]) /\ broker_to_rmw[s] # <<>>
          BY <1>0, <4>4 DEF ReadReply
        <5>2. /\ i + 1 \in 1 .. Len(broker_to_rmw[s])
              /\ broker_to_rmw'[s][i] = broker_to_rmw[s][i + 1]
          BY <1>0, <2>2, <5>1
        <5>. QED  BY <2>1, <5>2 DEF RouteInv
      <4>. QED  BY <4>1, <4>2, <4>3, <4>4
    <3>3. CASE bpc = "send" /\ SendQueued(out.to, out.msg)
      <4>1. /\ out.to \in Sessions /\ out.msg \in OutMsg /\ Owned(datareaders, out.msg, out.to)
            /\ broker_to_rmw' = [broker_to_rmw EXCEPT ![out.to] = Append(@, out.msg)]
        BY <3>3 DEF TypeInv, TypeOK, SendOK, RouteInv, SendQueued
      <4>2. CASE s # out.to
        <5>1. broker_to_rmw'[s] = broker_to_rmw[s]
          BY <1>0, <4>1, <4>2
        <5>. QED  BY <2>1, <2>2, <5>1 DEF RouteInv
      <4>3. CASE s = out.to
        <5>1. broker_to_rmw'[s] = Append(broker_to_rmw[s], out.msg)
          BY <1>0, <4>1, <4>3
        <5>2. \/ i \in 1 .. Len(broker_to_rmw[s]) /\ broker_to_rmw'[s][i] = broker_to_rmw[s][i]
              \/ broker_to_rmw'[s][i] = out.msg
          BY <1>0, <2>2, <4>1, <5>1
        <5>. QED  BY <2>1, <4>1, <4>3, <5>2 DEF RouteInv
      <4>. QED  BY <4>2, <4>3
    <3>. QED  BY <1>2, <3>1, <3>2, <3>3, RepliesStep
  <2>3. ASSUME bpc' = "send" PROVE Owned(datareaders', out'.msg, out'.to)
    <3>1. CASE bpc = "send" /\ out' = out
      BY <2>1, <3>1 DEF RouteInv
    <3>2. CASE out'.msg.sub # "DATA"
      BY <3>2 DEF Owned
    <3>3. CASE send_data
      BY <2>1, <3>3, SentIsOwned
    <3>. QED  BY <1>2, <2>3, <3>1, <3>2, <3>3, ReplyStep
  <2>. QED  BY <2>2, <2>3 DEF RouteInv
<1>. QED  BY <1>1, <1>2

\* A DATA submessage is always for a datareader that the session whose queue it
\* is in has created: nothing that happens between the fan-out's table scan, its
\* blocking sends and the client's read can misdirect it.
THEOREM DataRouted == Spec => []RoutedToOwner
<1>1. Init => RouteInv
  BY DEF Init, TransportInit, RouteInv
<1>2. Spec => []TypeInv
  BY TypeCorrect DEF TypeInv
<1>3. TypeInv /\ RouteInv /\ [Next]_vars => RouteInv'
  BY RouteStep
<1>4. TypeInv /\ RouteInv => RoutedToOwner
  <2>. SUFFICES ASSUME TypeInv, RouteInv, NEW s \in Sessions, NEW i \in DataTo(s)
                PROVE  HasReader(datareaders, s, InFlight(s)[i].id)
    BY DEF RoutedToOwner, HasReader
  <2>1. i \in DOMAIN InFlight(s) /\ InFlight(s)[i].sub = "DATA"
    BY DEF DataTo
  <2>2. broker_to_rmw[s] \in Seq(OutMsg)
    BY DEF TypeInv, TypeOK
  <2>3. CASE bpc = "send" /\ out.to = s
    <3>1. InFlight(s) = Append(broker_to_rmw[s], out.msg) /\ out.msg \in OutMsg
      BY <2>3 DEF InFlight, TypeInv, SendOK
    <3>2. \/ i \in 1 .. Len(broker_to_rmw[s]) /\ InFlight(s)[i] = broker_to_rmw[s][i]
          \/ InFlight(s)[i] = out.msg
      BY <2>1, <2>2, <3>1
    <3>. QED  BY <2>1, <2>3, <3>2 DEF RouteInv, Owned
  <2>4. CASE ~(bpc = "send" /\ out.to = s)
    <3>1. InFlight(s) = broker_to_rmw[s]
      BY <2>4 DEF InFlight
    <3>2. i \in 1 .. Len(broker_to_rmw[s])
      BY <2>1, <2>2, <3>1
    <3>. QED  BY <2>1, <3>1, <3>2 DEF RouteInv, Owned
  <2>. QED  BY <2>3, <2>4
<1>. QED  BY <1>1, <1>2, <1>3, <1>4, PTL DEF Spec
=============================================================================
