----------------------------- MODULE HtifDownlink -----------------------------
(***************************************************************************)
(* The way from the micro-ROS agent to the target.                         *)
(*                                                                         *)
(* tools/microros/htif_proxy.py: agent_to_spike reads what the agent has   *)
(* written to its pty, at most ChunkMax bytes, and writes it as one frame  *)
(* to spike's stdin; heartbeat_to_spike writes a zero byte every           *)
(* millisecond, because the target's GETC blocks on an empty stdin.  A     *)
(* lock keeps the two apart.  The pipe is bounded: a writer blocks, with   *)
(* the lock, while it is full.                                             *)
(*                                                                         *)
(* samples/micro_ros_multinode/src/transport_htif.c: htif_transport_read   *)
(* drains what is staged, or takes bytes from the pipe until a frame is    *)
(* complete or the deadline has passed.  The parser's state survives the   *)
(* call, but not htif_transport_open, which the client library may call    *)
(* again, as it does around a ping before there is a session.              *)
(***************************************************************************)
EXTENDS Hdlc, SequencesExt

CONSTANTS MaxPayload,   \* MAX_PAYLOAD
          ChunkMax,     \* 4096, what os.read asks for
          PipeSize,     \* capacity of spike's stdin
          AgentMsgs,    \* what the agent may write at a time
          MaxMsgs,      \* bound: how often it does
          MaxOpens,     \* bound: how often the client opens the transport again
          ReadLens      \* the buffer sizes the client reads with

ASSUME DownlinkAssumption ==
    /\ MaxPayload \in Nat \ {0} /\ ChunkMax \in Nat \ {0} /\ PipeSize \in Nat \ {0}
    /\ AgentMsgs \subseteq Seq(Byte) /\ <<>> \notin AgentMsgs
    /\ MaxMsgs \in Nat /\ MaxOpens \in Nat /\ ReadLens \subseteq Nat \ {0}

AccumSize == MaxPayload + 2     \* sizeof(parse_accum)

\* A run of heartbeats between two frames is never taken for a frame.
ASSUME HeartbeatAssumption ==
    \A n \in 0 .. AccumSize : ~Valid([i \in 1 .. n |-> 0])

VARIABLES
    pty,        \* bytes the agent has written, not yet read by the proxy
    apc, frame, \* agent_to_spike: "read", "lock", "write"; bytes left to write
    hpc,        \* heartbeat_to_spike: "sleep", "write"
    lock,       \* spike_stdin_lock: "free", "agent", "heartbeat"
    stdin,      \* the pipe
    rpc, len,   \* htif_transport_read: "idle", "poll", "getc"; its buffer size
    parser,     \* parse_state, parse_accum, parse_len
    staged,     \* the part of staged_payload not yet handed out
    delivered,  \* bytes handed to the client since the transport was opened
    got,        \* frames decoded since then
    opens,      \* times it was opened again
    earlier,    \* frames decoded before that
    nmsgs,      \* messages the agent has written
    chunks      \* the frames agent_to_spike has started

agentVars == <<pty, nmsgs>>
writerVars == <<apc, frame, hpc, lock, chunks>>
readerVars == <<rpc, len, parser, staged, delivered, got, opens, earlier>>
vars == <<agentVars, writerVars, stdin, readerVars>>

\* htif_transport_open has run, and the proxy's threads are started.
Init ==
    /\ pty = <<>> /\ nmsgs = 0
    /\ apc = "read" /\ frame = <<>> /\ hpc = "sleep" /\ lock = "free" /\ chunks = <<>>
    /\ stdin = <<>>
    /\ rpc = "idle" /\ len = 0 /\ parser = NewParser /\ staged = <<>> /\ delivered = <<>>
    /\ got = <<>> /\ opens = 0 /\ earlier = 0

-----------------------------------------------------------------------------
AgentWrites ==
    /\ nmsgs < MaxMsgs
    /\ \E m \in AgentMsgs : pty' = pty \o m
    /\ nmsgs' = nmsgs + 1
    /\ UNCHANGED <<writerVars, stdin, readerVars>>

(* agent_to_spike *)

ReadPty ==
    LET n == IF Len(pty) < ChunkMax THEN Len(pty) ELSE ChunkMax
        chunk == SubSeq(pty, 1, n)
    IN  /\ apc = "read" /\ pty # <<>>
        /\ pty' = SubSeq(pty, n + 1, Len(pty))
        /\ chunks' = Append(chunks, chunk)
        /\ frame' = hdlc_encode(chunk)
        /\ apc' = "lock"
        /\ UNCHANGED <<nmsgs, hpc, lock, stdin, readerVars>>

\* Mutant of AcquireForFrame: the first version of agent_to_spike, which the
\* one with the lock replaces.
AcquireNothing ==
    /\ apc = "lock"
    /\ apc' = "write"
    /\ UNCHANGED <<agentVars, frame, hpc, lock, chunks, stdin, readerVars>>

AcquireForFrame ==
    /\ apc = "lock" /\ lock = "free"
    /\ lock' = "agent" /\ apc' = "write"
    /\ UNCHANGED <<agentVars, frame, hpc, chunks, stdin, readerVars>>

WriteFrameByte ==
    /\ apc = "write" /\ Len(stdin) < PipeSize
    /\ stdin' = Append(stdin, Head(frame))
    /\ frame' = Tail(frame)
    /\ IF Len(frame) = 1 THEN apc' = "read" /\ lock' = "free" ELSE UNCHANGED <<apc, lock>>
    /\ UNCHANGED <<agentVars, hpc, chunks, readerVars>>

(* heartbeat_to_spike *)

AcquireForBeat ==
    /\ hpc = "sleep" /\ lock = "free"
    /\ lock' = "heartbeat" /\ hpc' = "write"
    /\ UNCHANGED <<agentVars, apc, frame, chunks, stdin, readerVars>>

\* Mutant of WriteBeat: the lock is kept over the sleep.
WriteBeatLocked ==
    /\ hpc = "write" /\ Len(stdin) < PipeSize
    /\ stdin' = Append(stdin, 0)
    /\ UNCHANGED <<agentVars, apc, frame, chunks, readerVars, hpc, lock>>

WriteBeat ==
    /\ hpc = "write" /\ Len(stdin) < PipeSize
    /\ stdin' = Append(stdin, 0)
    /\ hpc' = "sleep" /\ lock' = "free"
    /\ UNCHANGED <<agentVars, apc, frame, chunks, readerVars>>

(* htif_transport_open, called again *)

htif_transport_open ==
    /\ rpc = "idle" /\ opens < MaxOpens
    /\ parser' = NewParser /\ staged' = <<>>
    /\ delivered' = <<>> /\ got' = <<>>
    /\ opens' = opens + 1 /\ earlier' = earlier + Len(got)
    /\ UNCHANGED <<agentVars, writerVars, stdin, rpc, len>>

(* htif_transport_read *)

Least(a, b) == IF a < b THEN a ELSE b

\* The caller gets as much of what is staged as fits its buffer.
HandOut(bytes, n) ==
    /\ delivered' = delivered \o SubSeq(bytes, 1, Least(n, Len(bytes)))
    /\ staged' = SubSeq(bytes, Least(n, Len(bytes)) + 1, Len(bytes))

ReadStaged(n) ==
    /\ rpc = "idle" /\ staged # <<>>
    /\ HandOut(staged, n)
    /\ UNCHANGED <<agentVars, writerVars, stdin, rpc, len, parser, got, opens, earlier>>

ReadCall(n) ==
    /\ rpc = "idle" /\ staged = <<>>
    /\ rpc' = "poll" /\ len' = n
    /\ UNCHANGED <<agentVars, writerVars, stdin, parser, staged, delivered, got, opens, earlier>>

\* The deadline has passed when the loop looks at the clock ...
ReadTimeout ==
    /\ rpc = "poll"
    /\ rpc' = "idle"
    /\ UNCHANGED <<agentVars, writerVars, stdin, len, parser, staged, delivered, got, opens, earlier>>

\* ... or it goes for a byte, and GETC blocks until there is one.
ReadPoll ==
    /\ rpc = "poll"
    /\ rpc' = "getc"
    /\ UNCHANGED <<agentVars, writerVars, stdin, len, parser, staged, delivered, got, opens, earlier>>

ReadByte ==
    LET b == Head(stdin)
    IN  /\ rpc = "getc" /\ stdin # <<>>
        /\ stdin' = Tail(stdin)
        /\ parser' = feed_parser(parser, b, AccumSize)
        /\ IF Completes(parser, b)
           THEN /\ HandOut(Payload(parser.buf), len) /\ rpc' = "idle"
                /\ got' = Append(got, Payload(parser.buf))
           ELSE rpc' = "poll" /\ UNCHANGED <<delivered, staged, got>>
        /\ UNCHANGED <<agentVars, writerVars, len, opens, earlier>>

-----------------------------------------------------------------------------
Proxy == ReadPty \/ AcquireForFrame \/ WriteFrameByte
Heartbeat == AcquireForBeat \/ WriteBeat
Reader == ReadPoll \/ ReadByte
Client == htif_transport_open \/ \E n \in ReadLens : ReadStaged(n) \/ ReadCall(n)

Next == AgentWrites \/ Proxy \/ Heartbeat \/ Reader \/ ReadTimeout \/ Client

\* The proxy's threads and the target run; the clock, looked at again and again,
\* is past the deadline at some time; a mutex is handed to a waiting thread.
\* Nothing is assumed of the agent or of the client's next call.
Spec == /\ Init /\ [][Next]_vars
        /\ WF_vars(Heartbeat) /\ SF_vars(AcquireForFrame) /\ WF_vars(WriteFrameByte)
        /\ WF_vars(Reader) /\ SF_vars(ReadTimeout)

-----------------------------------------------------------------------------
\* The frames that fit the target's buffer.
Fits(chunk) == Len(chunk) <= MaxPayload
FittingOf(s) ==
    LET upto[k \in 0 .. Len(s)] == IF k = 0 THEN <<>>
                                   ELSE IF Fits(s[k]) THEN Append(upto[k - 1], s[k]) ELSE upto[k - 1]
    IN  upto[Len(s)]
Fitting == FittingOf(chunks)

\* Nothing but heartbeats is on its way.
Quiet == apc = "read" /\ \A i \in DOMAIN stdin : stdin[i] = 0

\* Every variable has its type; parse_accum, staged_payload and the pipe never
\* hold more than they can.
TypeOK ==
    /\ pty \in Seq(Byte) /\ nmsgs \in 0 .. MaxMsgs
    /\ apc \in {"read", "lock", "write"} /\ frame \in Seq(Byte)
    /\ hpc \in {"sleep", "write"} /\ lock \in {"free", "agent", "heartbeat"}
    /\ chunks \in Seq(Seq(Byte))
    /\ stdin \in Seq(Byte) /\ Len(stdin) <= PipeSize
    /\ rpc \in {"idle", "poll", "getc"} /\ len \in ReadLens \cup {0}
    /\ parser.state \in {"OUT", "IN", "ESC"}
    /\ parser.buf \in Seq(Byte) /\ Len(parser.buf) <= AccumSize
    /\ staged \in Seq(Byte) /\ Len(staged) <= MaxPayload
    /\ delivered \in Seq(Byte) /\ got \in Seq(Seq(Byte))
    /\ opens \in 0 .. MaxOpens /\ earlier \in Nat

\* What the client reads after an open is what the proxy framed, byte for byte:
\* a run of consecutive frames, less those that are too long for the target, and
\* never one that an earlier opening has seen.  Heartbeats before, between and
\* after frames, timeouts in the middle of one, a parser sent back to OUT by a
\* long silence, a long frame or an open in the middle of one, and short read
\* buffers change nothing.
DeliveredInOrder ==
    /\ delivered \o staged = FlattenSeq(got)
    /\ \E i \in earlier .. Len(Fitting) : IsPrefix(got, SubSeq(Fitting, i + 1, Len(Fitting)))

\* Nothing that fits is lost but what an open interrupts: once the last frame is
\* through, all have been decoded, less at most one for each time the transport
\* was opened again.
NothingFittingLost == Quiet => earlier + Len(got) + opens >= Len(Fitting)

\* The proxy's frames reach the client whole, in order and without a loss that the
\* buffers or an open do not explain (agent_to_spike, feed_parser, htif_transport_read).
FramesDelivered == TypeOK /\ DeliveredInOrder /\ NothingFittingLost

\* htif_transport_read returns, however silent the agent: the heartbeat keeps
\* GETC from blocking for ever, and a writer that fills the pipe is no obstacle.
ReadReturns == rpc # "idle" ~> rpc = "idle"

\* The agent's answers get through: a frame that waits for the lock is written
\* although heartbeats keep taking it, as long as the client keeps reading.
FrameWritten == []<>(rpc = "getc") => (apc = "lock" ~> apc = "read")

\* Neither side of the console waits for the other for ever: what the 10 ms heartbeat
\* of heartbeat_to_spike and the lock it shares with agent_to_spike are for.
DownlinkLive == ReadReturns /\ FrameWritten

\* What transport_htif.c says of the supported runtime path: ping_agent,
\* discovery and data flow all work normally, so what the agent writes arrives.
AgentBytesArrive == Quiet /\ pty = <<>> => delivered \o staged = FlattenSeq(chunks)
=============================================================================
