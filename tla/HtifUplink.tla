------------------------------ MODULE HtifUplink ------------------------------
(***************************************************************************)
(* The way from the target to the micro-ROS agent.                         *)
(*                                                                         *)
(* The target's only thread prints text (printk) and writes frames         *)
(* (htif_transport_write, samples/micro_ros_multinode/src/transport_htif.c) *)
(* to the HTIF console, one byte after the other; spike_to_proxy           *)
(* (tools/microros/htif_proxy.py) takes the bytes from the pipe, one at a  *)
(* time, and sends them to the user's console or to the agent.             *)
(***************************************************************************)
EXTENDS Hdlc, SequencesExt

CONSTANTS Texts,        \* what the target may print
          Payloads,     \* what the client may write
          MaxOutputs,   \* bound: how much it prints and writes
          PipeSize      \* capacity of spike's stdout

\* What the instances give the constants.
UplinkAssumption ==
    /\ Texts \subseteq Seq(Byte) /\ Payloads \subseteq Seq(Byte)
    /\ MaxOutputs \in Nat /\ PipeSize \in Nat \ {0}

VARIABLES emit,     \* bytes the target has still to put out in this call
          stdout,   \* the pipe
          parser,   \* the proxy's HdlcParser
          console,  \* what the user has seen
          agent,    \* the payloads written to the agent's pty
          printed,  \* texts printed so far
          written   \* payloads passed to htif_transport_write so far

vars == <<emit, stdout, parser, console, agent, printed, written>>

Init == /\ emit = <<>> /\ stdout = <<>> /\ parser = NewParser
        /\ console = <<>> /\ agent = <<>> /\ printed = <<>> /\ written = <<>>

Busy == Len(printed) + Len(written) < MaxOutputs

Printk ==
    /\ emit = <<>> /\ Busy
    /\ \E t \in Texts : emit' = t /\ printed' = Append(printed, t)
    /\ UNCHANGED <<stdout, parser, console, agent, written>>

htif_transport_write ==
    /\ emit = <<>> /\ Busy
    /\ \E p \in Payloads : emit' = hdlc_encode(p) /\ written' = Append(written, p)
    /\ UNCHANGED <<stdout, parser, console, agent, printed>>

\* uart_poll_out
PollOut ==
    /\ emit # <<>> /\ Len(stdout) < PipeSize
    /\ stdout' = Append(stdout, Head(emit)) /\ emit' = Tail(emit)
    /\ UNCHANGED <<parser, console, agent, printed, written>>

spike_to_proxy ==
    LET b == Head(stdout)
    IN  /\ stdout # <<>>
        /\ stdout' = Tail(stdout)
        /\ parser' = ProxyFeed(parser, b)
        /\ console' = console \o ProxyConsole(parser, b)
        /\ agent' = IF Completes(parser, b) THEN Append(agent, Payload(parser.buf)) ELSE agent
        /\ UNCHANGED <<emit, printed, written>>

Next == Printk \/ htif_transport_write \/ PollOut \/ spike_to_proxy

Spec == Init /\ [][Next]_vars /\ WF_vars(PollOut) /\ WF_vars(spike_to_proxy)

-----------------------------------------------------------------------------
Drained == emit = <<>> /\ stdout = <<>>

\* Every message of the client reaches the agent, once, unchanged and in order,
\* whatever is printed around it: text that looks like the start of a frame, or
\* like an escape, costs no message.
MessagesArrive == IsPrefix(agent, written) /\ (Drained => agent = written)

\* What the user sees is printed text, in order, and never a byte of a message.
ConsoleShowsText == IsPrefix(console, FlattenSeq(printed))
=============================================================================
