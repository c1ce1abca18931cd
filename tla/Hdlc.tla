-------------------------------- MODULE Hdlc --------------------------------
(***************************************************************************)
(* The frames that share the HTIF byte stream with console text:           *)
(*                                                                         *)
(*     FLAG  <stuffed payload>  <stuffed CRC16-CCITT, high byte first> FLAG *)
(*                                                                         *)
(* with the writers and the three parsers of the repository: the target's  *)
(* (samples/micro_ros_multinode/src/transport_htif.c), the proxy's         *)
(* (tools/microros/htif_proxy.py) and the topic log decoder's              *)
(* (tools/microros/topic_log_decoder.py).  Bytes are numbers.              *)
(***************************************************************************)
EXTENDS Naturals, Sequences

FLAG == 126
ESC  == 125
Byte == 0 .. 255

\* b ^ (1 << k)
FlipBit(b, k) == IF (b \div 2^k) % 2 = 0 THEN b + 2^k ELSE b - 2^k
XorEsc(b) == FlipBit(b, 5)

-----------------------------------------------------------------------------
(* CRC16-CCITT: polynomial 0x1021 (bits 12, 5 and 0), start value 0xFFFF,   *)
(* most significant bit first.                                              *)

CrcBit(crc, bit) ==
    LET shift[c \in 0 .. 2^16 - 1] ==
            IF c \div 2^15 = bit THEN (2 * c) % 2^16
            ELSE FlipBit(FlipBit(FlipBit((2 * c) % 2^16, 12), 5), 0)
    IN  shift[crc]

CrcByte(crc, b) ==
    LET after[k \in 0 .. 8] == IF k = 0 THEN crc
                               ELSE CrcBit(after[k - 1], (b \div 2^(8 - k)) % 2)
    IN  after[8]

crc16_ccitt(data) ==
    LET after[k \in 0 .. Len(data)] == IF k = 0 THEN 2^16 - 1
                                       ELSE CrcByte(after[k - 1], data[k])
    IN  after[Len(data)]

CrcBytes(data) == <<crc16_ccitt(data) \div 256, crc16_ccitt(data) % 256>>

-----------------------------------------------------------------------------
(* Writing. *)

\* emit_escaped, htif_emit_escaped, htif_emit_crc_byte.
Stuffed(b) == IF b \in {FLAG, ESC} THEN <<ESC, XorEsc(b)>> ELSE <<b>>

StuffedAll(raw) ==
    LET upto[k \in 0 .. Len(raw)] == IF k = 0 THEN <<>> ELSE upto[k - 1] \o Stuffed(raw[k])
    IN  upto[Len(raw)]

\* htif_transport_write, hdlc_encode and log_topic_emit: one frame.
hdlc_encode(payload) == <<FLAG>> \o StuffedAll(payload \o CrcBytes(payload)) \o <<FLAG>>

-----------------------------------------------------------------------------
(* Parsing.  A parser is its state and what it has gathered since the last   *)
(* FLAG; a step takes one byte.                                              *)

NewParser == [state |-> "OUT", buf |-> <<>>]
Between   == [state |-> "IN", buf |-> <<>>]      \* right after a FLAG

Payload(buf) == SubSeq(buf, 1, Len(buf) - 2)
Trailer(buf) == SubSeq(buf, Len(buf) - 1, Len(buf))

\* At a closing FLAG: at least one payload byte, and the CRC matches.
Valid(buf) == Len(buf) >= 3 /\ Trailer(buf) = CrcBytes(Payload(buf))

\* This byte completes a frame.
Completes(p, b) == p.state = "IN" /\ b = FLAG /\ Valid(p.buf)

\* One byte: outside a frame only a FLAG counts; inside, a FLAG ends and begins a
\* frame, ESC announces a stuffed byte, anything else is gathered.  full: there
\* is no room to gather it.
Gather(p, b, full) ==
    IF p.state = "OUT" THEN IF b = FLAG THEN Between ELSE p
    ELSE IF p.state = "IN" /\ b = FLAG THEN Between
    ELSE IF p.state = "IN" /\ b = ESC THEN [p EXCEPT !.state = "ESC"]
    ELSE IF full THEN NewParser
    ELSE [state |-> "IN", buf |-> Append(p.buf, IF p.state = "ESC" THEN XorEsc(b) ELSE b)]

\* The target, whose buffer holds limit bytes.  After a FLAG it is between
\* frames for good: only a run that does not fit sends it back to OUT.
feed_parser(p, b, limit) == Gather(p, b, Len(p.buf) >= limit)

\* Mutant of ProxyFeed: what is not a frame sends the parser back to OUT.
ProxyFeedGivesUp(p, b) ==
    IF p.state = "IN" /\ b = FLAG /\ ~Valid(p.buf) THEN NewParser ELSE Gather(p, b, FALSE)

\* The proxy: the same without a limit.
ProxyFeed(p, b) == Gather(p, b, FALSE)

\* What the proxy shows the user: the text before the first FLAG.
ProxyConsole(p, b) == IF p.state = "OUT" /\ b # FLAG THEN <<b>> ELSE <<>>

\* Mutant of DecoderFeed: a bad CRC, too, ends the search for a frame.
DecoderFeedGivesUp(p, b) ==
    IF p.state = "IN" /\ b = FLAG /\ Len(p.buf) >= 3 THEN NewParser ELSE ProxyFeed(p, b)

\* The log decoder goes back to OUT after a good frame; anything else that a
\* FLAG ends leaves it between frames.
DecoderFeed(p, b) == IF Completes(p, b) THEN NewParser ELSE ProxyFeed(p, b)
=============================================================================
