------------------------------- MODULE TopicLog -------------------------------
(***************************************************************************)
(* The topic log: the broker writes a record of every WRITE_DATA, as one   *)
(* frame, to the HTIF console that all threads print to                    *)
(* (lib/microros_local/src/broker.c, log_topic_emit), and                  *)
(* tools/microros/topic_log_decoder.py takes the records out again.        *)
(*                                                                         *)
(* The HTIF driver takes htif_lock for each byte; log_topic_emit holds it  *)
(* for its whole frame.  The decoder gets the bytes in the order in which  *)
(* they were put out, so it is stepped with each of them.                  *)
(***************************************************************************)
EXTENDS Hdlc, SequencesExt

CONSTANTS Printers,     \* the threads that print
          Texts,        \* what they may print
          Records,      \* [name, payload] pairs the broker may log
          MaxTexts,     \* bound: texts printed
          MaxRecords    \* bound: records logged

\* What the instances give the constants.
TopicLogAssumption ==
    /\ Texts \subseteq Seq(Byte) /\ MaxTexts \in Nat /\ MaxRecords \in Nat
    /\ \A r \in Records : r.name \in Seq(Byte) /\ r.payload \in Seq(Byte) /\ Len(r.name) <= 255

VARIABLES htif_lock,    \* held across a frame
          frame,        \* log_topic_emit: bytes left of the frame
          text,         \* per printer, bytes left of its text
          ntexts,       \* texts started
          logged,       \* records whose frame has been started
          parser,       \* the decoder's HdlcParser
          decoded       \* records the decoder has printed

vars == <<htif_lock, frame, text, ntexts, logged, parser, decoded>>

Init == /\ htif_lock = FALSE /\ frame = <<>> /\ logged = <<>>
        /\ text = [t \in Printers |-> <<>>] /\ ntexts = 0
        /\ parser = NewParser /\ decoded = <<>>

-----------------------------------------------------------------------------
\* decode_frame: the name, as long as the first byte says, then the payload.
decode_frame(f) ==
    IF 1 + f[1] > Len(f) THEN <<>>
    ELSE <<[name |-> SubSeq(f, 2, 1 + f[1]), payload |-> SubSeq(f, 2 + f[1], Len(f))]>>

\* The decoder's loop, for one byte.
Decode(b) ==
    /\ parser' = DecoderFeed(parser, b)
    /\ decoded' = IF Completes(parser, b) THEN decoded \o decode_frame(Payload(parser.buf))
                                          ELSE decoded

Printk(t) ==
    /\ text[t] = <<>> /\ ntexts < MaxTexts
    /\ \E x \in Texts : text' = [text EXCEPT ![t] = x]
    /\ ntexts' = ntexts + 1
    /\ UNCHANGED <<htif_lock, frame, logged, parser, decoded>>

\* uart_poll_out by a printing thread.
PrintByte(t) ==
    /\ text[t] # <<>> /\ ~htif_lock
    /\ Decode(Head(text[t]))
    /\ text' = [text EXCEPT ![t] = Tail(@)]
    /\ UNCHANGED <<htif_lock, frame, ntexts, logged>>

\* log_topic_emit: the lock is taken ...
LogStart ==
    /\ frame = <<>> /\ ~htif_lock /\ Len(logged) < MaxRecords
    /\ \E r \in Records :
         /\ frame' = hdlc_encode(<<Len(r.name)>> \o r.name \o r.payload)
         /\ logged' = Append(logged, r)
    /\ htif_lock' = TRUE
    /\ UNCHANGED <<text, ntexts, parser, decoded>>

\* ... and given back after the closing FLAG.
LogByte ==
    /\ frame # <<>>
    /\ Decode(Head(frame))
    /\ frame' = Tail(frame)
    /\ htif_lock' = (Len(frame) > 1)
    /\ UNCHANGED <<text, ntexts, logged>>

Next == LogStart \/ LogByte \/ \E t \in Printers : Printk(t) \/ PrintByte(t)

Spec == Init /\ [][Next]_vars

-----------------------------------------------------------------------------
\* Under any interleaving of two printing threads with the broker, the records
\* decoded are the records logged, in order, and none is missing once its frame
\* is out: a "~" in a text starts what looks like a frame, and the next real one
\* ends it.  (No text here has a "}".)
RecordsDecoded == /\ IsPrefix(decoded, logged)
                  /\ frame = <<>> => decoded = logged
=============================================================================
