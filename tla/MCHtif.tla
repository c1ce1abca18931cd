-------------------------------- MODULE MCHtif --------------------------------
(***************************************************************************)
(* The three ways over the HTIF console, one of which is in use:           *)
(*   "downlink"  HtifDownlink: agent, proxy, target                        *)
(*   "uplink"    HtifUplink: target, proxy, agent                          *)
(*   "log"       TopicLog: broker, console, decoder                        *)
(* The variables of the other two keep their initial values.               *)
(***************************************************************************)
EXTENDS MCHtifDownlink

CONSTANTS UpPipeSize, MaxOutputs, Printers, MaxTexts, MaxRecords

\* Texts with "~" (FLAG) and "}" (ESC) in them; like all of the sample's, they end with a
\* newline.
Lines  == {<<10>>, <<FLAG, 10>>, <<65, FLAG, 66, 67, 10>>, <<ESC, 10>>, <<65, ESC, FLAG, 10>>}
Sent   == {<<FLAG>>, <<1, ESC>>}

\* What two threads print while the broker logs.
Tildes == {<<FLAG>>, <<65, FLAG, 10>>, <<66, 67, 10>>}
Logged == {[name |-> <<112>>, payload |-> <<FLAG, 1>>], [name |-> <<ESC>>, payload |-> <<>>]}

VARIABLES
    way,
    emit, stdout, proxyParser, console, agent, printed, written,        \* HtifUplink
    htif_lock, logFrame, text, ntexts, logged, decoderParser, decoded   \* TopicLog

upVars  == <<emit, stdout, proxyParser, console, agent, printed, written>>
logVars == <<htif_lock, logFrame, text, ntexts, logged, decoderParser, decoded>>

Up  == INSTANCE HtifUplink WITH Texts <- Lines, Payloads <- Sent, PipeSize <- UpPipeSize,
                                parser <- proxyParser
Log == INSTANCE TopicLog WITH Texts <- Tildes, Records <- Logged,
                              frame <- logFrame, parser <- decoderParser

ASSUME HtifAssumption == Up!UplinkAssumption /\ Log!TopicLogAssumption

MCInit == way \in {"downlink", "uplink", "log"} /\ Init /\ Up!Init /\ Log!Init

MCNext ==
    /\ UNCHANGED way
    /\ \/ way = "downlink" /\ Next /\ UNCHANGED <<upVars, logVars>>
       \/ way = "uplink" /\ Up!Next /\ UNCHANGED <<vars, logVars>>
       \/ way = "log" /\ Log!Next /\ UNCHANGED <<vars, upVars>>
       \/ way # "downlink" /\ UNCHANGED <<vars, upVars, logVars>>

\* The fairness of HtifDownlink, where it is in use.
MCSpec ==
    /\ MCInit /\ [][MCNext]_<<way, vars, upVars, logVars>>
    /\ WF_vars(way = "downlink" /\ Heartbeat) /\ SF_vars(way = "downlink" /\ AcquireForFrame)
    /\ WF_vars(way = "downlink" /\ WriteFrameByte) /\ WF_vars(way = "downlink" /\ Reader)
    /\ SF_vars(way = "downlink" /\ ReadTimeout)

-----------------------------------------------------------------------------
\* Every message of the client reaches the agent, once, unchanged and in order, whatever
\* is printed around it, and what the user sees on the proxy's console is printed text,
\* in order, and never a byte of a message (htif_transport_write, spike_to_proxy).
UplinkSound == Up!MessagesArrive /\ Up!ConsoleShowsText

\* Under any interleaving of two printing threads with log_topic_emit, the decoder
\* prints the records logged, in order, and none is missing once its frame is out.
RecordsDecoded == Log!RecordsDecoded
=============================================================================
