SPECIFICATION Spec
CONSTANTS NSessions = 2
          Depth = 2
          TopicIds = {"t1", "t2"}
          WriterIds = {"w1"}
          ReaderIds = {"r1"}
          OtherIds = {"p1"}
          Names = {"ping", "pong"}
          Values = {1}
          MaxTopics = 2
          MaxDataWriters = 1
          MaxDataReaders = 1
          SeqMod = 64
          RealSid = 129
          History = 4
          LogDevice = FALSE
          MaxOpens <- ReopeningOpens
          MaxWrites <- ReopeningWrites
          ClientBody <- Reopening
          Unused = Unused
INVARIANTS TypeOK LivesApart AckNotAhead
PROPERTIES AckNeverRetracted
CHECK_DEADLOCK FALSE
