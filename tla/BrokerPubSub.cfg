SPECIFICATION Spec
CONSTANTS NSessions = 2
          Depth = 2
          TopicIds = {"t1", "t2"}
          WriterIds = {"w1"}
          ReaderIds = {"r1"}
          OtherIds = {}
          Names = {"ping", "pong"}
          Values = {1}
          MaxTopics = 3
          MaxDataWriters = 1
          MaxDataReaders = 2
          SeqMod = 64
          RealSid = 129
          History = 4
          LogDevice = TRUE
          MaxOpens <- OpenOnce
          MaxWrites <- PubSubWrites
          ClientBody <- PubSub
          Unused = Unused
INVARIANTS UniqueEntities RoutedToOwner DeliveredAsPublished ReliableInOrder
CHECK_DEADLOCK FALSE
