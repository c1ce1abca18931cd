SPECIFICATION MCSpec
CONSTANTS MaxPayload = 3
          ChunkMax = 4
          PipeSize = 3
          AgentMsgs <- Messages
          MaxMsgs = 3
          MaxOpens = 1
          ReadLens = {2, 3}
          UpPipeSize = 2
          MaxOutputs = 4
          Printers = {p1, p2}
          MaxTexts = 3
          MaxRecords = 2
INVARIANTS FramesDelivered UplinkSound RecordsDecoded
PROPERTIES DownlinkLive
