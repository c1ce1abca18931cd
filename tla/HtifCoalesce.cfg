SPECIFICATION Spec
CONSTANTS MaxPayload = 3
          ChunkMax = 4
          PipeSize = 2
          AgentMsgs <- Messages
          MaxMsgs = 2
          MaxOpens = 0
          ReadLens = {2, 3}
INVARIANT AgentBytesArrive
