SPECIFICATION Spec
CONSTANTS NUM_DRONES = 2
          NSTATES = 2
          HDR_LEN = 4
          ACT_BYTES = 16
          NS_BYTES = 4
          MAX_COUNT = 3
          CPUS = {4}
          MAX_PACKETS = 4
          MAX_LOSS = 1
          Setups <- Flown
INVARIANT ResponsesAsDocumented
CHECK_DEADLOCK FALSE
