SPECIFICATION MCSpec
CONSTANTS NUM_DRONES = 2
          NSTATES = 2
          HDR_LEN = 2
          ACT_BYTES = 1
          NS_BYTES = 1
          MAX_COUNT = 4
          CPUS = {2, 4}
          MAX_PACKETS = 4
          MAX_LOSS = 1
          Setups <- Checked
          MAX_STATES = 2
          STEPS = 3
          NHORIZON = 3
          CYCLES = 3
INVARIANTS LineSound BackInStep TextSound SetupSound
PROPERTIES Answered
CHECK_DEADLOCK FALSE
