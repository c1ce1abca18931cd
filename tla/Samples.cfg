SPECIFICATION MCSpec
CONSTANTS NUM_THREADS = 4
          Tiles = 2
          Runs = 2
          N = 2
          ATTEMPTS = 3
          MAX_ERRORS = 3
          MAX_FAULTS = 2
          MAX_RESETS = 2
          Digits = {0, 1, 5}
          MOTORS = 4
          MAX_CHARS = 5
          SPIN_DUTY_PCT = 10
          HIGH_DUTY_PCT = 95
          BYTE = 2
          Moving = {"x"}
          FLOW_FAULTS = 1
          FLOW_RESETS = 1
          ALIGN = 4
          Aligns = {1, 4}
          POOL = 24
          PTR = 2
          ITERS = 3
          MAX_BAKED = 1
          Sizes = {3, 4}
          NMODELS = 2
          MAX_SIG = 2
          SPINS = 3
          QUEUE = 2
          NT = 4
          HARTS = 2
          VLMAX = 4
          Dims = {1, 4, 5}
          TileSizes = {3, 4}
INVARIANTS PoolSound MotorsAsTold FlowTrusted ExecSound LifetimesSound AppsSound ThreadsSound MatlibMatches
PROPERTIES ProgramsEnd Recovers
CHECK_DEADLOCK FALSE
