SPECIFICATION Spec
CONSTANTS NUM_THREADS = 4
          CPUS = 4
          N = 4
          nHalf = 2
          Runs = 2
INVARIANT ResultMatches
CHECK_DEADLOCK FALSE
