SPECIFICATION Spec
CONSTANTS CTRL_ITERS = 10
          ROSE_CTRL_DIV = 3
INVARIANTS FusedInOrder Handover
PROPERTIES ImplementsLoop
CHECK_DEADLOCK FALSE
