SPECIFICATION MCSpec
CONSTANTS CTRL_ITERS = 4
          VISION_DIV = 2
          LOOP_ITERS = 5
          SETTLE_ITERS = 1
          RAMP_ITERS = 2
          TOF_TRIES = 2
          INFER = 2
          FUSED_VISION_DIV = 2
          FRONT_WORDS = 3
          MAX_ROWS = 2
          TOF_FETCH_PERIOD_MS = 2
          MAX_TICK = 2
          MAX_RESETS = 1
          DT = 2
          Gravity = 2
          Component <- Components
          Variances = {0, 1, 2}
          Readings <- Measured
          PERIOD = 2
          MAX_TIME = 6
INVARIANTS VisionHandover NothingMixed KalmanSound RotationSound
PROPERTIES NavLive LoopSound TofTrusted AttitudeAccounted
CHECK_DEADLOCK FALSE
