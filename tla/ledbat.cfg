SPECIFICATION Spec
CONSTANTS
    TS_MOD = 16
    CUR_DELAY_SIZE = 2
    DELAY_BASE_HISTORY = 2
    BASE_SLOT = 0
    MIN_WINDOW_SIZE = 2
    MAX_CWND_INCREASE = 4
    TARGET = 3
    SIZE_MAX = 99
    SHIFT_LIMIT = 2
    DRIFT_LIMIT = 0
    DRIFT_WEIGHT = 2
    PENALTY_DIV = 1
    AVERAGE_SLOT = 0
    MAXED_OUT_AGE = 0
    MAX_WINDOW_DECAY = 1
    MIN_RTO = 3
    INITIAL_RTO = 6
    INITIAL_RTT_VAR = 2
    MS = 2
    StartTime = 2
    Packets <- MCPackets
    PacketSizes = {4}
    SndBufs = {6, 9}
    MaxTime = 4
    MaxPackets = 3
INVARIANTS
    WindowBounds
    QueuingDelayNotNegative
    BaseIsWindowMin
    
    RttWithinSamples
PROPERTIES
    DelayNeverGrowsDefined
CHECK_DEADLOCK FALSE
