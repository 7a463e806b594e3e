SPECIFICATION DecoderSpec
CONSTANTS
    Logs <- TwoLogs
CHECK_DEADLOCK FALSE
INVARIANTS
    LinesSurviveCuts
