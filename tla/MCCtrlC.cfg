SPECIFICATION FairPipelineSpec
CONSTANTS
    Tokens = {t1}
    Workers = {w1}
    None = None
    ParseCapacity = 1
    EventCapacity = 1
    IntentCapacity = 2
    StallThreshold = 1
    MaxBackoff = 2
    MaxRetries = 1
    MaxIntentAge = 1
PROPERTIES CtrlCEndsMonitor
