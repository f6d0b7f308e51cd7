SPECIFICATION KeepAliveSpec
CONSTANTS
    Interval = 3
    Lag = 1
    Capacity = 2
    Networks <- MCNetworks
INVARIANTS SilenceDetected
PROPERTIES NoFalseAlarm
