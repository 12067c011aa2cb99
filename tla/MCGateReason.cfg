SPECIFICATION HistorySpec
CONSTANTS
    MinSends = 100
    MaxCount = 5
    Windows <- MCWindows
PROPERTIES ShutsOnDegradation
