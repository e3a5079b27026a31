SPECIFICATION Spec
CONSTANTS
    Buttons = {"stopScan", "continousScanning"}
    Ticks = 6
    DEBOUNCE_TIME = 2
INVARIANTS
    TypeOK
    OnePressOneRequest
PROPERTY OnlyLongRestsAreIgnored
