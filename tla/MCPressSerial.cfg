CONSTANTS
    MaxBuilds = 2
    Guids <- MCGuids
    AskedOrders <- MCOrders
SPECIFICATION PressSpec
INVARIANT ReseedKeepsSerial
CHECK_DEADLOCK FALSE
