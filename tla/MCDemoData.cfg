SPECIFICATION Spec
CONSTANTS
    Written = {"own application", "named application", "named review", "named licence", "licensed return", "unlicensed return", "reviewed level", "other row", "uploaded output", "correction", "history", "replacing well", "well in aquifer", "moved logger", "inspection"}
    MaxWritten = 3
PROPERTIES WipeRemovesAll RefusedOnlyIfProtected
CHECK_DEADLOCK FALSE
