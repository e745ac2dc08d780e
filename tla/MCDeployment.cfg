SPECIFICATION Spec
CONSTANTS
    RolledBack = {"accounts", "core", "reports"}
    MaxRollbacks = 2
INVARIANTS TablesStand SchemaIsDeclared
CHECK_DEADLOCK FALSE
