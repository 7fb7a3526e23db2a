------------------------- MODULE MCExecutionResults -------------------------
EXTENDS ExecutionResults

CONSTANTS c1

MCStorages == {"postgres", "sqlite", "shared"}
=============================================================================
