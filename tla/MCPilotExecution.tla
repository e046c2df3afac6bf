-------------------------- MODULE MCPilotExecution --------------------------
(* Small instances of PilotExecution for TLC: one environment, so that what  *)
(* different requests ask for competes for it.                               *)
EXTENDS PilotExecution, TLC

CONSTANT e1

MCEnvironmentOf == [s \in Source |-> e1]

AllOperations == {"start", "resume", "cancel", "record-result",
                  "approve-rollback", "resume-rollback", "record-rollback"}

NoOperations == {}

\* One source at a time is there to be executed.
OneLive == {{s} : s \in Source}

Keys == Permutations(Key)
=============================================================================
