------------------------- MODULE MCRecoveryPlanning -------------------------
\* One issue of two grids and two runs of it, and maybe a replay.
EXTENDS RecoveryPlanning

MCIssueOf == [r \in Run |-> 1]
=============================================================================
