-------------------------- MODULE MC_SecureChannel ---------------------------
EXTENDS SecureChannel, TLC

CONSTANTS hObs, hOp, arm, flash

\* An observer and an operator; arming needs OPERATOR, flashing ADMIN.
HostRoles == (hObs :> 1) @@ (hOp :> 2)
CommandRoles == (arm :> 2) @@ (flash :> 3)
=============================================================================
