-------------------------- MODULE MCGuardedIdentity --------------------------
(***************************************************************************)
(* A small instance of GuardedIdentity for TLC: an administrator and an    *)
(* ordinary user, who may create the mutex but not open it.                *)
(***************************************************************************)
EXTENDS GuardedIdentity

CONSTANTS admin, user, k1

AdminAndUser == {admin, user}
OneAdmin == {admin}
OneKeyName == {k1}

\* With a TPM, and with none.
MCPlatforms ==
    {[tpm |-> "healthy", software |-> "healthy"], [tpm |-> "missing", software |-> "healthy"]}

MCInitialStates == {NoFile("absent"), NoFile("corrupt")}
EveryFault == FaultName
=============================================================================
