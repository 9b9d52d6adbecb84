-------------------------- MODULE MCIdentityManager --------------------------
(***************************************************************************)
(* Small instances of IdentityManager for TLC.                             *)
(***************************************************************************)
EXTENDS IdentityManager, TLC

CONSTANTS p1, p2, user, k1, k2

Admins == {p1, p2}
AdminsAndUser == {p1, p2, user}
OneKeyName == {k1}
MCKeyName == {k1, k2}

Platform(tpm, software) == [tpm |-> tpm, software |-> software]

\* With a TPM, with none, with one that cannot hold the key, with nothing at all.
MCPlatforms ==
    {Platform("healthy", "healthy"), Platform("missing", "healthy"),
     Platform("unfit", "healthy"), Platform("missing", "unfit")}

TpmPlatform == {Platform("healthy", "healthy")}

MCInitialStates == {NoFile(o) : o \in {"absent", "corrupt", "unsupported"}}
CleanMachine == {NoFile("absent")}

NoFaults == {}
KeepsKeys == FaultName \ {"key_loss"}
Orderly == FaultName \ (OrphanCauses \cup {"misload"})
WriteThrowing == {"write_throws"}

\* Administrators are alike, and so are key names: sound, no property names one.
Interchangeable == Permutations(Admins) \cup Permutations(MCKeyName)
=============================================================================
