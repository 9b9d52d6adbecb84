------------------------ MODULE MCMachineStateStore ------------------------
(***************************************************************************)
(* Small instances of MachineStateStore for TLC.                           *)
(***************************************************************************)
EXTENDS MachineStateStore, TLC

CONSTANTS p1, p2, r1, r2, t1, t2

OneAdmin == {p1}
Admins == {p1, p2}
MCRecord == {r1, r2}
MCTempName == {t1, t2}

AnyFault == FaultName
FullDisk == {"fill_fails"}

\* A scanner may open the one file and never the other.
OneHeld == {t2}
NoneHeld == {}

\* Administrators are alike; no property tells them apart.
Interchangeable == Permutations(Admins)
=============================================================================
