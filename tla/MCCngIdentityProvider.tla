----------------------- MODULE MCCngIdentityProvider -----------------------
(***************************************************************************)
(* Small instances of CngIdentityProvider for TLC.                         *)
(***************************************************************************)
EXTENDS CngIdentityProvider, TLC

CONSTANTS p1, p2, k1, k2

MCProcess == {p1, p2}
OneProcess == {p1}
MCKeyName == {k1, k2}

\* Laxity shows in stores that have keys only.
AllStores ==
    {s \in [health : Health, lax : BOOLEAN, erratic : BOOLEAN] :
        s.lax => s.health \in {"healthy", "offline"}}
ProperStore == {[health |-> "healthy", lax |-> FALSE, erratic |-> FALSE]}
AnyFault == FaultName
NoFault == {}

\* Processes are alike, and so are key names.
Interchangeable == Permutations(MCProcess) \cup Permutations(MCKeyName)
=============================================================================
