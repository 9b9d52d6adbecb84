---------------------------- MODULE RuntimeLicense ----------------------------
(***************************************************************************)
(* core/runtime_license.cpp: what a process holds of the credential it     *)
(* verified, and what it answers about an entitlement at a time.           *)
(***************************************************************************)
EXTENDS Credential

AbsentLicense == [state |-> "absent", credential |-> None]

FromVerification(result) ==
    IF result.status = "valid" /\ result.credential # None
    THEN [state |-> "valid", credential |-> result.credential]
    ELSE [state      |-> IF result.status = "unsupported" THEN "unsupported" ELSE "invalid",
          credential |-> None]

NotGranted == [granted |-> FALSE, value_u64 |-> None]

StartedBy(validity, now) == validity.not_before # None => now >= validity.not_before

\* Mutant: the last second is past the bound.
InForceToTheEnd(validity, now) ==
    /\ StartedBy(validity, now)
    /\ validity.kind = "bounded" => validity.not_after # None /\ now <= validity.not_after

InForce(validity, now) ==
    /\ StartedBy(validity, now)
    /\ validity.kind = "bounded" => validity.not_after # None /\ now < validity.not_after

\* The first entry of the id decides.
EntitlementView(license, entitlement_id, now) ==
    LET entitlements == license.credential.entitlements
        named == {i \in DOMAIN entitlements : entitlements[i].entitlement_id = entitlement_id}
        first == entitlements[Min(named)]
    IN  IF license.state = "valid" /\ named # {} /\ InForce(first.validity, now)
        THEN [granted |-> TRUE, value_u64 |-> first.max_u64]
        ELSE NotGranted
=============================================================================
