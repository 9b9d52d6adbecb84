------------------------------ MODULE Credential ------------------------------
(***************************************************************************)
(* wire/credential.cpp and wire/qcbor_codec.cpp: the credential a license  *)
(* authority signs, its one encoding, and verify_credential.  A value of   *)
(* bytes is what a decoder can tell of it: whether it can be decoded,      *)
(* whether the encoder would have written just these bytes, and what it    *)
(* says.  A signature is known by its key and by the message it signs.     *)
(***************************************************************************)
EXTENDS Integers, FiniteSetsExt, SequencesExt, TLC

CONSTANTS
    ProductPrefix,    \* of an entitlement id: the products it may belong to, each with a
                      \* dot and a name behind it
    MaxItems,         \* kMaximumItems
    MaxEntitlements,  \* kMaximumEntitlements
    None              \* an optional without a value

ASSUME LimitsAssumption == MaxItems \in Nat /\ MaxEntitlements \in Nat

AlgorithmId == "axl-ecdsa-p256-sha256-v1"
CredentialDomain == "axlicense.credential"

Present(optional) == IF optional = None THEN 0 ELSE 1

-----------------------------------------------------------------------------
(* Payload: [form, extra, document].  form is "canonical" (the bytes of the *)
(* deterministic encoder), "readable" (another encoding of the same: an    *)
(* integer or a length not the shortest, fields in another order) or       *)
(* "broken"; extra counts fields of the root map no schema names.  The     *)
(* entitlement ids are numbers in the order of their bytes.                *)

ById(left, right) == left.entitlement_id <= right.entitlement_id

\* Mutant: the entitlements in the order the caller has them.
EncodeUnsorted(credential) == [form |-> "canonical", extra |-> 0, document |-> credential]

Reorderings(entitlements) ==
    LET indices == DOMAIN entitlements
    IN  {[i \in indices |-> entitlements[p[i]]] : p \in Bijection(indices, indices)}

\* std::sort may leave entries of one id in any order; a payload with two
\* such entries is refused in every order.
SortedById(entitlements) ==
    CHOOSE sorted \in Reorderings(entitlements) :
        \A i, j \in DOMAIN sorted : i < j => ById(sorted[i], sorted[j])

EncodePayload(credential) ==
    [form     |-> "canonical",
     extra    |-> 0,
     document |-> [credential EXCEPT !.entitlements = SortedById(@)]]

\* The CBOR items of an entry: seven, one for each bound, three for a constraint.
EntitlementItems(e) ==
    7 + Present(e.validity.not_before) + Present(e.validity.not_after) + 3 * Present(e.max_u64)

Items(payload) ==
    LET entitlements == payload.document.entitlements
    IN  12 + Present(payload.document.supersedes_credential_id) + payload.extra
           + MapThenSumSet(LAMBDA i : EntitlementItems(entitlements[i]), DOMAIN entitlements)

EntitlementDecodable(e) ==
    /\ e.right_kind # "unknown"
    /\ e.grant_semantics # "unknown"
    /\ e.validity.kind # "unknown"

\* decode_credential_payload_cbor throws no CodecError.
Decodable(payload) ==
    LET document == payload.document
        entitlements == document.entitlements
        fields == 9 + Present(document.supersedes_credential_id) + payload.extra
    IN  /\ payload.form # "broken"
        /\ Items(payload) <= MaxItems
        /\ fields \in {9, 10}
        /\ document.schema_major < 2^16
        /\ document.schema_minor < 2^16
        /\ Len(entitlements) <= MaxEntitlements
        /\ \A i \in DOMAIN entitlements : EntitlementDecodable(entitlements[i])

Decode(payload) == payload.document

-----------------------------------------------------------------------------
(* valid_semantics.                                                        *)

ValidValidity(v) ==
    \/ /\ v.kind = "perpetual"
       /\ v.not_after = None
    \/ /\ v.kind = "bounded"
       /\ v.not_after # None
       /\ v.not_before # None => v.not_before < v.not_after

ValidGrant(e) ==
    \/ e.grant_semantics = "presence" /\ e.max_u64 = None
    \/ e.grant_semantics = "bounded_u64" /\ e.max_u64 \notin {None, 0}

ValidEntitlement(e) ==
    /\ e.product_id # None
    /\ e.product_id \in ProductPrefix[e.entitlement_id]
    /\ ValidValidity(e.validity)
    /\ ValidGrant(e)

\* credential_id stands for the four identifiers a credential names.
ValidSemantics(credential) ==
    LET entitlements == credential.entitlements
    IN  /\ credential.credential_id # None
        /\ credential.authority_revision # 0
        /\ credential.credential_generation # 0
        /\ \A i \in DOMAIN entitlements :
              /\ ValidEntitlement(entitlements[i])
              /\ i > 1 => entitlements[i - 1].entitlement_id < entitlements[i].entitlement_id

-----------------------------------------------------------------------------
(* Artifact: [form, artifact_kind, envelope_version, algorithm_id, key_id, *)
(* payload, signature], and signature: [s, by, over], where s is "low",    *)
(* "high" (the twin of a low one, good for the same message) or            *)
(* "malformed" (not 64 bytes, or a number out of range).                   *)

\* Mutant: the key id is not signed.
SigningInputWithoutKeyId(algorithm_id, key_id, payload) ==
    <<CredentialDomain, 1, algorithm_id, payload>>

SigningInput(algorithm_id, key_id, payload) ==
    <<CredentialDomain, 1, algorithm_id, key_id, payload>>

MessageOf(artifact) == SigningInput(artifact.algorithm_id, artifact.key_id, artifact.payload)

EncodeEnvelope(artifact) == [artifact EXCEPT !.form = "canonical"]

EnvelopeAccepted(artifact) == artifact.form # "broken" /\ EncodeEnvelope(artifact) = artifact

\* find_if: the first of the trusted keys with this id counts, and no other.
Trusted(key_id, trusted_keys) == {i \in DOMAIN trusted_keys : trusted_keys[i].key_id = key_id}

EnvelopeSupported(artifact, trusted_keys) ==
    /\ artifact.artifact_kind = 1
    /\ artifact.envelope_version = 1
    /\ artifact.algorithm_id = AlgorithmId
    /\ Trusted(artifact.key_id, trusted_keys) # {}

\* Mutant: bytes the decoder understands are good enough.
PayloadDecodes(artifact) == Decodable(artifact.payload) /\ artifact.signature.s = "low"

PayloadAccepted(artifact) ==
    /\ Decodable(artifact.payload)
    /\ EncodePayload(Decode(artifact.payload)) = artifact.payload
    /\ artifact.signature.s = "low"

\* cng_verify: CNG takes the twin of a signature too, and may fail.
CngVerify(message, signature, public_key, cng_works) ==
    /\ cng_works
    /\ signature.s # "malformed"
    /\ signature.by = public_key
    /\ signature.over = message

SignatureAccepted(artifact, trusted_keys, cng_works) ==
    LET key == trusted_keys[Min(Trusted(artifact.key_id, trusted_keys))]
    IN  CngVerify(MessageOf(artifact), artifact.signature, key.public_key_xy, cng_works)

SchemaSupported(artifact) == Decode(artifact.payload).schema_major = 1

\* Mutant: the schema is looked at before the signature.
SchemaFirst(artifact, trusted_keys, cng_works) ==
    /\ EnvelopeAccepted(artifact)
    /\ \/ ~EnvelopeSupported(artifact, trusted_keys)
       \/ PayloadAccepted(artifact) /\ ~SchemaSupported(artifact)

Unsupported(artifact, trusted_keys, cng_works) ==
    /\ EnvelopeAccepted(artifact)
    /\ \/ ~EnvelopeSupported(artifact, trusted_keys)
       \/ /\ PayloadAccepted(artifact)
          /\ SignatureAccepted(artifact, trusted_keys, cng_works)
          /\ ~SchemaSupported(artifact)

Valid(artifact, trusted_keys, cng_works) ==
    /\ EnvelopeAccepted(artifact)
    /\ EnvelopeSupported(artifact, trusted_keys)
    /\ PayloadAccepted(artifact)
    /\ SignatureAccepted(artifact, trusted_keys, cng_works)
    /\ SchemaSupported(artifact)
    /\ ValidSemantics(Decode(artifact.payload))

VerifyCredential(artifact, trusted_keys, cng_works) ==
    IF Valid(artifact, trusted_keys, cng_works)
    THEN [status |-> "valid", credential |-> Decode(artifact.payload)]
    ELSE [status     |-> IF Unsupported(artifact, trusted_keys, cng_works)
                         THEN "unsupported" ELSE "invalid",
          credential |-> None]
=============================================================================
