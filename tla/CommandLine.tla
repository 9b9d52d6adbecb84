------------------------------ MODULE CommandLine ------------------------------
(***************************************************************************)
(* The two command-line programs: axlic (app/main.cpp), whose identity     *)
(* command uses the machine state, and axlic_a0_fixture_cli                *)
(* (tests/a0_fixture_main.cpp with core/a0_fixture_adapter.cpp), which     *)
(* verifies the credential of a fixture file.  They share no state, so a   *)
(* behaviour runs one of them.  Between its runs an authority signs        *)
(* credentials, whoever carries them changes them (without a signing key), *)
(* and the state file is edited, moved between machines, put back from a   *)
(* backup or written by another program.  A run of a program is one step:  *)
(* what interleaves within runs of the identity command is                 *)
(* IdentityManager's.                                                      *)
(***************************************************************************)
EXTENDS RuntimeLicense, MachineStateCodec

CONSTANTS
    Authority,        \* the keys that sign: records of key_id and public_key_xy
    KeyId,            \* all key ids a carrier may write
    Documents,        \* the credentials an authority signs, encoded by encode_credential_payload
    Conforming,       \* those of them that keep the contract
    OtherPayloads,    \* payloads an authority signs that no encoder of ours wrote
    TrustStores,      \* lists of trusted keys a fixture may hold
    Time,             \* the readings of the clock
    NewRecords,       \* the identities a provider may create
    OtherCarriers,    \* state files of other writers
    MaxIssued,        \* bounds the artifacts signed
    MaxEdits          \* bounds the edits of an artifact

ASSUME CommandLineAssumption ==
    /\ Conforming \subseteq Documents
    /\ NewRecords \subseteq Record /\ NoIdentity \notin NewRecords
    /\ MaxIssued \in Nat
    /\ MaxEdits \in Nat
    /\ \A key \in Authority : key.key_id \in KeyId

Payloads == {EncodePayload(d) : d \in Documents} \cup OtherPayloads

\* What an authority hands out.
Signed(payload, key) ==
    [form             |-> "canonical",
     artifact_kind    |-> 1,
     envelope_version |-> 1,
     algorithm_id     |-> AlgorithmId,
     key_id           |-> key.key_id,
     payload          |-> payload,
     signature        |-> [s    |-> "low",
                           by   |-> key.public_key_xy,
                           over |-> SigningInput(AlgorithmId, key.key_id, payload)]]

Signatory == {Signed(payload, key) : payload \in Payloads, key \in Authority}

\* A plaintext and a carrier of any writer, as far as decode reads them.
IsPlaintext(p) ==
    /\ p = Plaintext(p.form, p.major, p.minor, p.state_generation, p.identity)
    /\ p.form \in Form
    /\ IsNumber(p.major) /\ IsNumber(p.minor) /\ IsNumber(p.state_generation)
    /\ IsNumber(p.identity.identity_epoch)
    /\ p.identity \in RecordOf({p.identity.identity_epoch})

IsCarrier(c) ==
    /\ c = Carrier(c.form, c.envelope_version, c.sealed_on, c.plaintext)
    /\ c.form \in Form
    /\ c.envelope_version \in {1, 2, Garbled}
    /\ c.sealed_on \in Machine \cup {Garbled}
    /\ IsPlaintext(c.plaintext)

\* The other writers are free in what they write.
ASSUME CarrierAssumption == \A c \in OtherCarriers : c # NoIdentity /\ IsCarrier(c)

IsList(list) == list \in Seq(Range(list))

\* A credential of any writer: its fields, and a list that can be in order.
IsCredential(document) ==
    /\ DOMAIN document =
           {"schema_major", "schema_minor", "credential_id", "authority_revision",
            "credential_generation", "supersedes_credential_id", "entitlements"}
    /\ IsList(document.entitlements)
    /\ \A e \in Range(document.entitlements) : e.entitlement_id \in Nat

\* What valid_semantics and the schema ask of a credential, its entitlements
\* in any order.
KeepsContract(document) ==
    LET entitlements == document.entitlements
    IN  /\ document.schema_major = 1
        /\ document.schema_minor < 2^16
        /\ document.credential_id # None
        /\ document.authority_revision # 0
        /\ document.credential_generation # 0
        /\ Len(entitlements) <= MaxEntitlements
        /\ \A i \in DOMAIN entitlements :
              /\ EntitlementDecodable(entitlements[i])
              /\ ValidEntitlement(entitlements[i])
              /\ \A j \in DOMAIN entitlements \ {i} :
                    entitlements[j].entitlement_id # entitlements[i].entitlement_id

ASSUME CredentialAssumption ==
    /\ \A document \in Documents : IsCredential(document)
    /\ \A payload \in OtherPayloads : IsCredential(payload.document)
    /\ \A document \in Conforming : KeepsContract(document)
    /\ \A trusted_keys \in TrustStores : IsList(trusted_keys)

\* No credential, and no message to sign, is the lack of one.
ASSUME MessageAssumption ==
    \A payload \in Payloads :
        /\ payload.document # None
        /\ \A key_id \in KeyId : SigningInput(AlgorithmId, key_id, payload) # None

Unsigned == [s |-> "low", by |-> None, over |-> None]

\* The fixture file: AXLIC_A0_FIXTURE_STATE is unset, what it names cannot be
\* read as a fixture, the fixture says absent, or it holds an artifact and keys.
Without(carrier) == [carrier |-> carrier, artifact |-> None, trusted_keys |-> <<>>]
WithoutArtifact == {Without("unset"), Without("unreadable"), Without("absent")}
With(artifact, trusted_keys) ==
    [carrier |-> "present", artifact |-> artifact, trusted_keys |-> trusted_keys]

VARIABLES
    program,      \* the program this behaviour runs
    issued,       \* the artifacts an authority signed
    fixture,
    edits,        \* how often the artifact in the fixture was changed since its signing
    state_file,   \* machine-state.v1.json: a carrier, or NoIdentity where there is none
    answer,       \* of the run that ended last, None between the runs
    written       \* history: the identities this release has written

vars == <<program, issued, fixture, edits, state_file, answer, written>>
licensing == <<issued, fixture, edits>>
machine == <<state_file, written>>

Init ==
    /\ program \in {"axlic", "axlic_a0_fixture_cli"}
    /\ issued = {}
    /\ fixture = Without("unset")
    /\ edits = 0
    /\ state_file = NoIdentity
    /\ answer = None
    /\ written = {}

-----------------------------------------------------------------------------
(* Answers: what is printed, the exit code and, for the properties, the    *)
(* arguments and whether Windows' cryptography failed during the run.      *)

Result(ok, code, retryable, data, exit_code) ==
    [ok |-> ok, code |-> code, retryable |-> retryable, data |-> data, exit_code |-> exit_code]

\* Mutant: misuse ends with the code of a crash of the C runtime.
CommandCrashed == Result(FALSE, "COMMAND_INVALID", FALSE, None, 1)

CommandInvalid == Result(FALSE, "COMMAND_INVALID", FALSE, None, 2)
InternalError == Result(FALSE, "INTERNAL_ERROR", FALSE, None, 4)

CredentialFailure(state) ==
    Result(FALSE,
           CASE state = "absent" -> "CREDENTIAL_NOT_FOUND"
             [] state = "unsupported" -> "CREDENTIAL_UNSUPPORTED"
             [] OTHER -> "CREDENTIAL_INVALID",
           FALSE, IF state = "absent" THEN "absent" ELSE "invalid", 3)

\* Mutant: the exit code follows the code that is busy, not the flag printed.
RenderBusyOnly(result) ==
    Result(result.code = "OK", result.code, result.retryable, result.identity,
           CASE result.code = "OK" -> 0
             [] result.code = "LOCAL_STATE_BUSY" -> 5
             [] result.code = "INTERNAL_ERROR" -> 4
             [] OTHER -> 3)

\* An ok without an identity is an internal error.
RenderIdentityResult(result) ==
    LET code == IF result.code = "OK" /\ result.identity = NoIdentity
                THEN "INTERNAL_ERROR" ELSE result.code
    IN  Result(code = "OK", code, code = result.code /\ result.retryable, result.identity,
               CASE code = "OK" -> 0
                 [] code # "OK" /\ result.retryable -> 5
                 [] code = "INTERNAL_ERROR" /\ ~result.retryable -> 4
                 [] OTHER -> 3)

Ends(asked, result, failed) ==
    /\ answer = None
    /\ answer' = [asked |-> asked, result |-> result, failed |-> failed]

-----------------------------------------------------------------------------
(* axlic_a0_fixture_cli.                                                   *)

\* A0FixtureAdapter::load throws.
Unreadable ==
    \/ fixture.carrier = "unreadable"
    \/ fixture.carrier = "present" /\ fixture.trusted_keys = <<>>

LoadRuntime(cng_works) ==
    IF fixture.carrier = "present"
    THEN FromVerification(VerifyCredential(fixture.artifact, fixture.trusted_keys, cng_works))
    ELSE AbsentLicense

StatusData(license) ==
    [authority_revision    |-> license.credential.authority_revision,
     credential_generation |-> license.credential.credential_generation]

\* data is what a valid license has to tell.
FixtureCommand(asked, license, data, cng_works) ==
    /\ program = "axlic_a0_fixture_cli"
    /\ Ends(asked,
            CASE Unreadable -> InternalError
              [] ~Unreadable /\ license.state = "valid" -> Result(TRUE, "OK", FALSE, data, 0)
              [] OTHER -> CredentialFailure(license.state),
            ~cng_works)
    /\ UNCHANGED <<program, licensing, machine>>

FixtureStatus ==
    \E cng_works \in BOOLEAN :
        LET license == LoadRuntime(cng_works)
        IN  FixtureCommand([command |-> "status"], license, StatusData(license), cng_works)

FixtureEntitlement ==
    \E cng_works \in BOOLEAN, id \in DOMAIN ProductPrefix, now \in Time :
        LET license == LoadRuntime(cng_works)
        IN  FixtureCommand([command |-> "entitlement", id |-> id, now |-> now],
                           license, EntitlementView(license, id, now), cng_works)

-----------------------------------------------------------------------------
(* axlic.                                                                  *)

\* No credential is ever installed in this release.
ProductStatus ==
    /\ program = "axlic"
    /\ \E command \in {"status", "entitlement"} :
          Ends([command |-> command], CredentialFailure(AbsentLicense.state), FALSE)
    /\ UNCHANGED <<program, licensing, machine>>

IdentityResult(code, retryable, identity) ==
    [code |-> code, retryable |-> retryable, identity |-> identity]
Refused(code) == IdentityResult(code, FALSE, NoIdentity)
RefusedForNow(code) == IdentityResult(code, TRUE, NoIdentity)

StateFailure(outcome) ==
    Refused(CASE outcome = "corrupt" -> "LOCAL_STATE_CORRUPT"
              [] outcome = "unsupported" -> "LOCAL_STATE_UNSUPPORTED"
              [] OTHER -> "INTERNAL_ERROR")

\* What load_committed answers of an identity, by what its provider says.
LoadCommitted(identity) ==
    {IdentityResult("OK", FALSE, identity), Refused("IDENTITY_RECOVERY_REQUIRED"),
     RefusedForNow("IDENTITY_PROVIDER_UNAVAILABLE"), Refused("IDENTITY_PROVIDER_UNAVAILABLE")}

NotEstablished ==
    {RefusedForNow("LOCAL_STATE_BUSY"), Refused("LOCAL_WRITE_PRIVILEGE_REQUIRED"),
     Refused("INTERNAL_ERROR"), Refused("IDENTITY_PROVIDER_UNSUPPORTED"),
     RefusedForNow("IDENTITY_PROVIDER_UNAVAILABLE"), Refused("IDENTITY_PROVIDER_UNAVAILABLE")}

IdentityEnds(result, failed) ==
    /\ program = "axlic"
    /\ Ends([command |-> "identity"], RenderIdentityResult(result), failed)
    /\ UNCHANGED <<program, licensing>>

\* The state file is there: it is decoded, and its identity loaded.
LoadIdentity ==
    /\ state_file # NoIdentity
    /\ \E dpapi_works \in BOOLEAN :
          LET read == DecodeCarrier(state_file, dpapi_works)
          IN  \E result \in IF read.outcome = "ok" THEN LoadCommitted(read.identity)
                            ELSE {StateFailure(read.outcome)} :
                  IdentityEnds(result, ~dpapi_works)
    /\ UNCHANGED machine

\* There is none: the identity of a provider is encoded and written.
EstablishIdentity ==
    /\ state_file = NoIdentity
    /\ \E dpapi_works \in BOOLEAN, record \in NewRecords :
          IF Encodable(record, dpapi_works)
          THEN /\ state_file' = Seal(record)
               /\ written' = written \cup {record}
               /\ IdentityEnds(IdentityResult("OK", FALSE, record), FALSE)
          ELSE /\ IdentityEnds(Refused("INTERNAL_ERROR"), ~dpapi_works)
               /\ UNCHANGED machine

\* There is none, and the lock, the root or the providers are in the way.
EstablishRefused ==
    /\ state_file = NoIdentity
    /\ \E result \in NotEstablished : IdentityEnds(result, FALSE)
    /\ UNCHANGED machine

\* The program data folder is not known, or the state file cannot be read.
NoStateRoot ==
    /\ program = "axlic"
    /\ Ends([command |-> "identity"], InternalError, FALSE)
    /\ UNCHANGED <<program, licensing, machine>>

\* main of both: too few arguments, too many or no such command.
Misused ==
    /\ Ends([command |-> "other"], CommandInvalid, FALSE)
    /\ UNCHANGED <<program, licensing, machine>>

Exit ==
    /\ answer # None
    /\ answer' = None
    /\ UNCHANGED <<program, licensing, machine>>

-----------------------------------------------------------------------------
(* Between the runs of axlic_a0_fixture_cli.                               *)

Licensing ==
    /\ program = "axlic_a0_fixture_cli"
    /\ answer = None
    /\ UNCHANGED <<program, machine, answer>>

Issue ==
    /\ Licensing
    /\ Cardinality(issued) < MaxIssued
    /\ \E artifact \in Signatory : issued' = issued \cup {artifact}
    /\ UNCHANGED <<fixture, edits>>

Install ==
    /\ Licensing
    /\ \/ \E artifact \in issued, trusted_keys \in TrustStores :
             fixture' = With(artifact, trusted_keys)
       \/ fixture' \in WithoutArtifact
    /\ edits' = 0
    /\ UNCHANGED issued

\* One field changed: to a value another artifact has, or to one out of place.
Edited(artifact) ==
    {[artifact EXCEPT !.form = form] : form \in {"readable", "broken"}}
    \cup {[artifact EXCEPT !.artifact_kind = 2], [artifact EXCEPT !.envelope_version = 2],
          [artifact EXCEPT !.algorithm_id = "other"]}
    \cup {[artifact EXCEPT !.key_id = key_id] : key_id \in KeyId}
    \cup {[artifact EXCEPT !.payload = payload] : payload \in Payloads}
    \cup {[artifact EXCEPT !.signature.s = s] : s \in {"low", "high", "malformed"}}
    \cup {[artifact EXCEPT !.signature = signature] :
             signature \in {Unsigned} \cup {a.signature : a \in issued}}

Edit ==
    /\ Licensing
    /\ fixture.carrier = "present"
    /\ edits < MaxEdits
    /\ edits' = edits + 1
    /\ \E artifact \in Edited(fixture.artifact) : fixture' = [fixture EXCEPT !.artifact = artifact]
    /\ UNCHANGED issued

-----------------------------------------------------------------------------
(* Between the runs of axlic.                                              *)

\* The envelope is written anew, one field of it is changed, or the blob is
\* one of the same contents that another machine sealed.
EditedState(carrier) ==
    {[carrier EXCEPT !.form = form] : form \in Form}
    \cup {[carrier EXCEPT !.envelope_version = version] : version \in {1, 2, Garbled}}
    \cup {[carrier EXCEPT !.sealed_on = sealer] : sealer \in (Machine \ {Here}) \cup {Garbled}}

\* Any state file this release ever wrote may be put back.
ReplaceStateFile ==
    /\ program = "axlic"
    /\ answer = None
    /\ \/ state_file' \in OtherCarriers \cup {NoIdentity}
       \/ state_file' \in {Seal(record) : record \in written}
       \/ state_file # NoIdentity /\ state_file' \in EditedState(state_file)
    /\ UNCHANGED <<program, licensing, answer, written>>

-----------------------------------------------------------------------------
Next ==
    \/ FixtureStatus \/ FixtureEntitlement
    \/ ProductStatus \/ LoadIdentity \/ EstablishIdentity \/ EstablishRefused \/ NoStateRoot
    \/ Misused \/ Exit
    \/ Issue \/ Install \/ Edit \/ ReplaceStateFile

Spec == Init /\ [][Next]_vars

-----------------------------------------------------------------------------
(* Properties.                                                             *)

Signature ==
    [s : {"low", "high", "malformed"}, by : {k.public_key_xy : k \in Authority} \cup {None},
     over : {MessageOf(a) : a \in Signatory} \cup {None}]

Artifact ==
    [form : {"canonical", "readable", "broken"}, artifact_kind : {1, 2},
     envelope_version : {1, 2}, algorithm_id : {AlgorithmId, "other"}, key_id : KeyId,
     payload : Payloads, signature : Signature]

\* What has been sealed on this machine.
SealedHere ==
    {Seal(record).plaintext : record \in written}
    \cup {c.plaintext : c \in {d \in OtherCarriers : d.sealed_on = Here}}

\* The type invariant: the files hold what one of their writers can have
\* written or changed, this release wrote valid records only, and an answer's
\* exit code is one of the contract's.
TypeOK ==
    /\ program \in {"axlic", "axlic_a0_fixture_cli"}
    /\ issued \subseteq Signatory
    /\ \/ fixture \in WithoutArtifact
       \/ /\ fixture = With(fixture.artifact, fixture.trusted_keys)
          /\ fixture.artifact \in Artifact
          /\ fixture.trusted_keys \in TrustStores
    /\ edits \in 0..MaxEdits
    /\ state_file # NoIdentity =>
          /\ IsCarrier(state_file)
          /\ state_file.sealed_on = Here => state_file.plaintext \in SealedHere
    /\ \A record \in written : record \in NewRecords /\ ValidRecord(record)
    /\ answer # None => answer.result.exit_code \in {0, 2, 3, 4, 5}

Answered(command) == answer # None /\ answer.asked.command = command

OfFixture == program = "axlic_a0_fixture_cli" /\ (Answered("status") \/ Answered("entitlement"))

Accepted == OfFixture /\ answer.result.ok

\* A credential is accepted only if an authority signed exactly this artifact:
\* what a carrier changes, moves to another key id, or puts together of two
\* artifacts is never accepted, nor is the twin of a signature
\* (verify_credential's canonical re-encodings, low S and signing input).
AcceptedIsIssued == Accepted => fixture.artifact \in issued

Meaning(payload) == [payload.document EXCEPT !.entitlements = Range(@)]

AcceptedBy(trusted_keys) == {a \in issued : Valid(a, trusted_keys, TRUE)}

\* No two payloads of one meaning are accepted, whatever encoder an authority
\* used: an accepted payload is the one byte sequence of what it says
\* (the payload is encoded again and compared).
OneEncoding ==
    \A a, b \in AcceptedBy(fixture.trusted_keys) :
        Meaning(a.payload) = Meaning(b.payload) => a.payload = b.payload

\* now is in [not_before, not_after), a bound that is missing being no bound.
Covers(validity, now) ==
    /\ validity.not_before # None => validity.not_before <= now
    /\ validity.not_after # None => now < validity.not_after

\* An entitlement is granted at a time if and only if the accepted credential
\* has an entry of its id that covers the time; then it has one entry of the
\* id, and the value is that entry's (valid_semantics with
\* RuntimeLicense::entitlement, which looks at the first entry alone).
GrantIsExact ==
    Accepted /\ Answered("entitlement") =>
        LET entries == fixture.artifact.payload.document.entitlements
            asked == {i \in DOMAIN entries : entries[i].entitlement_id = answer.asked.id}
            granting == {i \in asked : Covers(entries[i].validity, answer.asked.now)}
            data == answer.result.data
        IN  /\ data.granted <=> granting # {}
            /\ data.granted => Cardinality(asked) = 1
            /\ data.granted => \A i \in granting : data.value_u64 = entries[i].max_u64

\* "Unsupported" is said of an envelope of another kind, version, algorithm or
\* key, or of a credential an authority did sign: nobody without a key can
\* make an invalid credential look like one of a later schema
\* (verify_credential looks at schema_major after the signature).
UnsupportedIsHonest ==
    OfFixture /\ answer.result.code = "CREDENTIAL_UNSUPPORTED" =>
        \/ ~EnvelopeSupported(fixture.artifact, fixture.trusted_keys)
        \/ fixture.artifact \in issued

\* What the fixture trusts under a key id is an authority's key and no other.
OneKeyPerId(trusted_keys) ==
    \A k, l \in Range(trusted_keys) : k.key_id = l.key_id => k = l

\* A credential that keeps the contract and fits the decoder's limits, signed
\* and carried untouched, is accepted unless CNG fails: what this encoder
\* writes, in whatever order it was given the entitlements, this decoder
\* takes (encode_credential_payload with verify_credential).
ConformingIsAccepted ==
    /\ OfFixture
    /\ ~answer.failed
    /\ OneKeyPerId(fixture.trusted_keys)
    /\ \E document \in Conforming, key \in Authority \cap Range(fixture.trusted_keys) :
          LET payload == EncodePayload(document)
          IN  /\ Items(payload) <= MaxItems
              /\ fixture.artifact = Signed(payload, key)
    => answer.result.ok

Identified == Answered("identity") /\ answer.result.ok

\* A number, in the form this release writes it in, but not the one it writes.
IsOther(number, n) == number.kind = "unsigned" /\ number.value # n

SaysOtherVersion(carrier) ==
    \/ carrier.envelope_version # 1
    \/ IsOther(carrier.plaintext.major, 1)
    \/ IsOther(carrier.plaintext.minor, 0)
    \/ IsOther(carrier.plaintext.state_generation, 1)

\* The file holds what this release sealed of the record, its envelope as
\* written or in other words.
HoldsOwn(carrier, record) ==
    \E form \in {"canonical", "readable"} : carrier = [Seal(record) EXCEPT !.form = form]

\* Of which state files an identity is reported: of one whose blob this
\* release sealed, the identity sealed in it (which may be an older one, put
\* back); and of the blob of another program that seals on this machine, what
\* it says, its epoch read as 1.  The latter is trusted unless it says that
\* it is of another version: decode takes members it does not know and any
\* number that converts to the one it wants.  A file of another machine, a
\* damaged one and one of a later release are never read
\* (MachineStateCodec::decode).
WhatIsReadWasSealedHere ==
    Identified =>
        \/ \E record \in written :
               HoldsOwn(state_file, record) /\ answer.result.data = record
        \/ \E c \in OtherCarriers :
               /\ c.sealed_on = Here /\ c.plaintext = state_file.plaintext
               /\ ~SaysOtherVersion(state_file)
               /\ answer.result.data = [c.plaintext.identity EXCEPT !.identity_epoch = 1]

StateRefused ==
    /\ Answered("identity")
    /\ answer.result.code \in {"LOCAL_STATE_CORRUPT", "LOCAL_STATE_UNSUPPORTED"}

\* A file with a blob this release sealed, the last or an older one and its
\* envelope as written or in other words, is called corrupt or unsupported
\* only in a run in which DPAPI failed (MachineStateCodec::encode with decode).
OwnStateIsReadable ==
    StateRefused /\ (\E record \in written : HoldsOwn(state_file, record)) => answer.failed

\* The printed answer and the exit code tell the same: success is 0, a
\* failure that may be retried is 5, whatever its code
\* (render_identity_result decides the two apart).
ExitCodeIsCoherent ==
    answer # None =>
        LET result == answer.result
        IN  /\ result.ok <=> result.code = "OK"
            /\ result.ok <=> result.exit_code = 0
            /\ result.retryable <=> result.exit_code = 5
=============================================================================
