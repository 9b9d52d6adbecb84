--------------------------- MODULE CommandLineProofs ---------------------------
(***************************************************************************)
(* Theorems about CommandLine, for every authority, carrier, trust store   *)
(* and state file.  What is accepted is what was signed: TypeOK and        *)
(* Traced, which says where the signature of an artifact comes from, are   *)
(* kept by every step, and a valid artifact of a traced signature is the   *)
(* signed one (ValidIsIssued).                                             *)
(***************************************************************************)
EXTENDS CommandLine, TLAPS

\* A signature is an authority's, on an artifact it signed, or nobody's.
TracedSignature(signature, artifacts) ==
    \/ signature.over = None
    \/ \E a \in artifacts : signature.by = a.signature.by /\ signature.over = a.signature.over

Traced == fixture.carrier = "present" => TracedSignature(fixture.artifact.signature, issued)

-----------------------------------------------------------------------------
(* What an authority signs.                                                *)

LEMMA SignedShape ==
    ASSUME NEW a \in Signatory
    PROVE  \E payload \in Payloads, key \in Authority : a = Signed(payload, key)
BY DEF Signatory

LEMMA SignedIsArtifact == Signatory \subseteq Artifact
<1> SUFFICES ASSUME NEW a \in Signatory PROVE a \in Artifact
    OBVIOUS
<1>1. PICK payload \in Payloads, key \in Authority : a = Signed(payload, key)
    BY SignedShape
<1>2. a.signature \in Signature
    <2>1. MessageOf(a) = SigningInput(AlgorithmId, key.key_id, payload)
        BY <1>1 DEF MessageOf, Signed
    <2> QED
        BY <1>1, <2>1 DEF Signature, Signed
<1>3. key.key_id \in KeyId
    BY CommandLineAssumption
<1> QED
    BY <1>1, <1>2, <1>3 DEF Signed, Artifact

\* An artifact whose signature is traced and that verify_credential calls
\* valid is one an authority signed: no field of it can differ.
LEMMA ValidIsIssued ==
    ASSUME NEW artifacts \in SUBSET Signatory,
           NEW a \in Artifact,
           NEW trusted_keys, NEW cng_works,
           TracedSignature(a.signature, artifacts),
           EnvelopeAccepted(a),
           EnvelopeSupported(a, trusted_keys),
           PayloadAccepted(a),
           SignatureAccepted(a, trusted_keys, cng_works)
    PROVE  a \in artifacts
<1>1. /\ a.artifact_kind = 1
      /\ a.envelope_version = 1
      /\ a.algorithm_id = AlgorithmId
    BY DEF EnvelopeSupported
<1>2. a.form = "canonical"
    BY DEF EnvelopeAccepted, EncodeEnvelope, Artifact
<1>3. a.signature.s = "low"
    BY DEF PayloadAccepted
<1>4. a.signature.over = SigningInput(AlgorithmId, a.key_id, a.payload)
    BY <1>1 DEF SignatureAccepted, CngVerify, MessageOf
<1>5. a.signature.over # None
    BY <1>4, MessageAssumption DEF Artifact
<1>6. PICK b \in artifacts :
          a.signature.by = b.signature.by /\ a.signature.over = b.signature.over
    BY <1>5 DEF TracedSignature
<1>7. PICK payload \in Payloads, key \in Authority : b = Signed(payload, key)
    BY SignedShape
<1>8. SigningInput(AlgorithmId, a.key_id, a.payload)
        = SigningInput(AlgorithmId, key.key_id, payload)
    BY <1>4, <1>6, <1>7 DEF Signed
<1>9. a.key_id = key.key_id /\ a.payload = payload
    BY <1>8 DEF SigningInput
<1>10. a.signature = b.signature
    <2>1. a.signature \in Signature /\ b.signature \in Signature
        BY SignedIsArtifact DEF Artifact
    <2>2. b.signature.s = "low"
        BY <1>7 DEF Signed
    <2> QED
        BY <1>3, <1>6, <2>1, <2>2 DEF Signature
<1>11. a = b
    <2>1. b \in Artifact
        BY SignedIsArtifact
    <2>2. /\ b.form = "canonical"
          /\ b.artifact_kind = 1
          /\ b.envelope_version = 1
          /\ b.algorithm_id = AlgorithmId
          /\ b.key_id = key.key_id
          /\ b.payload = payload
        BY <1>7 DEF Signed
    <2> QED
        BY <1>1, <1>2, <1>9, <1>10, <2>1, <2>2 DEF Artifact
<1> QED
    BY <1>11

-----------------------------------------------------------------------------
(* Editing an artifact.                                                    *)

LEMMA EditedIsArtifact ==
    ASSUME NEW artifacts \in SUBSET Signatory, issued = artifacts, NEW a \in Artifact
    PROVE  Edited(a) \subseteq Artifact
<1> SUFFICES ASSUME NEW b \in Edited(a) PROVE b \in Artifact
    OBVIOUS
<1>1. /\ a.signature \in Signature
      /\ \A s \in {"low", "high", "malformed"} : [a.signature EXCEPT !.s = s] \in Signature
      /\ Unsigned \in Signature
      /\ \A c \in issued : c.signature \in Signature
    BY SignedIsArtifact DEF Artifact, Signature, Unsigned
<1>2. CASE \E form \in {"readable", "broken"} : b = [a EXCEPT !.form = form]
    BY <1>2 DEF Artifact
<1>3. CASE b \in {[a EXCEPT !.artifact_kind = 2], [a EXCEPT !.envelope_version = 2],
                  [a EXCEPT !.algorithm_id = "other"]}
    BY <1>3 DEF Artifact
<1>4. CASE \E key_id \in KeyId : b = [a EXCEPT !.key_id = key_id]
    BY <1>4 DEF Artifact
<1>5. CASE \E payload \in Payloads : b = [a EXCEPT !.payload = payload]
    BY <1>5 DEF Artifact
<1>6. CASE \E s \in {"low", "high", "malformed"} : b = [a EXCEPT !.signature.s = s]
    BY <1>1, <1>6 DEF Artifact
<1>7. CASE \E signature \in {Unsigned} \cup {c.signature : c \in issued} :
              b = [a EXCEPT !.signature = signature]
    BY <1>1, <1>7 DEF Artifact
<1> QED
    BY <1>2, <1>3, <1>4, <1>5, <1>6, <1>7 DEF Edited

LEMMA EditedIsTraced ==
    ASSUME NEW artifacts \in SUBSET Signatory, issued = artifacts, NEW a \in Artifact,
           TracedSignature(a.signature, issued), NEW b \in Edited(a)
    PROVE  TracedSignature(b.signature, issued)
<1>1. CASE b.signature = a.signature
    BY <1>1
<1>2. CASE \E s \in {"low", "high", "malformed"} : b = [a EXCEPT !.signature.s = s]
    <2>1. b.signature.by = a.signature.by /\ b.signature.over = a.signature.over
        BY <1>2 DEF Artifact, Signature
    <2> QED
        BY <2>1 DEF TracedSignature
<1>3. CASE \E signature \in {Unsigned} \cup {c.signature : c \in issued} :
              b = [a EXCEPT !.signature = signature]
    <2>1. b.signature \in {Unsigned} \cup {c.signature : c \in issued}
        BY <1>3 DEF Artifact
    <2> QED
        BY <2>1 DEF TracedSignature, Unsigned
<1> QED
    BY <1>1, <1>2, <1>3 DEF Edited, Artifact

-----------------------------------------------------------------------------
(* The inductive invariant.                                                *)

Inv == TypeOK /\ Traced /\ AcceptedIsIssued

\* What the type invariant says of the files, the answer aside.
FilesOK ==
    /\ program \in {"axlic", "axlic_a0_fixture_cli"}
    /\ issued \subseteq Signatory
    /\ \/ fixture \in WithoutArtifact
       \/ /\ fixture = With(fixture.artifact, fixture.trusted_keys)
          /\ fixture.artifact \in Artifact
          /\ fixture.trusted_keys \in TrustStores
    /\ edits \in 0..MaxEdits
    /\ state_file # NoIdentity =>
          /\ IsCarrier(state_file)
          /\ state_file.sealed_on = Here => state_file.plaintext \in SealedHere
    /\ \A record \in written : record \in NewRecords /\ ValidRecord(record)

ExitCodeOK == answer # None => answer.result.exit_code \in {0, 2, 3, 4, 5}

LEMMA TypeIsFilesAndExitCode ==
    /\ TypeOK <=> FilesOK /\ ExitCodeOK
    /\ TypeOK' <=> FilesOK' /\ ExitCodeOK'
<1>1. TypeOK <=> FilesOK /\ ExitCodeOK
    BY DEF TypeOK, FilesOK, ExitCodeOK
<1>2. TypeOK' <=> FilesOK' /\ ExitCodeOK'
    BY DEF TypeOK, FilesOK, ExitCodeOK
<1> QED
    BY <1>1, <1>2

\* What this release writes is a carrier of this machine.
LEMMA SealIsCarrier ==
    ASSUME NEW record \in Record, ValidRecord(record)
    PROVE  IsCarrier(Seal(record)) /\ Seal(record).sealed_on = Here
<1> DEFINE plaintext == PlaintextOf(record, 1)
<1>1. /\ Seal(record) = Carrier("canonical", 1, Here, plaintext)
      /\ Seal(record).form = "canonical"
      /\ Seal(record).envelope_version = 1
      /\ Seal(record).sealed_on = Here
      /\ Seal(record).plaintext = plaintext
    BY DEF Seal, Carrier
<1>2. \A n \in {0, 1} : IsNumber(UnsignedNumber(n))
    <2>1. \A n \in {0, 1} : n \in 0..(Uint64Modulus - 1)
        BY MachineAssumption
    <2>2. \A n : /\ UnsignedNumber(n).kind = "unsigned" /\ UnsignedNumber(n).value = n
                 /\ UnsignedNumber(n) = Number("unsigned", n)
        BY DEF UnsignedNumber, Number
    <2> QED
        BY <2>1, <2>2 DEF IsNumber
<1> DEFINE identity == [record EXCEPT !.identity_epoch = UnsignedNumber(@)]
<1>3. /\ plaintext = Plaintext("canonical", UnsignedNumber(1), UnsignedNumber(0),
                               UnsignedNumber(1), identity)
      /\ plaintext.form = "canonical"
      /\ plaintext.major = UnsignedNumber(1)
      /\ plaintext.minor = UnsignedNumber(0)
      /\ plaintext.state_generation = UnsignedNumber(1)
      /\ plaintext.identity = identity
    BY DEF PlaintextOf, Plaintext
<1>4. record.identity_epoch = 1
    BY DEF ValidRecord
<1>5. /\ identity.identity_epoch = UnsignedNumber(1)
      /\ identity \in RecordOf({UnsignedNumber(1)})
    BY <1>4 DEF Record, RecordOf
<1>6. IsPlaintext(plaintext)
    <2> HIDE DEF plaintext, identity
    <2> QED
        BY <1>2, <1>3, <1>5 DEF IsPlaintext, Form
<1> QED
    BY <1>1, <1>6, MachineAssumption DEF IsCarrier, Form

\* An edit of the envelope leaves the blob alone, or makes it another machine's.
LEMMA EditedIsCarrier ==
    ASSUME NEW c, IsCarrier(c), NEW d \in EditedState(c)
    PROVE  IsCarrier(d) /\ d.plaintext = c.plaintext /\ (d.sealed_on = Here => c.sealed_on = Here)
<1>1. Garbled # Here
    BY MachineAssumption
<1>2. PICK form \in Form, version \in {1, 2, Garbled}, sealer \in Machine \cup {Garbled} :
          /\ d = Carrier(form, version, sealer, c.plaintext)
          /\ sealer = Here => c.sealed_on = Here
    BY <1>1 DEF EditedState, IsCarrier, Carrier
<1>3. /\ d.form = form /\ d.envelope_version = version
      /\ d.sealed_on = sealer /\ d.plaintext = c.plaintext
    BY <1>2 DEF Carrier
<1> QED
    BY <1>2, <1>3 DEF IsCarrier

LEMMA InitInv == Init => Inv
<1> SUFFICES ASSUME Init PROVE Inv
    OBVIOUS
<1>1. 0 \in 0..MaxEdits
    BY CommandLineAssumption
<1> QED
    BY <1>1 DEF Init, Inv, TypeOK, Traced, AcceptedIsIssued, Accepted, OfFixture, Answered,
                WithoutArtifact, Without

\* The runs that leave the files alone.
LEMMA FilesUnchanged ==
    ASSUME FilesOK, UNCHANGED <<program, licensing, machine>>
    PROVE  FilesOK'
BY DEF FilesOK, licensing, machine, SealedHere

LEMMA RenderedExitCode ==
    ASSUME NEW result
    PROVE  RenderIdentityResult(result).exit_code \in {0, 3, 4, 5}
BY DEF RenderIdentityResult, Result
LEMMA FailureFields ==
    ASSUME NEW state
    PROVE  CredentialFailure(state).ok = FALSE /\ CredentialFailure(state).exit_code = 3
BY DEF CredentialFailure, Result

\* A run of the fixture program that ends in success accepted the artifact.
LEMMA FixtureCommandInv ==
    ASSUME Inv, NEW asked, NEW data, NEW cng_works,
           FixtureCommand(asked, LoadRuntime(cng_works), data, cng_works)
    PROVE  Inv'
<1>1. FilesOK'
    BY TypeIsFilesAndExitCode, FilesUnchanged DEF Inv, FixtureCommand
<1>2. UNCHANGED <<program, issued, fixture>>
    BY DEF FixtureCommand, licensing
<1> DEFINE license == LoadRuntime(cng_works)
<1>3. CASE Unreadable
    <2>1. answer'.result = InternalError
        BY <1>3 DEF FixtureCommand, Ends
    <2>2. answer'.result.ok = FALSE /\ answer'.result.exit_code = 4
        BY <2>1 DEF InternalError, Result
    <2> QED
        BY <1>1, <1>2, <2>2, TypeIsFilesAndExitCode
        DEF Inv, Traced, AcceptedIsIssued, Accepted, ExitCodeOK
<1>4. CASE ~Unreadable /\ license.state # "valid"
    <2>1. answer'.result = CredentialFailure(license.state)
        BY <1>4 DEF FixtureCommand, Ends
    <2>2. answer'.result.ok = FALSE /\ answer'.result.exit_code = 3
        BY <2>1, FailureFields
    <2> QED
        BY <1>1, <1>2, <2>2, TypeIsFilesAndExitCode
        DEF Inv, Traced, AcceptedIsIssued, Accepted, ExitCodeOK
<1>5. CASE ~Unreadable /\ license.state = "valid"
    <2>1. answer'.result.exit_code = 0
        BY <1>5 DEF FixtureCommand, Ends, Result
    <2>2. /\ fixture.carrier = "present"
          /\ Valid(fixture.artifact, fixture.trusted_keys, cng_works)
        BY <1>5 DEF LoadRuntime, FromVerification, VerifyCredential, AbsentLicense
    <2>3. fixture.artifact \in Artifact
        BY <2>2 DEF Inv, TypeOK, WithoutArtifact, Without
    <2>4. TracedSignature(fixture.artifact.signature, issued)
        BY <2>2 DEF Inv, Traced
    <2>5. fixture.artifact \in issued
        BY <2>2, <2>3, <2>4, ValidIsIssued DEF Valid, Inv, TypeOK
    <2> QED
        BY <1>1, <1>2, <2>1, <2>5, TypeIsFilesAndExitCode
        DEF Inv, Traced, AcceptedIsIssued, ExitCodeOK
<1> QED
    BY <1>3, <1>4, <1>5

\* A step that touches neither artifacts nor answers of the fixture program.
LEMMA ProductInv ==
    ASSUME Inv, program = "axlic", UNCHANGED <<program, licensing>>, FilesOK', ExitCodeOK'
    PROVE  Inv'
BY TypeIsFilesAndExitCode DEF Inv, Traced, AcceptedIsIssued, Accepted, OfFixture, licensing

LEMMA StepInv == Inv /\ [Next]_vars => Inv'
<1> SUFFICES ASSUME Inv, [Next]_vars PROVE Inv'
    OBVIOUS
<1> USE TypeIsFilesAndExitCode
<1>1. CASE FixtureStatus
    BY <1>1, FixtureCommandInv DEF FixtureStatus
<1>2. CASE FixtureEntitlement
    BY <1>2, FixtureCommandInv DEF FixtureEntitlement
<1>3. CASE ProductStatus
    <2>1. FilesOK'
        BY <1>3, FilesUnchanged DEF ProductStatus, Inv
    <2>2. ExitCodeOK'
        <3>1. PICK command : Ends([command |-> command],
                                  CredentialFailure(AbsentLicense.state), FALSE)
            BY <1>3 DEF ProductStatus
        <3>2. answer'.result = CredentialFailure(AbsentLicense.state)
            BY <3>1 DEF Ends
        <3> QED
            BY <3>2, FailureFields DEF ExitCodeOK
    <2> QED
        BY <1>3, <2>1, <2>2, ProductInv DEF ProductStatus
<1>4. CASE LoadIdentity
    <2>1. PICK result, failed : IdentityEnds(result, failed)
        BY <1>4 DEF LoadIdentity
    <2>2. FilesOK'
        BY <1>4, <2>1, FilesUnchanged DEF LoadIdentity, IdentityEnds, Inv
    <2>3. ExitCodeOK'
        BY <2>1, RenderedExitCode DEF IdentityEnds, Ends, ExitCodeOK
    <2> QED
        BY <2>1, <2>2, <2>3, ProductInv DEF IdentityEnds
<1>5. CASE EstablishIdentity
    <2>1. PICK result, failed : IdentityEnds(result, failed)
        BY <1>5 DEF EstablishIdentity
    <2>2. \/ UNCHANGED machine
          \/ \E record \in NewRecords : /\ ValidRecord(record)
                                       /\ state_file' = Seal(record)
                                       /\ written' = written \cup {record}
        BY <1>5 DEF EstablishIdentity, Encodable
    <2>3. FilesOK'
        <3>1. CASE UNCHANGED machine
            BY <2>1, <3>1, FilesUnchanged DEF IdentityEnds, Inv
        <3>2. ASSUME NEW record \in NewRecords, ValidRecord(record),
                     state_file' = Seal(record), written' = written \cup {record}
              PROVE  FilesOK'
            <4>1. IsCarrier(Seal(record)) /\ Seal(record).plaintext \in SealedHere'
                BY <3>2, SealIsCarrier, CommandLineAssumption DEF SealedHere
            <4>2. IsCarrier(state_file') /\ state_file'.plaintext \in SealedHere'
                BY <3>2, <4>1
            <4> QED
                BY <2>1, <3>2, <4>2 DEF IdentityEnds, Inv, FilesOK, IsCarrier, IsPlaintext, licensing
        <3> QED
            BY <2>2, <3>1, <3>2
    <2>4. ExitCodeOK'
        BY <2>1, RenderedExitCode DEF IdentityEnds, Ends, ExitCodeOK
    <2> QED
        BY <2>1, <2>3, <2>4, ProductInv DEF IdentityEnds
<1>6. CASE EstablishRefused
    <2>1. PICK result, failed : IdentityEnds(result, failed)
        BY <1>6 DEF EstablishRefused
    <2>2. FilesOK'
        BY <1>6, <2>1, FilesUnchanged DEF EstablishRefused, IdentityEnds, Inv
    <2>3. ExitCodeOK'
        BY <2>1, RenderedExitCode DEF IdentityEnds, Ends, ExitCodeOK
    <2> QED
        BY <2>1, <2>2, <2>3, ProductInv DEF IdentityEnds
<1>7. CASE NoStateRoot
    <2>1. FilesOK'
        BY <1>7, FilesUnchanged DEF NoStateRoot, Inv
    <2>2. ExitCodeOK'
        BY <1>7 DEF NoStateRoot, Ends, InternalError, Result, ExitCodeOK
    <2> QED
        BY <1>7, <2>1, <2>2, ProductInv DEF NoStateRoot
<1>8. CASE Misused
    <2>1. FilesOK'
        BY <1>8, FilesUnchanged DEF Misused, Inv
    <2>2. answer'.result.ok = FALSE /\ answer'.result.exit_code = 2
        BY <1>8 DEF Misused, Ends, CommandInvalid, Result
    <2> QED
        BY <1>8, <2>1, <2>2
        DEF Misused, Inv, Traced, AcceptedIsIssued, Accepted, ExitCodeOK, licensing
<1>9. CASE Exit
    <2>1. FilesOK'
        BY <1>9, FilesUnchanged DEF Exit, Inv
    <2> QED
        BY <1>9, <2>1
        DEF Exit, Inv, Traced, AcceptedIsIssued, Accepted, OfFixture, Answered, ExitCodeOK,
            licensing
<1>10. CASE Issue
    BY <1>10
    DEF Issue, Licensing, Inv, FilesOK, ExitCodeOK, Traced, TracedSignature, AcceptedIsIssued,
        Accepted, OfFixture, Answered, machine, SealedHere
<1>11. CASE Install
    <2>1. PICK installed : /\ fixture' = installed
                           /\ \/ \E artifact \in issued, trusted_keys \in TrustStores :
                                     installed = With(artifact, trusted_keys)
                              \/ installed \in WithoutArtifact
        BY <1>11 DEF Install
    <2>2. FilesOK'
        <3>1. 0 \in 0..MaxEdits
            BY CommandLineAssumption
        <3> QED
            BY <1>11, <2>1, <3>1, SignedIsArtifact
            DEF Install, Licensing, Inv, FilesOK, With, machine, SealedHere
    <2>3. Traced'
        BY <1>11, <2>1
        DEF Install, Traced, TracedSignature, With, WithoutArtifact, Without
    <2> QED
        BY <1>11, <2>2, <2>3
        DEF Install, Licensing, Inv, ExitCodeOK, AcceptedIsIssued, Accepted, OfFixture, Answered
<1>12. CASE Edit
    <2>1. /\ fixture.carrier = "present"
          /\ fixture = With(fixture.artifact, fixture.trusted_keys)
          /\ fixture.artifact \in Artifact
          /\ fixture.trusted_keys \in TrustStores
          /\ issued \in SUBSET Signatory
        BY <1>12 DEF Edit, Inv, TypeOK, WithoutArtifact, Without
    <2>2. PICK artifact \in Edited(fixture.artifact) :
              fixture' = [fixture EXCEPT !.artifact = artifact]
        BY <1>12 DEF Edit
    <2>3. fixture' = With(artifact, fixture.trusted_keys)
        BY <2>1, <2>2 DEF With
    <2>4. artifact \in Artifact /\ TracedSignature(artifact.signature, issued)
        BY <2>1, EditedIsArtifact, EditedIsTraced DEF Inv, Traced
    <2>5. edits' \in 0..MaxEdits
        BY <1>12, CommandLineAssumption DEF Edit, Inv, TypeOK
    <2>6. FilesOK'
        BY <1>12, <2>1, <2>3, <2>4, <2>5
        DEF Edit, Licensing, Inv, FilesOK, With, machine, SealedHere
    <2> QED
        BY <1>12, <2>3, <2>4, <2>6
        DEF Edit, Licensing, Inv, Traced, With, ExitCodeOK, AcceptedIsIssued, Accepted,
            OfFixture, Answered
<1>13. CASE ReplaceStateFile
    <2>1. state_file' # NoIdentity =>
              /\ IsCarrier(state_file')
              /\ state_file'.sealed_on = Here => state_file'.plaintext \in SealedHere
        <3>1. CASE state_file' \in OtherCarriers \cup {NoIdentity}
            BY <3>1, CarrierAssumption DEF SealedHere
        <3>2. CASE state_file' \in {Seal(record) : record \in written}
            BY <3>2, SealIsCarrier, CommandLineAssumption DEF Inv, FilesOK, SealedHere
        <3>3. CASE state_file # NoIdentity /\ state_file' \in EditedState(state_file)
            <4>1. /\ IsCarrier(state_file)
                  /\ state_file.sealed_on = Here => state_file.plaintext \in SealedHere
                BY <3>3 DEF Inv, FilesOK
            <4> QED
                BY <3>3, <4>1, EditedIsCarrier
        <3> QED
            BY <1>13, <3>1, <3>2, <3>3 DEF ReplaceStateFile
    <2>2. FilesOK'
        BY <1>13, <2>1 DEF ReplaceStateFile, Inv, FilesOK, licensing, SealedHere
    <2>3. ExitCodeOK'
        BY <1>13 DEF ReplaceStateFile, ExitCodeOK
    <2> QED
        BY <1>13, <2>2, <2>3, ProductInv DEF ReplaceStateFile
<1>14. CASE UNCHANGED vars
    BY <1>14
    DEF vars, Inv, FilesOK, ExitCodeOK, Traced, AcceptedIsIssued, Accepted, OfFixture, Answered, SealedHere
<1> QED
    BY <1>1, <1>2, <1>3, <1>4, <1>5, <1>6, <1>7, <1>8, <1>9, <1>10, <1>11, <1>12, <1>13, <1>14
    DEF Next
-----------------------------------------------------------------------------
\* The files and answers of both programs are of their types in every
\* reachable state.
THEOREM TypeCorrect == Spec => []TypeOK
<1>1. Inv => TypeOK
    BY DEF Inv
<1> QED
    BY <1>1, InitInv, StepInv, PTL DEF Spec

\* Whatever is done to an artifact without a signing key, a credential the
\* fixture program accepts is one an authority signed, in every field.
THEOREM AcceptedWasIssued == Spec => []AcceptedIsIssued
<1>1. Inv => AcceptedIsIssued
    BY DEF Inv
<1> QED
    BY <1>1, InitInv, StepInv, PTL DEF Spec

-----------------------------------------------------------------------------
(* Unsupported is said of what was signed, or of what the envelope shows.  *)

LEMMA HonestStep ==
    ASSUME Inv, UnsupportedIsHonest, [Next]_vars
    PROVE  UnsupportedIsHonest'
<1> DEFINE Runs(asked, data, cng_works) ==
        FixtureCommand(asked, LoadRuntime(cng_works), data, cng_works)
<1>1. ASSUME NEW asked, NEW data, NEW cng_works, Runs(asked, data, cng_works)
      PROVE  UnsupportedIsHonest'
    <2> DEFINE license == LoadRuntime(cng_works)
    <2>1. UNCHANGED <<issued, fixture>>
        BY <1>1 DEF FixtureCommand, licensing
    <2>2. CASE license.state # "unsupported"
        <3>1. answer'.result.code # "CREDENTIAL_UNSUPPORTED"
            BY <1>1, <2>2 DEF FixtureCommand, Ends, InternalError, CredentialFailure, Result
        <3> QED
            BY <3>1 DEF UnsupportedIsHonest
    <2>3. CASE license.state = "unsupported"
        <3>1. /\ fixture.carrier = "present"
              /\ Unsupported(fixture.artifact, fixture.trusted_keys, cng_works)
            BY <2>3 DEF LoadRuntime, FromVerification, VerifyCredential, AbsentLicense
        <3>2. CASE ~EnvelopeSupported(fixture.artifact, fixture.trusted_keys)
            BY <2>1, <3>2 DEF UnsupportedIsHonest, EnvelopeSupported
        <3>3. CASE EnvelopeSupported(fixture.artifact, fixture.trusted_keys)
            <4>1. /\ fixture.artifact \in Artifact
                  /\ TracedSignature(fixture.artifact.signature, issued)
                  /\ issued \in SUBSET Signatory
                BY <3>1 DEF Inv, TypeOK, Traced, WithoutArtifact, Without
            <4>2. fixture.artifact \in issued
                BY <3>1, <3>3, <4>1, ValidIsIssued DEF Unsupported
            <4> QED
                BY <2>1, <4>2 DEF UnsupportedIsHonest
        <3> QED
            BY <3>2, <3>3
    <2> QED
        BY <2>2, <2>3
<1>2. CASE FixtureStatus
    BY <1>1, <1>2 DEF FixtureStatus
<1>3. CASE FixtureEntitlement
    BY <1>1, <1>3 DEF FixtureEntitlement
<1>4. CASE program' = "axlic"
    BY <1>4 DEF UnsupportedIsHonest, OfFixture
<1>5. CASE answer' = None
    BY <1>5 DEF UnsupportedIsHonest, OfFixture, Answered
<1>6. CASE Misused
    <2>1. answer'.result.code = "COMMAND_INVALID"
        BY <1>6 DEF Misused, Ends, CommandInvalid, Result
    <2> QED
        BY <2>1 DEF UnsupportedIsHonest
<1>7. CASE UNCHANGED vars
    BY <1>7 DEF vars, UnsupportedIsHonest, OfFixture, Answered, EnvelopeSupported
<1>8. CASE ProductStatus \/ LoadIdentity \/ EstablishIdentity \/ EstablishRefused \/ NoStateRoot
    BY <1>4, <1>8 DEF ProductStatus, LoadIdentity, EstablishIdentity, EstablishRefused,
       NoStateRoot, IdentityEnds
<1>9. CASE Exit \/ Issue \/ Install \/ Edit \/ ReplaceStateFile
    BY <1>5, <1>9 DEF Exit, Issue, Install, Edit, ReplaceStateFile, Licensing
<1> QED
    BY <1>2, <1>3, <1>6, <1>7, <1>8, <1>9 DEF Next

\* Nobody without a signing key makes an artifact under a trusted envelope
\* look like a credential of a later schema.
THEOREM UnsupportedWasIssued == Spec => []UnsupportedIsHonest
<1>1. Init => UnsupportedIsHonest
    BY DEF Init, UnsupportedIsHonest, OfFixture, Answered
<1>2. Inv /\ UnsupportedIsHonest /\ [Next]_vars => UnsupportedIsHonest'
    BY HonestStep
<1> QED
    BY <1>1, <1>2, InitInv, StepInv, PTL DEF Spec

-----------------------------------------------------------------------------
(* The answers of the identity command.                                    *)

\* A number this release writes it reads as itself, if it fits.
LEMMA UnsignedIsRead ==
    /\ Uint32(UnsignedNumber(1)) = 1
    /\ Uint64(UnsignedNumber(0)) = 0
    /\ Uint64(UnsignedNumber(1)) = 1
<1>1. \A n : UnsignedNumber(n).kind = "unsigned" /\ UnsignedNumber(n).value = n
    BY DEF UnsignedNumber, Number
<1>2. \A n : /\ Uint32(UnsignedNumber(n)) = n % Uint32Modulus
             /\ Uint64(UnsignedNumber(n)) = n % Uint64Modulus
    BY <1>1 DEF Uint32, Uint64
<1>3. 1 % Uint32Modulus = 1 /\ 0 % Uint64Modulus = 0 /\ 1 % Uint64Modulus = 1
    BY MachineAssumption
<1> QED
    BY <1>2, <1>3

LEMMA SealFields ==
    ASSUME NEW record
    PROVE  /\ Seal(record).form = "canonical"
           /\ Seal(record).envelope_version = 1
           /\ Seal(record).sealed_on = Here
           /\ Seal(record).plaintext = PlaintextOf(record, 1)
BY DEF Seal, Carrier

LEMMA PlaintextFields ==
    ASSUME NEW record
    PROVE  LET plaintext == PlaintextOf(record, 1)
           IN  /\ plaintext.form = "canonical"
               /\ plaintext.major = UnsignedNumber(1)
               /\ plaintext.minor = UnsignedNumber(0)
               /\ plaintext.state_generation = UnsignedNumber(1)
               /\ plaintext.identity = [record EXCEPT !.identity_epoch = UnsignedNumber(@)]
BY DEF PlaintextOf, Plaintext

\* What is sealed of a record is read as that record.
LEMMA OwnIdentityIsRead ==
    ASSUME NEW record \in Record, ValidRecord(record)
    PROVE  IdentityIn(PlaintextOf(record, 1)) = record
<1>1. record.identity_epoch = 1
    BY DEF ValidRecord
<1> DEFINE identity == [record EXCEPT !.identity_epoch = UnsignedNumber(@)]
<1>2. identity.identity_epoch = UnsignedNumber(1)
    BY <1>1 DEF Record, RecordOf
<1>3. [identity EXCEPT !.identity_epoch = Uint32(UnsignedNumber(1))] = record
    BY <1>1, UnsignedIsRead DEF Record, RecordOf
<1>4. PlaintextOf(record, 1).identity = identity
    BY PlaintextFields
<1>5. IdentityIn(PlaintextOf(record, 1)) =
          [identity EXCEPT !.identity_epoch = Uint32(identity.identity_epoch)]
    BY <1>4, Zenon DEF IdentityIn
<1> QED
    BY <1>2, <1>3, <1>5, Zenon

LEMMA OwnPlaintextIsRead ==
    ASSUME NEW record \in Record, ValidRecord(record)
    PROVE  DecodePlaintext(PlaintextOf(record, 1)).outcome = "ok"
<1> DEFINE plaintext == PlaintextOf(record, 1)
<1>1. /\ plaintext.form # "broken"
      /\ Uint64(plaintext.major) = 1
      /\ Uint64(plaintext.minor) = 0
      /\ Uint64(plaintext.state_generation) = 1
    BY PlaintextFields, UnsignedIsRead
<1>2. VersionReadable(plaintext)
    BY <1>1, MachineAssumption DEF VersionReadable
<1>3. ValidRecord(IdentityIn(plaintext))
    BY OwnIdentityIsRead
<1> HIDE DEF plaintext
<1>4. ReadIdentity(plaintext).outcome = "ok"
    BY <1>1, <1>3 DEF ReadIdentity
<1>5. DecodePlaintext(plaintext).outcome = "ok"
    BY <1>1, <1>2, <1>4 DEF DecodePlaintext
<1> QED
    BY <1>5 DEF plaintext

LEMMA HoldsOwnFields ==
    ASSUME NEW c, NEW record, HoldsOwn(c, record)
    PROVE  /\ c.form # "broken"
           /\ c.envelope_version = 1
           /\ c.sealed_on = Here
           /\ c.plaintext = PlaintextOf(record, 1)
BY DEF HoldsOwn, Seal, Carrier

\* A release reads back every record it can write, the envelope in whatever
\* words.
LEMMA OwnSealIsRead ==
    ASSUME NEW c, NEW record \in Record, ValidRecord(record), HoldsOwn(c, record)
    PROVE  DecodeCarrier(c, TRUE).outcome = "ok"
<1>1. DecodePlaintext(c.plaintext).outcome = "ok"
    BY HoldsOwnFields, OwnPlaintextIsRead
<1> QED
    BY <1>1, HoldsOwnFields, MachineAssumption DEF DecodeCarrier, Unprotected

\* Success is 0, and what may be retried is 5: the two of an answer.
Coherent(result) ==
    /\ result.ok <=> result.code = "OK"
    /\ result.ok <=> result.exit_code = 0
    /\ result.retryable <=> result.exit_code = 5

LEMMA RenderedIsCoherent ==
    ASSUME NEW code, NEW retryable \in BOOLEAN, NEW identity, retryable => code # "OK"
    PROVE  Coherent(RenderIdentityResult(IdentityResult(code, retryable, identity)))
<1> DEFINE result == IdentityResult(code, retryable, identity)
           rendered == RenderIdentityResult(result)
<1>1. result.code = code /\ result.retryable = retryable /\ result.identity = identity
    BY DEF IdentityResult
<1>2. CASE code = "OK" /\ identity # NoIdentity
    <2>1. /\ rendered.code = "OK"
          /\ rendered.ok = TRUE
          /\ rendered.retryable = FALSE
          /\ rendered.exit_code = 0
        BY <1>1, <1>2 DEF RenderIdentityResult, Result
    <2> QED
        BY <2>1 DEF Coherent
<1>3. CASE code = "OK" /\ identity = NoIdentity
    <2>1. /\ rendered.code = "INTERNAL_ERROR"
          /\ rendered.ok = FALSE
          /\ rendered.retryable = FALSE
          /\ rendered.exit_code = 4
        BY <1>1, <1>3 DEF RenderIdentityResult, Result
    <2> QED
        BY <2>1 DEF Coherent
<1>4. CASE code # "OK" /\ retryable
    <2>1. /\ rendered.code = code
          /\ rendered.ok = FALSE
          /\ rendered.retryable = TRUE
          /\ rendered.exit_code = 5
        BY <1>1, <1>4 DEF RenderIdentityResult, Result
    <2>2. rendered.exit_code # 0
        BY <2>1
    <2> QED
        BY <1>4, <2>1, <2>2, Zenon DEF Coherent
<1>5. CASE code # "OK" /\ ~retryable
    <2>1. /\ rendered.code = code
          /\ rendered.ok = FALSE
          /\ rendered.retryable = FALSE
          /\ rendered.exit_code \in {3, 4}
        BY <1>1, <1>5 DEF RenderIdentityResult, Result
    <2> QED
        BY <1>5, <2>1 DEF Coherent
<1> QED
    BY <1>2, <1>3, <1>4, <1>5

LEMMA FailureIsCoherent ==
    ASSUME NEW state PROVE Coherent(CredentialFailure(state))
<1>1. /\ CredentialFailure(state).ok = FALSE
      /\ CredentialFailure(state).retryable = FALSE
      /\ CredentialFailure(state).exit_code = 3
      /\ CredentialFailure(state).code # "OK"
    BY DEF CredentialFailure, Result
<1> QED
    BY <1>1 DEF Coherent

\* What this release wrote it can also read.
WrittenIsValid == \A record \in written : record \in Record /\ ValidRecord(record)

ProductAnswers == ExitCodeIsCoherent /\ OwnStateIsReadable /\ WrittenIsValid

\* A step ends with a coherent answer that no damage to the state explains.
LEMMA OtherAnswer ==
    ASSUME WrittenIsValid, UNCHANGED written, NEW result, NEW asked, NEW failed,
           Ends(asked, result, failed), Coherent(result),
           asked.command = "identity" =>
               result.code \notin {"LOCAL_STATE_CORRUPT", "LOCAL_STATE_UNSUPPORTED"}
    PROVE  ProductAnswers'
<1>1. answer'.result = result /\ answer'.asked = asked
    BY DEF Ends
<1>2. ExitCodeIsCoherent'
    BY <1>1 DEF ExitCodeIsCoherent, Coherent
<1>3. OwnStateIsReadable'
    BY <1>1 DEF OwnStateIsReadable, StateRefused, Answered
<1> QED
    BY <1>2, <1>3 DEF ProductAnswers, WrittenIsValid

LEMMA RenderedCode ==
    ASSUME NEW code, NEW retryable, NEW identity
    PROVE  RenderIdentityResult(IdentityResult(code, retryable, identity)).code
             \in {code, "INTERNAL_ERROR"}
BY DEF RenderIdentityResult, IdentityResult, Result

\* A coherent answer that does not blame the state file.
Harmless(result) ==
    /\ Coherent(result)
    /\ result.code \notin {"LOCAL_STATE_CORRUPT", "LOCAL_STATE_UNSUPPORTED"}

LEMMA GrantedIsHarmless ==
    ASSUME NEW identity
    PROVE  Harmless(RenderIdentityResult(IdentityResult("OK", FALSE, identity)))
<1>1. Coherent(RenderIdentityResult(IdentityResult("OK", FALSE, identity)))
    BY RenderedIsCoherent
<1>2. RenderIdentityResult(IdentityResult("OK", FALSE, identity)).code
        \in {"OK", "INTERNAL_ERROR"}
    BY RenderedCode
<1> QED
    BY <1>1, <1>2 DEF Harmless

LEMMA RefusedIsHarmless ==
    ASSUME NEW code,
           code \notin {"OK", "LOCAL_STATE_CORRUPT", "LOCAL_STATE_UNSUPPORTED"}
    PROVE  /\ Harmless(RenderIdentityResult(Refused(code)))
           /\ Harmless(RenderIdentityResult(RefusedForNow(code)))
<1>1. \A retryable \in BOOLEAN :
          Coherent(RenderIdentityResult(IdentityResult(code, retryable, NoIdentity)))
    BY RenderedIsCoherent
<1>2. \A retryable \in BOOLEAN :
          RenderIdentityResult(IdentityResult(code, retryable, NoIdentity)).code
            \in {code, "INTERNAL_ERROR"}
    BY RenderedCode
<1> QED
    BY <1>1, <1>2 DEF Harmless, Refused, RefusedForNow

LEMMA LoadIdentityAnswers ==
    ASSUME WrittenIsValid, LoadIdentity
    PROVE  ProductAnswers'
<1>1. PICK dpapi_works \in BOOLEAN :
          LET read == DecodeCarrier(state_file, dpapi_works)
          IN  \E result \in IF read.outcome = "ok" THEN LoadCommitted(read.identity)
                            ELSE {StateFailure(read.outcome)} :
                  IdentityEnds(result, ~dpapi_works)
    BY DEF LoadIdentity
<1> DEFINE read == DecodeCarrier(state_file, dpapi_works)
<1>2. UNCHANGED <<state_file, written>>
    BY DEF LoadIdentity, machine
<1>3. CASE read.outcome = "ok"
    <2>1. PICK result \in LoadCommitted(read.identity) : IdentityEnds(result, ~dpapi_works)
        BY <1>1, <1>3
    <2>2. \/ result = IdentityResult("OK", FALSE, read.identity)
          \/ result = Refused("IDENTITY_RECOVERY_REQUIRED")
          \/ result = RefusedForNow("IDENTITY_PROVIDER_UNAVAILABLE")
          \/ result = Refused("IDENTITY_PROVIDER_UNAVAILABLE")
        BY DEF LoadCommitted
    <2>3. Harmless(RenderIdentityResult(result))
        BY <2>2, GrantedIsHarmless, RefusedIsHarmless
    <2> QED
        BY <1>2, <2>1, <2>3, OtherAnswer DEF IdentityEnds, Harmless
<1>4. CASE read.outcome # "ok"
    <2>1. IdentityEnds(StateFailure(read.outcome), ~dpapi_works)
        BY <1>1, <1>4
    <2>2. PICK code : StateFailure(read.outcome) = IdentityResult(code, FALSE, NoIdentity)
        BY DEF StateFailure, Refused
    <2>3. Coherent(RenderIdentityResult(StateFailure(read.outcome)))
        BY <2>2, RenderedIsCoherent
    <2>4. ExitCodeIsCoherent'
        BY <2>1, <2>3 DEF IdentityEnds, Ends, ExitCodeIsCoherent, Coherent
    <2>5. OwnStateIsReadable'
        <3> SUFFICES ASSUME NEW record \in written, HoldsOwn(state_file, record)
                     PROVE  answer'.failed
            BY <1>2 DEF OwnStateIsReadable, HoldsOwn
        <3>1. DecodeCarrier(state_file, TRUE).outcome = "ok"
            BY OwnSealIsRead DEF WrittenIsValid
        <3>2. dpapi_works = FALSE
            BY <1>4, <3>1
        <3> QED
            BY <2>1, <3>2 DEF IdentityEnds, Ends
    <2> QED
        BY <1>2, <2>4, <2>5 DEF ProductAnswers, WrittenIsValid
<1> QED
    BY <1>3, <1>4

LEMMA EstablishIdentityAnswers ==
    ASSUME WrittenIsValid, EstablishIdentity
    PROVE  ProductAnswers'
<1>1. PICK dpapi_works \in BOOLEAN, record \in NewRecords :
          IF Encodable(record, dpapi_works)
          THEN /\ state_file' = Seal(record)
               /\ written' = written \cup {record}
               /\ IdentityEnds(IdentityResult("OK", FALSE, record), FALSE)
          ELSE /\ IdentityEnds(Refused("INTERNAL_ERROR"), ~dpapi_works)
               /\ UNCHANGED machine
    BY DEF EstablishIdentity
<1>2. CASE Encodable(record, dpapi_works)
    <2> DEFINE rendered == RenderIdentityResult(IdentityResult("OK", FALSE, record))
    <2>1. Ends([command |-> "identity"], rendered, FALSE)
        BY <1>1, <1>2 DEF IdentityEnds
    <2>2. Coherent(rendered)
        BY RenderedIsCoherent
    <2>3. rendered.code \in {"OK", "INTERNAL_ERROR"}
        BY RenderedCode
    <2>4. answer'.result = rendered
        BY <2>1 DEF Ends
    <2>5. ExitCodeIsCoherent'
        BY <2>2, <2>4 DEF ExitCodeIsCoherent, Coherent
    <2>6. OwnStateIsReadable'
        BY <2>3, <2>4 DEF OwnStateIsReadable, StateRefused
    <2>7. WrittenIsValid'
        BY <1>1, <1>2, CommandLineAssumption DEF WrittenIsValid, Encodable, ValidRecord
    <2> QED
        BY <2>5, <2>6, <2>7 DEF ProductAnswers
<1>3. CASE ~Encodable(record, dpapi_works)
    <2> DEFINE rendered == RenderIdentityResult(Refused("INTERNAL_ERROR"))
    <2>1. Ends([command |-> "identity"], rendered, ~dpapi_works)
        BY <1>1, <1>3 DEF IdentityEnds
    <2>2. Coherent(rendered) /\ rendered.code \in {"INTERNAL_ERROR"}
        BY RenderedIsCoherent, RenderedCode DEF Refused
    <2>3. UNCHANGED written
        BY <1>1, <1>3 DEF machine
    <2> QED
        BY <2>1, <2>2, <2>3, OtherAnswer
<1> QED
    BY <1>2, <1>3

LEMMA ProductAnswersStep ==
    ASSUME ProductAnswers, [Next]_vars
    PROVE  ProductAnswers'
<1>1. WrittenIsValid
    BY DEF ProductAnswers
<1>2. ASSUME NEW asked, NEW data, NEW license, NEW cng_works,
             FixtureCommand(asked, license, data, cng_works),
             asked.command \in {"status", "entitlement"}
      PROVE  ProductAnswers'
    <2>1. PICK result : Ends(asked, result, ~cng_works) /\ Coherent(result)
        <3>1. Coherent(InternalError) /\ Coherent(Result(TRUE, "OK", FALSE, data, 0))
            BY DEF InternalError, Result, Coherent
        <3> QED
            BY <1>2, <3>1, FailureIsCoherent DEF FixtureCommand
    <2> QED
        BY <1>1, <1>2, <2>1, OtherAnswer DEF FixtureCommand, machine
<1>3. CASE FixtureStatus
    BY <1>2, <1>3 DEF FixtureStatus
<1>4. CASE FixtureEntitlement
    BY <1>2, <1>4 DEF FixtureEntitlement
<1>5. CASE ProductStatus
    <2>1. PICK command \in {"status", "entitlement"} :
              Ends([command |-> command], CredentialFailure(AbsentLicense.state), FALSE)
        BY <1>5 DEF ProductStatus
    <2> QED
        BY <1>1, <1>5, <2>1, FailureIsCoherent, OtherAnswer DEF ProductStatus, machine
<1>6. CASE LoadIdentity
    BY <1>1, <1>6, LoadIdentityAnswers
<1>7. CASE EstablishIdentity
    BY <1>1, <1>7, EstablishIdentityAnswers
<1>8. CASE EstablishRefused
    <2>1. PICK result \in NotEstablished : IdentityEnds(result, FALSE)
        BY <1>8 DEF EstablishRefused
    <2>2. Harmless(RenderIdentityResult(result))
        BY RefusedIsHarmless DEF NotEstablished
    <2> QED
        BY <1>1, <1>8, <2>1, <2>2, OtherAnswer DEF EstablishRefused, IdentityEnds, Harmless,
           machine
<1>9. CASE NoStateRoot
    <2>1. Coherent(InternalError) /\ InternalError.code = "INTERNAL_ERROR"
        BY DEF InternalError, Result, Coherent
    <2> QED
        BY <1>1, <1>9, <2>1, OtherAnswer DEF NoStateRoot, machine
<1>10. CASE Misused
    <2>1. Coherent(CommandInvalid)
        BY DEF CommandInvalid, Result, Coherent
    <2> QED
        BY <1>1, <1>10, <2>1, OtherAnswer DEF Misused, machine
<1>11. CASE answer' = None /\ UNCHANGED written
    BY <1>1, <1>11
    DEF ProductAnswers, ExitCodeIsCoherent, OwnStateIsReadable, StateRefused, Answered,
        WrittenIsValid
<1>12. CASE Exit \/ Issue \/ Install \/ Edit \/ ReplaceStateFile
    BY <1>11, <1>12 DEF Exit, Issue, Install, Edit, ReplaceStateFile, Licensing, machine
<1>13. CASE UNCHANGED vars
    BY <1>13
    DEF vars, ProductAnswers, ExitCodeIsCoherent, OwnStateIsReadable, StateRefused, Answered,
        WrittenIsValid
<1> QED
    BY <1>3, <1>4, <1>5, <1>6, <1>7, <1>8, <1>9, <1>10, <1>12, <1>13 DEF Next

LEMMA ProductAnswersInit == Init => ProductAnswers
BY DEF Init, ProductAnswers, ExitCodeIsCoherent, OwnStateIsReadable, StateRefused, Answered,
       WrittenIsValid

\* Only a run in which DPAPI fails calls the state this release wrote corrupt
\* or unsupported, whatever records the providers create.
THEOREM OwnStateAlwaysReadable == Spec => []OwnStateIsReadable
<1>1. ProductAnswers => OwnStateIsReadable
    BY DEF ProductAnswers
<1>2. ProductAnswers /\ [Next]_vars => ProductAnswers'
    BY ProductAnswersStep
<1> QED
    BY <1>1, <1>2, ProductAnswersInit, PTL DEF Spec

\* Every answer of both programs agrees with its exit code.
THEOREM ExitCodesAlwaysCoherent == Spec => []ExitCodeIsCoherent
<1>1. ProductAnswers => ExitCodeIsCoherent
    BY DEF ProductAnswers
<1>2. ProductAnswers /\ [Next]_vars => ProductAnswers'
    BY ProductAnswersStep
<1> QED
    BY <1>1, <1>2, ProductAnswersInit, PTL DEF Spec
-----------------------------------------------------------------------------
(* The identity that is reported was sealed on this machine: by this       *)
(* release, or by another program that says no other version.              *)

\* What decode accepts it accepts of a carrier in the clear of every check.
LEMMA ReadableShape ==
    ASSUME NEW c, NEW dpapi_works \in BOOLEAN, DecodeCarrier(c, dpapi_works).outcome = "ok"
    PROVE  /\ c.form # "broken"
           /\ c.envelope_version = 1
           /\ c.sealed_on = Here
           /\ Uint64(c.plaintext.major) = 1
           /\ Uint64(c.plaintext.minor) = 0
           /\ Uint64(c.plaintext.state_generation) = 1
           /\ ValidRecord(IdentityIn(c.plaintext))
           /\ DecodeCarrier(c, dpapi_works).identity = IdentityIn(c.plaintext)
<1>1. Refusal("corrupt").outcome = "corrupt" /\ Refusal("unsupported").outcome = "unsupported"
    BY DEF Refusal
<1>2. /\ c.form # "broken"
      /\ c.envelope_version = 1
      /\ Unprotected(c, dpapi_works)
      /\ DecodeCarrier(c, dpapi_works) = DecodePlaintext(c.plaintext)
    BY <1>1 DEF DecodeCarrier
<1>3. /\ Uint64(c.plaintext.major) = 1
      /\ Uint64(c.plaintext.minor) = 0
      /\ DecodePlaintext(c.plaintext) = ReadIdentity(c.plaintext)
    BY <1>1, <1>2 DEF DecodePlaintext
<1>4. /\ Uint64(c.plaintext.state_generation) = 1
      /\ ValidRecord(IdentityIn(c.plaintext))
      /\ ReadIdentity(c.plaintext) = [outcome |-> "ok", identity |-> IdentityIn(c.plaintext)]
    BY <1>1, <1>2, <1>3 DEF ReadIdentity
<1>5. DecodeCarrier(c, dpapi_works).identity = IdentityIn(c.plaintext)
    BY <1>2, <1>3, <1>4
<1> QED
    BY <1>2, <1>3, <1>4, <1>5 DEF Unprotected

\* A number that is read as another than it is was not written as this
\* release writes numbers.
LEMMA ReadIsSaid ==
    ASSUME NEW number, IsNumber(number), NEW n \in {0, 1}, Uint64(number) = n
    PROVE  ~IsOther(number, n)
<1> SUFFICES ASSUME number.kind = "unsigned" PROVE number.value = n
    BY DEF IsOther
<1>1. number.value \in 0..(Uint64Modulus - 1)
    BY DEF IsNumber, NoNumber, Number
<1>2. number.value % Uint64Modulus = n
    BY DEF Uint64
<1> QED
    BY <1>1, <1>2, MachineAssumption

\* The identity read of a state file is of one of the two origins.
LEMMA ReadIdentityOrigin ==
    ASSUME TypeOK, state_file # NoIdentity, NEW dpapi_works \in BOOLEAN,
           DecodeCarrier(state_file, dpapi_works).outcome = "ok"
    PROVE  LET identity == DecodeCarrier(state_file, dpapi_works).identity
           IN  \/ \E record \in written : HoldsOwn(state_file, record) /\ identity = record
               \/ \E c \in OtherCarriers :
                      /\ c.sealed_on = Here /\ c.plaintext = state_file.plaintext
                      /\ ~SaysOtherVersion(state_file)
                      /\ identity = [c.plaintext.identity EXCEPT !.identity_epoch = 1]
<1> DEFINE plaintext == state_file.plaintext
           identity == DecodeCarrier(state_file, dpapi_works).identity
<1>1. /\ state_file.form # "broken"
      /\ state_file.envelope_version = 1
      /\ state_file.sealed_on = Here
      /\ Uint64(plaintext.major) = 1
      /\ Uint64(plaintext.minor) = 0
      /\ Uint64(plaintext.state_generation) = 1
      /\ ValidRecord(IdentityIn(plaintext))
      /\ identity = IdentityIn(plaintext)
    BY ReadableShape
<1>2. IsCarrier(state_file) /\ plaintext \in SealedHere
    BY <1>1 DEF TypeOK
<1> HIDE DEF plaintext, identity
<1>3. ASSUME NEW record \in written, plaintext = Seal(record).plaintext
      PROVE  HoldsOwn(state_file, record) /\ identity = record
    <2>1. record \in Record /\ ValidRecord(record)
        BY CommandLineAssumption DEF TypeOK
    <2>2. plaintext = PlaintextOf(record, 1)
        BY <1>3, SealFields
    <2>3. state_file = Carrier(state_file.form, 1, Here, PlaintextOf(record, 1))
        BY <1>1, <1>2, <2>2, Zenon DEF IsCarrier, plaintext
    <2>4. state_file.form \in {"canonical", "readable"}
        BY <1>1, <1>2 DEF IsCarrier, Form
    <2>5. [Seal(record) EXCEPT !.form = state_file.form]
            = Carrier(state_file.form, 1, Here, PlaintextOf(record, 1))
        BY DEF Seal, Carrier
    <2>6. HoldsOwn(state_file, record)
        BY <2>3, <2>4, <2>5, Zenon DEF HoldsOwn
    <2>7. identity = record
        BY <1>1, <2>1, <2>2, OwnIdentityIsRead
    <2> QED
        BY <2>6, <2>7
<1>4. ASSUME NEW c \in OtherCarriers, c.sealed_on = Here, c.plaintext = plaintext
      PROVE  /\ ~SaysOtherVersion(state_file)
             /\ identity = [c.plaintext.identity EXCEPT !.identity_epoch = 1]
    <2>1. IsNumber(plaintext.major) /\ IsNumber(plaintext.minor)
              /\ IsNumber(plaintext.state_generation)
        BY <1>2 DEF IsCarrier, IsPlaintext, plaintext
    <2>2. ~SaysOtherVersion(state_file)
        <3>1. /\ ~IsOther(plaintext.major, 1)
              /\ ~IsOther(plaintext.minor, 0)
              /\ ~IsOther(plaintext.state_generation, 1)
            BY <1>1, <2>1, ReadIsSaid
        <3> QED
            BY <1>1, <3>1 DEF SaysOtherVersion, plaintext
    <2>3. Uint32(plaintext.identity.identity_epoch) = 1
        <3>1. "identity_epoch" \in DOMAIN plaintext.identity
            BY <1>2 DEF IsCarrier, IsPlaintext, RecordOf, plaintext
        <3>2. IdentityIn(plaintext).identity_epoch = 1
            BY <1>1 DEF ValidRecord
        <3> QED
            BY <3>1, <3>2 DEF IdentityIn
    <2>4. identity = [plaintext.identity EXCEPT !.identity_epoch = 1]
        BY <1>1, <2>3, Zenon DEF IdentityIn
    <2> QED
        BY <1>4, <2>2, <2>4
<1> QED
    BY <1>2, <1>3, <1>4 DEF SealedHere, plaintext, identity

\* An ok prints the identity it was given, which is one.
LEMMA OkReportsIdentity ==
    ASSUME NEW result, RenderIdentityResult(result).ok
    PROVE  /\ result.code = "OK"
           /\ result.identity # NoIdentity
           /\ RenderIdentityResult(result).data = result.identity
BY DEF RenderIdentityResult, Result

\* A refusal is never an ok.
LEMMA RefusalIsNotOk ==
    ASSUME NEW code
    PROVE  /\ RenderIdentityResult(Refused(code)).ok # TRUE
           /\ RenderIdentityResult(RefusedForNow(code)).ok # TRUE
BY DEF RenderIdentityResult, Result, Refused, RefusedForNow, IdentityResult

LEMMA NotIdentified ==
    ASSUME ~Identified'
    PROVE  WhatIsReadWasSealedHere'
BY DEF WhatIsReadWasSealedHere

LEMMA LoadIdentitySealedHere ==
    ASSUME TypeOK, LoadIdentity
    PROVE  WhatIsReadWasSealedHere'
<1>1. PICK dpapi_works \in BOOLEAN :
          LET read == DecodeCarrier(state_file, dpapi_works)
          IN  \E result \in IF read.outcome = "ok" THEN LoadCommitted(read.identity)
                            ELSE {StateFailure(read.outcome)} :
                  IdentityEnds(result, ~dpapi_works)
    BY DEF LoadIdentity
<1> DEFINE read == DecodeCarrier(state_file, dpapi_works)
<1>2. UNCHANGED <<state_file, written>> /\ state_file # NoIdentity
    BY DEF LoadIdentity, machine
<1> SUFFICES ASSUME Identified'
             PROVE  \/ \E record \in written :
                           HoldsOwn(state_file, record) /\ answer'.result.data = record
                    \/ \E c \in OtherCarriers :
                           /\ c.sealed_on = Here /\ c.plaintext = state_file.plaintext
                           /\ ~SaysOtherVersion(state_file)
                           /\ answer'.result.data = [c.plaintext.identity EXCEPT !.identity_epoch = 1]
    BY <1>2 DEF WhatIsReadWasSealedHere, HoldsOwn, SaysOtherVersion
<1>3. PICK result : /\ IdentityEnds(result, ~dpapi_works)
                    /\ result \in IF read.outcome = "ok" THEN LoadCommitted(read.identity)
                                  ELSE {StateFailure(read.outcome)}
    BY <1>1
<1>4. answer'.result = RenderIdentityResult(result) /\ answer'.result.ok
    BY <1>3 DEF IdentityEnds, Ends, Identified
<1>5. result.code = "OK" /\ answer'.result.data = result.identity
    BY <1>4, OkReportsIdentity
<1>6. read.outcome = "ok"
    <2>1. \A code : Refused(code).code = code
        BY DEF Refused, IdentityResult
    <2>2. StateFailure(read.outcome).code # "OK"
        BY <2>1 DEF StateFailure
    <2> QED
        BY <1>3, <1>5, <2>2
<1>7. result.identity = read.identity
    <2>1. result \in LoadCommitted(read.identity)
        BY <1>3, <1>6
    <2>2. \A code : Refused(code).code = code /\ RefusedForNow(code).code = code
        BY DEF Refused, RefusedForNow, IdentityResult
    <2>3. \/ result = IdentityResult("OK", FALSE, read.identity)
          \/ \E code : code # "OK" /\ (result = Refused(code) \/ result = RefusedForNow(code))
        BY <2>1 DEF LoadCommitted
    <2> HIDE DEF read
    <2>4. result = IdentityResult("OK", FALSE, read.identity)
        BY <1>5, <2>2, <2>3
    <2> QED
        BY <2>4 DEF IdentityResult
<1>8. answer'.result.data = read.identity
    BY <1>5, <1>7
<1> QED
    BY <1>2, <1>6, <1>8, ReadIdentityOrigin

LEMMA EstablishIdentitySealedHere ==
    ASSUME EstablishIdentity
    PROVE  WhatIsReadWasSealedHere'
<1>1. PICK dpapi_works \in BOOLEAN, record \in NewRecords :
          IF Encodable(record, dpapi_works)
          THEN /\ state_file' = Seal(record)
               /\ written' = written \cup {record}
               /\ IdentityEnds(IdentityResult("OK", FALSE, record), FALSE)
          ELSE /\ IdentityEnds(Refused("INTERNAL_ERROR"), ~dpapi_works)
               /\ UNCHANGED machine
    BY DEF EstablishIdentity
<1>2. CASE Encodable(record, dpapi_works)
    <2>1. state_file' = Seal(record) /\ record \in written'
        BY <1>1, <1>2
    <2>2. HoldsOwn(state_file', record)
        BY <2>1 DEF HoldsOwn, Seal, Carrier
    <2>3. ASSUME Identified' PROVE answer'.result.data = record
        <3>1. IdentityEnds(IdentityResult("OK", FALSE, record), FALSE)
            BY <1>1, <1>2
        <3>2. answer'.result = RenderIdentityResult(IdentityResult("OK", FALSE, record))
            BY <3>1 DEF IdentityEnds, Ends
        <3> QED
            BY <2>3, <3>2, OkReportsIdentity DEF Identified, IdentityResult
    <2> QED
        BY <2>1, <2>2, <2>3 DEF WhatIsReadWasSealedHere, HoldsOwn
<1>3. CASE ~Encodable(record, dpapi_works)
    <2>1. answer'.result = RenderIdentityResult(Refused("INTERNAL_ERROR"))
        BY <1>1, <1>3 DEF IdentityEnds, Ends
    <2> QED
        BY <2>1, RefusalIsNotOk, NotIdentified DEF Identified
<1> QED
    BY <1>2, <1>3

LEMMA SealedHereStep ==
    ASSUME TypeOK, WhatIsReadWasSealedHere, [Next]_vars
    PROVE  WhatIsReadWasSealedHere'
<1>1. ASSUME NEW asked, NEW data, NEW license, NEW cng_works,
             FixtureCommand(asked, license, data, cng_works),
             asked.command \in {"status", "entitlement"}
      PROVE  ~Identified'
    BY <1>1 DEF FixtureCommand, Ends, Identified, Answered
<1>2. CASE FixtureStatus
    BY <1>1, <1>2, NotIdentified DEF FixtureStatus
<1>3. CASE FixtureEntitlement
    BY <1>1, <1>3, NotIdentified DEF FixtureEntitlement
<1>4. CASE ProductStatus \/ Misused
    <2>1. answer'.asked.command # "identity"
        BY <1>4 DEF ProductStatus, Misused, Ends
    <2> QED
        BY <2>1, NotIdentified DEF Identified, Answered
<1>5. CASE LoadIdentity
    BY <1>5, LoadIdentitySealedHere
<1>6. CASE EstablishIdentity
    BY <1>6, EstablishIdentitySealedHere
<1>7. CASE EstablishRefused
    <2>1. PICK result \in NotEstablished : IdentityEnds(result, FALSE)
        BY <1>7 DEF EstablishRefused
    <2>2. PICK code : result = Refused(code) \/ result = RefusedForNow(code)
        BY <2>1 DEF NotEstablished
    <2>3. answer'.result = RenderIdentityResult(result)
        BY <2>1 DEF IdentityEnds, Ends
    <2> QED
        BY <2>2, <2>3, RefusalIsNotOk, NotIdentified DEF Identified
<1>8. CASE NoStateRoot
    <2>1. answer'.result.ok = FALSE
        BY <1>8 DEF NoStateRoot, Ends, InternalError, Result
    <2> QED
        BY <2>1, NotIdentified DEF Identified
<1>9. CASE Exit \/ Issue \/ Install \/ Edit \/ ReplaceStateFile
    <2>1. answer' = None
        BY <1>9 DEF Exit, Issue, Install, Edit, ReplaceStateFile, Licensing
    <2> QED
        BY <2>1, NotIdentified DEF Identified, Answered
<1>10. CASE UNCHANGED vars
    BY <1>10 DEF vars, WhatIsReadWasSealedHere, Identified, Answered, HoldsOwn, SaysOtherVersion
<1> QED
    BY <1>2, <1>3, <1>4, <1>5, <1>6, <1>7, <1>8, <1>9, <1>10 DEF Next

\* An identity is reported only of a blob sealed on this machine: of one this
\* release sealed, whatever was done to its envelope, the record in it; and of
\* another program's, unless it says it is of another version, what it says.
THEOREM ReadIsSealedHere == Spec => []WhatIsReadWasSealedHere
<1>1. Init => WhatIsReadWasSealedHere
    BY DEF Init, WhatIsReadWasSealedHere, Identified, Answered
<1>2. Inv /\ WhatIsReadWasSealedHere /\ [Next]_vars => WhatIsReadWasSealedHere'
    BY SealedHereStep DEF Inv
<1> QED
    BY <1>1, <1>2, InitInv, StepInv, PTL DEF Spec
=============================================================================
