--------------------------- MODULE MachineStateCodec ---------------------------
(***************************************************************************)
(* windows/machine_state.cpp: MachineStateCodec and DpapiProtector, the    *)
(* conversion between an IdentityRecord and the carrier that is the text   *)
(* of machine-state.v1.json.  DPAPI seals the record for one machine; the  *)
(* envelope around it is plain JSON, and so is what it seals.  The         *)
(* identity value and the key name are model values.                       *)
(***************************************************************************)
EXTENDS Integers

CONSTANTS
    Machine,         \* the machines a blob may have been sealed on
    Here,            \* this one
    IdentityValue,   \* 128 lower-case hex digits: any other value is Garbled
    KeyName,         \* the prefix and 32 hex digits: any other name is Garbled
    Garbled,         \* in the place of a value: one that cannot be read as it
    Uint32Modulus,   \* 2^32, the values of a std::uint32_t
    Uint64Modulus,   \* 2^64, those of a std::uint64_t
    NoIdentity       \* the answer holds no identity

ASSUME MachineAssumption ==
    /\ Here \in Machine
    /\ Garbled \notin Machine \cup Int
    /\ Uint32Modulus \in Nat \ {0, 1}
    /\ Uint64Modulus \in Nat \ {0, 1}

-----------------------------------------------------------------------------
(* The numbers of a JSON text, as nlohmann::json holds and converts them.  *)

Number(kind, value) == [kind |-> kind, value |-> value]
UnsignedNumber(n) == Number("unsigned", n)
NoNumber == Number("other", 0)   \* no such member, or no number in it

\* The value of a float is what the compiler's conversion makes of it, of
\* 1.5 the 1; that of a boolean is 0 or 1.
IsNumber(n) ==
    /\ n = Number(n.kind, n.value)
    /\ \/ n.kind \in {"unsigned", "float"} /\ n.value \in 0..(Uint64Modulus - 1)
       \/ n.kind = "negative" /\ n.value \in (-(Uint64Modulus \div 2))..0
       \/ n.kind = "boolean" /\ n.value \in {0, 1}
       \/ n = NoNumber

\* get<std::uint64_t>: any number, its low bits.
Uint64(n) ==
    IF n.kind \in {"unsigned", "negative", "float"} THEN n.value % Uint64Modulus ELSE Garbled

\* get<std::uint32_t>: the same, and a boolean.
Uint32(n) ==
    IF n.kind \in {"unsigned", "negative", "float", "boolean"}
    THEN n.value % Uint32Modulus ELSE Garbled

-----------------------------------------------------------------------------

ProviderKind == {"tpm", "software"}

\* A scheme and a provider are known by the kind of provider they belong to;
\* the epoch is a natural number of an IdentityRecord, a JSON number of a text.
RecordOf(Epoch) ==
    [provider_kind : ProviderKind \cup {Garbled}, scheme_id : ProviderKind \cup {Garbled},
     provider_name : ProviderKind \cup {Garbled}, identity_epoch : Epoch,
     identity_value : IdentityValue \cup {Garbled}, key_name : KeyName \cup {Garbled}]

Record == RecordOf(Nat)

\* A JSON text is "canonical" (what dump writes), "readable" (blanks, another
\* order, members no one asks for) or "broken": an envelope that is no object
\* of this format or over maximum_carrier_size, a plaintext whose identity
\* lacks a member.  A plaintext in which no version can be found at all has
\* NoNumber for one.
Form == {"canonical", "readable", "broken"}

Plaintext(form, major, minor, generation, identity) ==
    [form |-> form, major |-> major, minor |-> minor, state_generation |-> generation,
     identity |-> identity]

\* envelope_version is Garbled where it is missing or not unsigned, sealed_on
\* for a blob that is not hex, or that nobody sealed.
Carrier(form, envelope_version, sealed_on, plaintext) ==
    [form |-> form, envelope_version |-> envelope_version, sealed_on |-> sealed_on,
     plaintext |-> plaintext]

\* valid_record, and the provider kind decode looks at before it.
ValidRecord(record) ==
    /\ record.provider_kind \in ProviderKind
    /\ record.scheme_id = record.provider_kind
    /\ record.provider_name = record.provider_kind
    /\ record.identity_epoch = 1
    /\ record.identity_value \in IdentityValue
    /\ record.key_name \in KeyName

Refusal(outcome) == [outcome |-> outcome, identity |-> NoIdentity]

-----------------------------------------------------------------------------
PlaintextOf(record, generation) ==
    Plaintext("canonical", UnsignedNumber(1), UnsignedNumber(0), UnsignedNumber(generation),
              [record EXCEPT !.identity_epoch = UnsignedNumber(@)])

\* Mutant: the generation is written as zero, where the reader wants one.
SealOfNoGeneration(record) == Carrier("canonical", 1, Here, PlaintextOf(record, 0))

Seal(record) == Carrier("canonical", 1, Here, PlaintextOf(record, 1))

\* encode writes a state file.  The comparison of the carrier with its maximum
\* is left out: the carrier of a valid record is far shorter.
Encodable(record, dpapi_works) == ValidRecord(record) /\ dpapi_works

\* The IdentityRecord decode makes of what was sealed.
IdentityIn(plaintext) == [plaintext.identity EXCEPT !.identity_epoch = Uint32(@)]

Unprotected(carrier, dpapi_works) == dpapi_works /\ carrier.sealed_on = Here

ReadIdentity(plaintext) ==
    IF /\ plaintext.form # "broken"
       /\ Uint64(plaintext.state_generation) = 1
       /\ ValidRecord(IdentityIn(plaintext))
    THEN [outcome |-> "ok", identity |-> IdentityIn(plaintext)]
    ELSE Refusal("corrupt")

VersionReadable(plaintext) ==
    Uint64(plaintext.major) # Garbled /\ Uint64(plaintext.minor) # Garbled

\* Mutant: a minor version does not matter.
DecodeOfAnyMinor(plaintext) ==
    CASE ~VersionReadable(plaintext) -> Refusal("corrupt")
      [] VersionReadable(plaintext) /\ Uint64(plaintext.major) = 1 -> ReadIdentity(plaintext)
      [] OTHER -> Refusal("unsupported")

DecodePlaintext(plaintext) ==
    CASE ~VersionReadable(plaintext) -> Refusal("corrupt")
      [] Uint64(plaintext.major) = 1 /\ Uint64(plaintext.minor) = 0 -> ReadIdentity(plaintext)
      [] OTHER -> Refusal("unsupported")

\* What DPAPI cannot open is corrupt, whether the fault is the blob's or DPAPI's.
DecodeCarrier(carrier, dpapi_works) ==
    CASE carrier.form = "broken" \/ carrier.envelope_version = Garbled -> Refusal("corrupt")
      [] carrier.form # "broken" /\ carrier.envelope_version = 1 ->
            IF Unprotected(carrier, dpapi_works)
            THEN DecodePlaintext(carrier.plaintext)
            ELSE Refusal("corrupt")
      [] OTHER -> Refusal("unsupported")
=============================================================================
