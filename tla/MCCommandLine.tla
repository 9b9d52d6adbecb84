---------------------------- MODULE MCCommandLine ----------------------------
(***************************************************************************)
(* A small instance of CommandLine for TLC: one product of two             *)
(* entitlements, which two of the larger kind make too large a credential. *)
(***************************************************************************)
EXTENDS CommandLine

CONSTANTS product, here, there, value1, value2, name1, k1, k2, k3, x1, x2, c1, c2

\* Entitlement 3 is no lower-case identifier under its product.
MCProductPrefix == [id \in 1..3 |-> IF id = 3 THEN {} ELSE {product}]

Perpetual == [kind |-> "perpetual", not_before |-> None, not_after |-> None]
Bounded(not_before, not_after) ==
    [kind |-> "bounded", not_before |-> not_before, not_after |-> not_after]

Entry(id, validity, max_u64) ==
    [entitlement_id  |-> id,
     product_id      |-> product,
     right_kind      |-> "runtime",
     grant_semantics |-> IF max_u64 = None THEN "presence" ELSE "bounded_u64",
     validity        |-> validity,
     max_u64         |-> max_u64]

Lasting(id) == Entry(id, Perpetual, None)
Seats(id) == Entry(id, Bounded(1, 2), 7)

Granting(entitlements) ==
    [schema_major             |-> 1,
     schema_minor             |-> 0,
     credential_id            |-> c1,
     authority_revision       |-> 1,
     credential_generation    |-> 1,
     supersedes_credential_id |-> None,
     entitlements             |-> entitlements]

Unordered == Granting(<<Seats(2), Lasting(1)>>)
Renewed ==
    [Granting(<<Entry(1, [Perpetual EXCEPT !.not_before = 2], None)>>)
        EXCEPT !.supersedes_credential_id = c2, !.schema_minor = 1]
TooLarge == Granting(<<Seats(1), Seats(2)>>)
NextSchema == [Unordered EXCEPT !.schema_major = 2]

MCConforming == {Unordered, Renewed, TooLarge}

\* What an authority may get wrong and still sign.
Faulty ==
    {Granting(<<Lasting(1), Entry(1, Bounded(1, 2), None)>>),
     Granting(<<Entry(1, Bounded(2, 2), None)>>),
     Granting(<<Entry(1, [Perpetual EXCEPT !.not_after = 1], None)>>),
     Granting(<<Entry(1, Bounded(1, None), None)>>),
     Granting(<<Entry(1, Perpetual, 0)>>),
     Granting(<<Lasting(3)>>),
     [Unordered EXCEPT !.credential_generation = 0]}

MCDocuments == MCConforming \cup {NextSchema} \cup Faulty

Of(document) == EncodePayload(document)

MCOtherPayloads ==
    {[Of(Unordered) EXCEPT !.form = "readable"],
     [Of(Unordered) EXCEPT !.extra = 1],
     EncodeUnsorted(Unordered),
     Of([Unordered EXCEPT !.schema_major = 2^16 + 1]),
     Of(Granting(<<[Lasting(1) EXCEPT !.right_kind = "unknown"]>>))}

Key(id, xy) == [key_id |-> id, public_key_xy |-> xy]
MCAuthority == {Key(k1, x1), Key(k2, x1)}
MCKeyId == {k1, k2, k3}

\* Both ids of the key, no key, and an id with a stranger's key behind its own.
MCTrustStores == {<<Key(k1, x1), Key(k2, x1)>>, <<>>, <<Key(k1, x1), Key(k1, x2)>>}

MCTime == 0..2

MCRecord(kind, value) ==
    [provider_kind |-> kind, scheme_id |-> kind, provider_name |-> kind,
     identity_epoch |-> 1, identity_value |-> value, key_name |-> name1]

MCNewRecords ==
    {MCRecord("tpm", value1), MCRecord("software", value2), MCRecord("tpm", Garbled)}

\* Files of other programs.  What Known says is said of generations and epochs
\* in numbers of every kind; 5 and -3 are 1 to the smaller modulus.
N(n) == UnsignedNumber(n)
Known == [MCRecord("tpm", value1) EXCEPT !.identity_epoch = N(1)]
OfEpoch(epoch) == [Known EXCEPT !.identity_epoch = epoch]
Sealed(plaintext) == Carrier("canonical", 1, Here, plaintext)
SealedOf(identity) == Sealed(Plaintext("canonical", N(1), N(0), N(1), identity))

Later ==
    {Carrier("canonical", 2, Here, Plaintext("canonical", N(1), N(0), N(1), Known)),
     Sealed(Plaintext("canonical", N(2), N(0), N(1), Known)),
     Sealed(Plaintext("readable", N(1), N(1), N(1), Known)),
     Sealed(Plaintext("canonical", N(1), N(0), N(2), Known))}

Lenient ==
    {Sealed(Plaintext("readable", N(1), N(0), N(1), Known)),
     Sealed(Plaintext("canonical", Number("float", 1), N(0), Number("float", 1), Known)),
     SealedOf(OfEpoch(Number("negative", -3))),
     SealedOf(OfEpoch(Number("boolean", 1))),
     SealedOf(OfEpoch(N(5)))}

Foreign ==
    {Sealed(Plaintext("broken", N(1), N(0), N(1), Known)),
     Sealed(Plaintext("canonical", NoNumber, N(0), N(1), Known)),
     Sealed(Plaintext("canonical", N(1), Number("boolean", 0), N(1), Known)),
     SealedOf(OfEpoch(N(2))),
     SealedOf([Known EXCEPT !.provider_kind = Garbled]),
     SealedOf([Known EXCEPT !.scheme_id = "software"]),
     SealedOf([Known EXCEPT !.identity_value = Garbled]),
     Carrier("canonical", 1, there, Plaintext("canonical", N(1), N(0), N(1), Known))}

MCOtherCarriers == Later \cup Lenient \cup Foreign
=============================================================================
