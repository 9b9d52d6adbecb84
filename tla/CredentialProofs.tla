---------------------------- MODULE CredentialProofs ----------------------------
(***************************************************************************)
(* Theorems about what CommandLine says of credentials: an accepted        *)
(* payload is the only one of its meaning, the first entry of an id        *)
(* decides for all of them, and this decoder takes what this encoder       *)
(* writes.  All three come down to the order of the entitlements: a list   *)
(* can be sorted, and a list in strict order is known by what is in it.    *)
(***************************************************************************)
EXTENDS CommandLineProofs, FiniteSetTheorems, WellFoundedInduction

-----------------------------------------------------------------------------
(* Numbers, and the order of a list.                                       *)

\* Numbers are well founded: a set of them has a least one.
LEMMA LessThanIsWellFounded ==
    IsWellFoundedOn({pair \in Nat \X Nat : pair[1] < pair[2]}, Nat)
BY NatLessThanWellFounded DEF OpToRel

LEMMA LeastNumber ==
    ASSUME NEW S \in SUBSET Nat, S # {}
    PROVE  \E least \in S : \A n \in S : least <= n
<1> DEFINE Less == {pair \in Nat \X Nat : pair[1] < pair[2]}
<1>1. PICK least \in S : \A n \in S : <<n, least>> \notin Less
    <2> HIDE DEF Less
    <2>1. IsWellFoundedOn(Less, Nat)
        BY LessThanIsWellFounded DEF Less
    <2> QED
        BY <2>1, WFMin
<1>2. \A n \in S : ~(n < least)
    BY <1>1
<1> QED
    BY <1>2

LEMMA MinIsLeast ==
    ASSUME NEW S \in SUBSET Nat, S # {}
    PROVE  Min(S) \in S /\ \A n \in S : Min(S) <= n
BY LeastNumber DEF Min

\* Neighbours in order are all in order.
LEMMA NeighboursSuffice ==
    ASSUME NEW n \in Nat, NEW key \in [1..n -> Nat],
           \A i \in 1..n : i > 1 => key[i - 1] < key[i]
    PROVE  \A i, j \in 1..n : i < j => key[i] < key[j]
<1> DEFINE Late == {j \in 1..n : \E i \in 1..n : i < j /\ ~(key[i] < key[j])}
<1>1. SUFFICES ASSUME Late # {} PROVE FALSE
    OBVIOUS
<1>2. PICK j \in Late : \A k \in Late : j <= k
    <2>1. Late \in SUBSET Nat
        OBVIOUS
    <2> HIDE DEF Late
    <2> QED
        BY <1>1, <2>1, LeastNumber
<1>3. PICK i \in 1..n : i < j /\ ~(key[i] < key[j])
    BY <1>2
<1>4. j - 1 \in 1..n /\ key[j - 1] < key[j]
    BY <1>2, <1>3
<1>5. i < j - 1
    <2>1. i = j - 1 => key[i] < key[j]
        BY <1>4
    <2> QED
        BY <1>2, <1>3, <2>1
<1>6. key[i] < key[j - 1]
    BY <1>2, <1>4, <1>5
<1> QED
    BY <1>3, <1>4, <1>6

\* A finite list can be sorted: an element goes to the place that the number of
\* those before it gives it.
LEMMA SortingExists ==
    ASSUME NEW n \in Nat, NEW key \in [1..n -> Nat]
    PROVE  \E p \in Bijection(1..n, 1..n) :
              \A i, j \in 1..n : i < j => key[p[i]] <= key[p[j]]
<1> DEFINE Place == 1..n
           Before(i) == {j \in Place : key[j] < key[i] \/ (key[j] = key[i] /\ j < i)}
           rank == [i \in Place |-> Cardinality(Before(i)) + 1]
<1>1. IsFiniteSet(Place) /\ Cardinality(Place) = n
    BY FS_Interval
<1>2. \A i \in Place : IsFiniteSet(Before(i)) /\ Cardinality(Before(i)) \in Nat
    <2> SUFFICES ASSUME NEW i \in Place
                 PROVE  IsFiniteSet(Before(i)) /\ Cardinality(Before(i)) \in Nat
        OBVIOUS
    <2>1. Before(i) \in SUBSET Place
        OBVIOUS
    <2> HIDE DEF Place, Before
    <2> QED
        BY <1>1, <2>1, FS_Subset, FS_CardinalityType
<1>3. \A i, j \in Place : j \in Before(i) => Cardinality(Before(j)) < Cardinality(Before(i))
    <2> SUFFICES ASSUME NEW i \in Place, NEW j \in Place, j \in Before(i)
                 PROVE  Cardinality(Before(j)) < Cardinality(Before(i))
        OBVIOUS
    <2>1. Before(j) \in SUBSET Before(i) /\ j \notin Before(j)
        OBVIOUS
    <2> HIDE DEF Place, Before
    <2>2. /\ Cardinality(Before(j)) <= Cardinality(Before(i))
          /\ Cardinality(Before(i)) = Cardinality(Before(j)) => Before(i) = Before(j)
        BY <1>2, <2>1, FS_Subset
    <2> QED
        BY <1>2, <2>1, <2>2
<1>4. \A i, j \in Place : i # j => i \in Before(j) \/ j \in Before(i)
    OBVIOUS
<1>5. \A i \in Place : Cardinality(Before(i)) < n
    <2> SUFFICES ASSUME NEW i \in Place PROVE Cardinality(Before(i)) < n
        OBVIOUS
    <2>1. Before(i) \in SUBSET Place /\ i \notin Before(i)
        OBVIOUS
    <2> HIDE DEF Place, Before
    <2>2. /\ Cardinality(Before(i)) <= Cardinality(Place)
          /\ Cardinality(Place) = Cardinality(Before(i)) => Place = Before(i)
        BY <1>1, <2>1, FS_Subset
    <2> QED
        BY <1>1, <1>2, <2>1, <2>2
<1>6. rank \in [Place -> Place]
    <2>1. \A i \in Place : Cardinality(Before(i)) + 1 \in Place
        <3> HIDE DEF Before
        <3> QED
            BY <1>2, <1>5
    <2> HIDE DEF Place, Before
    <2> QED
        BY <2>1
<1>7. \A i, j \in Place : rank[i] = rank[j] => i = j
    <2> HIDE DEF Place, Before
    <2> QED
        BY <1>2, <1>3, <1>4
<1>8. rank \in Surjection(Place, Place)
    <2> HIDE DEF Place, rank
    <2>1. rank \in Injection(Place, Place)
        BY <1>6, <1>7 DEF Injection, IsInjective
    <2> QED
        BY <1>1, <2>1, FS_Injection
<1> DEFINE p == [k \in Place |-> CHOOSE i \in Place : rank[i] = k]
<1>9. \A k \in Place : p[k] \in Place /\ rank[p[k]] = k
    <2> HIDE DEF Place, rank
    <2> QED
        BY <1>8 DEF Surjection
<1>10. p \in Bijection(Place, Place)
    <2>1. \A i \in Place : p[rank[i]] = i
        <3> HIDE DEF Place, rank, p
        <3> QED
            BY <1>6, <1>7, <1>9
    <2>2. p \in [Place -> Place] /\ (\A k \in Place : rank[p[k]] = k)
        <3> HIDE DEF rank
        <3> QED
            BY <1>9
    <2> HIDE DEF Place, rank, p
    <2> QED
        BY <1>6, <2>1, <2>2 DEF Bijection, Injection, IsInjective, Surjection
<1>11. ASSUME NEW i \in Place, NEW j \in Place, i < j PROVE key[p[i]] <= key[p[j]]
    <2> DEFINE a == p[i]
               b == p[j]
    <2>1. a \in Place /\ b \in Place /\ rank[a] = i /\ rank[b] = j
        <3> HIDE DEF Place, rank, p
        <3> QED
            BY <1>9, <1>11
    <2> HIDE DEF a, b
    <2>2. b \notin Before(a)
        <3> HIDE DEF Before
        <3> QED
            BY <1>2, <1>3, <1>11, <2>1
    <2>3. key[a] <= key[b]
        BY <2>1, <2>2
    <2> QED
        BY <2>3 DEF a, b
<1> QED
    BY <1>10, <1>11

-----------------------------------------------------------------------------
(* Entitlements in the order of their ids.                                 *)

IsEntitlements(list) == IsList(list) /\ \A e \in Range(list) : e.entitlement_id \in Nat

Increasing(list) ==
    \A i, j \in 1..Len(list) : i < j => list[i].entitlement_id < list[j].entitlement_id

Distinct(list) ==
    \A i, j \in DOMAIN list : i # j => list[i].entitlement_id # list[j].entitlement_id

LEMMA ListShape ==
    ASSUME NEW list, IsEntitlements(list)
    PROVE  /\ Len(list) \in Nat
           /\ DOMAIN list = 1..Len(list)
           /\ \A i \in 1..Len(list) : list[i] \in Range(list) /\ list[i].entitlement_id \in Nat
           /\ list = [i \in 1..Len(list) |-> list[i]]
BY DEF IsEntitlements, IsList, Range

LEMMA ReorderingShape ==
    ASSUME NEW list, IsEntitlements(list), NEW s \in Reorderings(list)
    PROVE  /\ IsEntitlements(s)
           /\ Len(s) = Len(list)
           /\ DOMAIN s = DOMAIN list
           /\ Range(s) = Range(list)
           /\ Distinct(list) => Distinct(s)
<1> DEFINE n == Len(list)
<1>1. n \in Nat /\ DOMAIN list = 1..n /\ \A i \in 1..n : list[i] \in Range(list)
    BY ListShape
<1>2. PICK p \in Bijection(1..n, 1..n) : s = [i \in 1..n |-> list[p[i]]]
    BY <1>1 DEF Reorderings
<1>3. /\ p \in [1..n -> 1..n]
      /\ \A i, j \in 1..n : p[i] = p[j] => i = j
      /\ \A k \in 1..n : \E i \in 1..n : p[i] = k
    BY DEF Bijection, Injection, IsInjective, Surjection
<1> HIDE DEF n
<1>4. DOMAIN s = 1..n /\ \A i \in 1..n : p[i] \in 1..n /\ s[i] = list[p[i]]
    BY <1>2, <1>3
<1>5. Range(s) = Range(list)
    BY <1>1, <1>3, <1>4 DEF Range
<1>6. s \in Seq(Range(s)) /\ Len(s) = n
    <2>1. \A i \in 1..n : s[i] \in Range(s)
        BY <1>4 DEF Range
    <2>2. s \in [1..n -> Range(s)]
        BY <1>2, <2>1
    <2> QED
        BY <1>1, <2>2
<1>7. Distinct(list) => Distinct(s)
    <2> SUFFICES ASSUME Distinct(list), NEW i \in 1..n, NEW j \in 1..n, i # j
                 PROVE  s[i].entitlement_id # s[j].entitlement_id
        BY <1>4 DEF Distinct
    <2>1. p[i] \in 1..n /\ p[j] \in 1..n /\ p[i] # p[j]
        BY <1>3
    <2>2. list[p[i]].entitlement_id # list[p[j]].entitlement_id
        BY <1>1, <2>1 DEF Distinct
    <2> QED
        BY <1>4, <2>2
<1> QED
    BY <1>1, <1>4, <1>5, <1>6, <1>7 DEF IsEntitlements, IsList, n

\* SortedById is a reordering, and in order.
LEMMA SortedByIdSorts ==
    ASSUME NEW list, IsEntitlements(list)
    PROVE  /\ SortedById(list) \in Reorderings(list)
           /\ \A i, j \in DOMAIN SortedById(list) :
                  i < j => ById(SortedById(list)[i], SortedById(list)[j])
<1> DEFINE n == Len(list)
           key == [i \in 1..n |-> list[i].entitlement_id]
<1>1. n \in Nat /\ DOMAIN list = 1..n /\ key \in [1..n -> Nat]
    BY ListShape
<1>2. PICK p \in Bijection(1..n, 1..n) : \A i, j \in 1..n : i < j => key[p[i]] <= key[p[j]]
    <2> HIDE DEF key, n
    <2> QED
        BY <1>1, SortingExists
<1> DEFINE s == [i \in 1..n |-> list[p[i]]]
<1>3. s \in Reorderings(list)
    BY <1>1 DEF Reorderings
<1>4. \A i, j \in DOMAIN s : i < j => ById(s[i], s[j])
    <2>1. p \in [1..n -> 1..n]
        BY DEF Bijection, Injection
    <2> HIDE DEF n
    <2>2. \A i \in 1..n : p[i] \in 1..n /\ s[i].entitlement_id = key[p[i]]
        BY <2>1
    <2> QED
        BY <1>2, <2>2 DEF ById
<1> HIDE DEF s
<1> QED
    BY <1>3, <1>4 DEF SortedById

LEMMA DistinctIncreases ==
    ASSUME NEW list, IsEntitlements(list), Distinct(list),
           \A i, j \in DOMAIN list : i < j => ById(list[i], list[j])
    PROVE  Increasing(list)
<1> SUFFICES ASSUME NEW i \in 1..Len(list), NEW j \in 1..Len(list), i < j
             PROVE  list[i].entitlement_id < list[j].entitlement_id
    BY DEF Increasing
<1>1. list[i].entitlement_id \in Nat /\ list[j].entitlement_id \in Nat
    BY ListShape
<1>2. list[i].entitlement_id <= list[j].entitlement_id
    BY ListShape DEF ById
<1>3. list[i].entitlement_id # list[j].entitlement_id
    BY ListShape DEF Distinct
<1> QED
    BY <1>1, <1>2, <1>3

\* Where two lists in strict order agree so far, they agree in the next place.
LEMMA NextPlaceAgrees ==
    ASSUME NEW s, NEW t, IsEntitlements(s), IsEntitlements(t), Increasing(s), Increasing(t),
           Range(s) = Range(t), NEW k \in 1..Len(s),
           \A i \in 1..(k - 1) : i \in 1..Len(t) /\ s[i] = t[i]
    PROVE  k \in 1..Len(t) /\ s[k] = t[k]
<1> DEFINE n == Len(s)
           m == Len(t)
<1>1. /\ n \in Nat /\ DOMAIN s = 1..n /\ m \in Nat /\ DOMAIN t = 1..m
      /\ \A i \in 1..n : s[i].entitlement_id \in Nat
      /\ \A i \in 1..m : t[i].entitlement_id \in Nat
    BY ListShape
<1>2. /\ \A i \in 1..n : \E j \in 1..m : t[j] = s[i]
      /\ \A j \in 1..m : \E i \in 1..n : s[i] = t[j]
    BY <1>1 DEF Range
<1>3. /\ \A i, j \in 1..n : i < j => s[i].entitlement_id < s[j].entitlement_id
      /\ \A i, j \in 1..m : i < j => t[i].entitlement_id < t[j].entitlement_id
    BY DEF Increasing
<1>4. k \in 1..n
    OBVIOUS
<1> HIDE DEF n, m
<1>5. PICK j \in 1..m : t[j] = s[k]
    BY <1>2, <1>4
<1>6. k <= j
    <2> SUFFICES ASSUME j < k PROVE FALSE
        BY <1>1, <1>4
    <2>1. j \in 1..n /\ s[j] = t[j]
        BY <1>1, <1>4, <1>5
    <2>2. s[j].entitlement_id < s[k].entitlement_id
        BY <1>3, <1>4, <2>1
    <2> QED
        BY <1>1, <1>4, <1>5, <2>1, <2>2
<1>7. k \in 1..m
    BY <1>1, <1>4, <1>6
<1>8. CASE j = k
    BY <1>5, <1>7, <1>8 DEF m
<1>9. CASE k < j
    <2>1. t[k].entitlement_id < s[k].entitlement_id
        BY <1>3, <1>5, <1>7, <1>9
    <2>2. PICK l \in 1..n : s[l] = t[k]
        BY <1>2, <1>7
    <2>3. CASE l < k
        <3>1. l \in 1..m /\ t[l] = t[k]
            BY <1>4, <2>2, <2>3 DEF m
        <3> QED
            BY <1>1, <1>3, <1>7, <2>3, <3>1
    <2>4. CASE l = k
        BY <1>1, <1>4, <2>1, <2>2, <2>4
    <2>5. CASE k < l
        BY <1>1, <1>3, <1>4, <1>7, <2>1, <2>2, <2>5
    <2> QED
        BY <1>1, <1>4, <2>3, <2>4, <2>5
<1> QED
    BY <1>1, <1>4, <1>6, <1>8, <1>9

\* A list in strict order is known by what is in it.
LEMMA OrderedIsUnique ==
    ASSUME NEW s, NEW t, IsEntitlements(s), IsEntitlements(t), Increasing(s), Increasing(t),
           Range(s) = Range(t)
    PROVE  s = t
<1> DEFINE n == Len(s)
           m == Len(t)
           Agree(k) == k \in 1..n /\ k \in 1..m /\ s[k] = t[k]
           Bad == {k \in 1..n \cup 1..m : ~Agree(k)}
<1>1. n \in Nat /\ m \in Nat
    BY ListShape
<1>2. SUFFICES ASSUME Bad # {} PROVE FALSE
    <2>1. \A k \in 1..n \cup 1..m : Agree(k)
        BY <1>2
    <2>2. n = m
        BY <1>1, <2>1
    <2>3. \A k \in 1..n : s[k] = t[k]
        BY <2>1
    <2> QED
        BY <2>2, <2>3, ListShape
<1>3. PICK k \in Bad : \A i \in Bad : k <= i
    <2>1. Bad \in SUBSET Nat
        BY <1>1
    <2> HIDE DEF Bad
    <2> QED
        BY <1>2, <2>1, LeastNumber
<1>4. \A i \in 1..(k - 1) : Agree(i)
    BY <1>1, <1>3
<1>5. CASE k \in 1..n
    BY <1>3, <1>4, <1>5, NextPlaceAgrees
<1>6. CASE k \in 1..m
    <2>1. k \in 1..n /\ t[k] = s[k]
        BY <1>4, <1>6, NextPlaceAgrees
    <2> QED
        BY <1>3, <1>6, <2>1
<1> QED
    BY <1>3, <1>5, <1>6
LEMMA IncreasingIsDistinct ==
    ASSUME NEW list, IsEntitlements(list), Increasing(list)
    PROVE  Distinct(list)
<1> SUFFICES ASSUME NEW i \in 1..Len(list), NEW j \in 1..Len(list), i # j
             PROVE  list[i].entitlement_id # list[j].entitlement_id
    BY ListShape DEF Distinct
<1>1. list[i].entitlement_id \in Nat /\ list[j].entitlement_id \in Nat
    BY ListShape
<1>2. i < j \/ j < i
    BY ListShape
<1> QED
    BY <1>1, <1>2 DEF Increasing

LEMMA SortedIsReordering ==
    ASSUME NEW list, IsEntitlements(list), Distinct(list)
    PROVE  /\ IsEntitlements(SortedById(list))
           /\ Len(SortedById(list)) = Len(list)
           /\ Range(SortedById(list)) = Range(list)
           /\ Increasing(SortedById(list))
<1>1. SortedById(list) \in Reorderings(list)
    BY SortedByIdSorts
<1>2. IsEntitlements(SortedById(list)) /\ Distinct(SortedById(list))
    BY <1>1, ReorderingShape
<1>3. \A i, j \in DOMAIN SortedById(list) :
          i < j => ById(SortedById(list)[i], SortedById(list)[j])
    BY SortedByIdSorts
<1>4. Increasing(SortedById(list))
    BY <1>2, <1>3, DistinctIncreases
<1> QED
    BY <1>1, <1>2, <1>4, ReorderingShape

\* To sort what is in strict order changes nothing.
LEMMA SortedStays ==
    ASSUME NEW list, IsEntitlements(list), Increasing(list)
    PROVE  SortedById(list) = list
<1>1. Distinct(list)
    BY IncreasingIsDistinct
<1> QED
    BY <1>1, SortedIsReordering, OrderedIsUnique

-----------------------------------------------------------------------------
(* Credentials.                                                            *)

LEMMA CredentialEntitlements ==
    ASSUME NEW document, IsCredential(document)
    PROVE  "entitlements" \in DOMAIN document /\ IsEntitlements(document.entitlements)
BY DEF IsCredential, IsEntitlements

LEMMA EncodedShape ==
    ASSUME NEW document, IsCredential(document)
    PROVE  /\ EncodePayload(document).form = "canonical"
           /\ EncodePayload(document).extra = 0
           /\ EncodePayload(document).document
                = [document EXCEPT !.entitlements = SortedById(document.entitlements)]
           /\ DOMAIN EncodePayload(document).document = DOMAIN document
           /\ EncodePayload(document).document.entitlements = SortedById(document.entitlements)
<1> DEFINE encoded == [document EXCEPT !.entitlements = SortedById(document.entitlements)]
<1>1. DOMAIN encoded = DOMAIN document
    OBVIOUS
<1>2. encoded.entitlements = SortedById(document.entitlements)
    BY DEF IsCredential
<1>3. EncodePayload(document) = [form |-> "canonical", extra |-> 0, document |-> encoded]
    BY DEF EncodePayload
<1>4. /\ EncodePayload(document).form = "canonical"
      /\ EncodePayload(document).extra = 0
      /\ EncodePayload(document).document = encoded
    <2> HIDE DEF encoded
    <2> QED
        BY <1>3
<1> QED
    BY <1>1, <1>2, <1>4

LEMMA PayloadsHoldCredentials ==
    ASSUME NEW payload \in Payloads
    PROVE  IsCredential(payload.document)
<1>1. CASE payload \in OtherPayloads
    BY <1>1, CredentialAssumption
<1>2. CASE \E d \in Documents : payload = EncodePayload(d)
    <2>1. PICK d \in Documents : payload = EncodePayload(d)
        BY <1>2
    <2>2. IsCredential(d) /\ IsEntitlements(d.entitlements)
        BY CredentialAssumption, CredentialEntitlements
    <2>3. IsEntitlements(SortedById(d.entitlements))
        BY <2>2, SortedByIdSorts, ReorderingShape
    <2> QED
        BY <2>1, <2>2, <2>3, EncodedShape DEF IsCredential, IsEntitlements
<1> QED
    BY <1>1, <1>2 DEF Payloads

\* valid_semantics compares neighbours; that orders the whole list.
LEMMA ValidSemanticsOrders ==
    ASSUME NEW document, IsCredential(document), ValidSemantics(document)
    PROVE  Increasing(document.entitlements)
<1> DEFINE list == document.entitlements
           n == Len(list)
           key == [i \in 1..n |-> list[i].entitlement_id]
<1>1. /\ n \in Nat
      /\ DOMAIN list = 1..n
      /\ \A i \in 1..n : list[i].entitlement_id \in Nat
    BY CredentialEntitlements, ListShape
<1>2. \A i \in 1..n : i > 1 => list[i - 1].entitlement_id < list[i].entitlement_id
    BY <1>1 DEF ValidSemantics
<1> HIDE DEF list, n
<1>3. key \in [1..n -> Nat] /\ \A i \in 1..n : i > 1 => key[i - 1] < key[i]
    BY <1>1, <1>2
<1>4. \A i, j \in 1..n : i < j => key[i] < key[j]
    <2> HIDE DEF key
    <2> QED
        BY <1>1, <1>3, NeighboursSuffice
<1> QED
    BY <1>4 DEF Increasing, list, n

-----------------------------------------------------------------------------
(* One encoding.                                                           *)

LEMMA AcceptedPayload ==
    ASSUME TypeOK, NEW a \in issued, NEW trusted_keys, Valid(a, trusted_keys, TRUE)
    PROVE  /\ IsCredential(a.payload.document)
           /\ Increasing(a.payload.document.entitlements)
           /\ a.payload = EncodePayload(a.payload.document)
<1>1. a.payload \in Payloads
    BY SignedIsArtifact DEF TypeOK, Artifact
<1>2. IsCredential(a.payload.document)
    BY <1>1, PayloadsHoldCredentials
<1> QED
    BY <1>2, ValidSemanticsOrders DEF Valid, PayloadAccepted, Decode

\* What a credential means tells all of it but the order of its entitlements.
LEMMA MeaningDetermines ==
    ASSUME NEW c, NEW d, IsCredential(c), IsCredential(d),
           Increasing(c.entitlements), Increasing(d.entitlements),
           c = EncodePayload(c).document, d = EncodePayload(d).document,
           [c EXCEPT !.entitlements = Range(c.entitlements)]
             = [d EXCEPT !.entitlements = Range(d.entitlements)]
    PROVE  c = d
<1> DEFINE mc == [c EXCEPT !.entitlements = Range(c.entitlements)]
           md == [d EXCEPT !.entitlements = Range(d.entitlements)]
<1>1. "entitlements" \in DOMAIN c /\ "entitlements" \in DOMAIN d
    BY DEF IsCredential
<1>2. /\ DOMAIN mc = DOMAIN c
      /\ mc.entitlements = Range(c.entitlements)
      /\ \A f \in DOMAIN c \ {"entitlements"} : mc[f] = c[f]
    BY <1>1
<1>3. /\ DOMAIN md = DOMAIN d
      /\ md.entitlements = Range(d.entitlements)
      /\ \A f \in DOMAIN d \ {"entitlements"} : md[f] = d[f]
    BY <1>1
<1>4. mc = md
    OBVIOUS
<1> HIDE DEF mc, md
<1>5. /\ DOMAIN c = DOMAIN d
      /\ Range(c.entitlements) = Range(d.entitlements)
      /\ \A f \in DOMAIN c \ {"entitlements"} : c[f] = d[f]
    BY <1>2, <1>3, <1>4
<1>6. c.entitlements = d.entitlements
    BY <1>5, CredentialEntitlements, OrderedIsUnique
<1>7. /\ c = [f \in DOMAIN c |-> c[f]]
      /\ d = [f \in DOMAIN d |-> d[f]]
    <2>1. /\ c = [c EXCEPT !.entitlements = SortedById(c.entitlements)]
          /\ d = [d EXCEPT !.entitlements = SortedById(d.entitlements)]
        BY EncodedShape
    <2> QED
        BY <2>1
<1> QED
    BY <1>5, <1>6, <1>7

\* An authority's encoder and its signatures give no second accepted payload
\* of the meaning of one: valid_semantics leaves one order of the
\* entitlements, and the encoding that is compared the rest.
THEOREM OneEncodingOfEach == Spec => []OneEncoding
<1>1. TypeOK => OneEncoding
    <2> SUFFICES ASSUME TypeOK,
                        NEW a \in AcceptedBy(fixture.trusted_keys),
                        NEW b \in AcceptedBy(fixture.trusted_keys),
                        Meaning(a.payload) = Meaning(b.payload)
                 PROVE  a.payload = b.payload
        BY DEF OneEncoding
    <2> DEFINE c == a.payload.document
               d == b.payload.document
    <2>1. /\ IsCredential(c) /\ Increasing(c.entitlements) /\ a.payload = EncodePayload(c)
          /\ IsCredential(d) /\ Increasing(d.entitlements) /\ b.payload = EncodePayload(d)
        BY AcceptedPayload DEF AcceptedBy
    <2>2. [c EXCEPT !.entitlements = Range(c.entitlements)]
            = [d EXCEPT !.entitlements = Range(d.entitlements)]
        BY DEF Meaning
    <2>3. c = EncodePayload(c).document /\ d = EncodePayload(d).document
        BY <2>1
    <2> HIDE DEF c, d
    <2>4. c = d
        BY <2>1, <2>2, <2>3, MeaningDetermines
    <2> QED
        BY <2>1, <2>4
<1>2. Inv => OneEncoding
    BY <1>1 DEF Inv
<1> QED
    BY <1>2, InitInv, StepInv, PTL DEF Spec
-----------------------------------------------------------------------------
(* The entitlement command.                                                *)

\* InForce asks only a bounded validity for its end; a valid perpetual one
\* has none.
LEMMA InForceIsCovers ==
    ASSUME NEW v, NEW now, ValidValidity(v)
    PROVE  InForce(v, now) <=> Covers(v, now)
<1>1. now >= v.not_before <=> v.not_before <= now
    OBVIOUS
<1> QED
    BY <1>1 DEF InForce, StartedBy, Covers, ValidValidity

\* What GrantIsExact says of an accepted credential and the data printed.
Exact(entries, id, now, data) ==
    LET asked == {i \in DOMAIN entries : entries[i].entitlement_id = id}
        granting == {i \in asked : Covers(entries[i].validity, now)}
    IN  /\ data.granted <=> granting # {}
        /\ data.granted => Cardinality(asked) = 1
        /\ data.granted => \A i \in granting : data.value_u64 = entries[i].max_u64

LEMMA EntitlementIsExact ==
    ASSUME NEW license, license.state = "valid",
           IsCredential(license.credential), ValidSemantics(license.credential),
           NEW id, NEW now
    PROVE  Exact(license.credential.entitlements, id, now, EntitlementView(license, id, now))
<1> DEFINE entries == license.credential.entitlements
           asked == {i \in DOMAIN entries : entries[i].entitlement_id = id}
           granting == {i \in asked : Covers(entries[i].validity, now)}
           first == entries[Min(asked)]
           data == EntitlementView(license, id, now)
<1>1. asked \in SUBSET Nat /\ Distinct(entries)
    <2>1. IsEntitlements(entries) /\ Increasing(entries)
        BY CredentialEntitlements, ValidSemanticsOrders
    <2> HIDE DEF entries
    <2> QED
        BY <2>1, ListShape, IncreasingIsDistinct
<1>2. \A i, j \in asked : i = j
    BY <1>1 DEF Distinct
<1>3. \A i \in asked : ValidValidity(entries[i].validity)
    BY DEF ValidSemantics, ValidEntitlement
<1>4. data = IF asked # {} /\ InForce(first.validity, now)
             THEN [granted |-> TRUE, value_u64 |-> first.max_u64] ELSE NotGranted
    BY DEF EntitlementView
<1>5. NotGranted.granted = FALSE
    BY DEF NotGranted
<1> HIDE DEF asked, data
<1>6. CASE asked = {}
    <2>1. data.granted = FALSE /\ granting = {}
        BY <1>4, <1>5, <1>6
    <2> QED
        BY <2>1 DEF Exact, asked, data
<1>7. CASE asked # {}
    <2> DEFINE only == Min(asked)
    <2>1. only \in asked
        BY <1>1, <1>7, MinIsLeast
    <2> HIDE DEF only
    <2>2. asked = {only} /\ Cardinality(asked) = 1
        <3>1. asked = {only}
            BY <1>2, <2>1
        <3>2. Cardinality({only}) = 1
            BY FS_Singleton
        <3> QED
            BY <3>1, <3>2
    <2>3. InForce(entries[only].validity, now) <=> Covers(entries[only].validity, now)
        BY <1>3, <2>1, InForceIsCovers
    <2>4. CASE Covers(entries[only].validity, now)
        <3>1. data = [granted |-> TRUE, value_u64 |-> entries[only].max_u64]
            BY <1>4, <1>7, <2>3, <2>4 DEF only
        <3>2. data.granted = TRUE /\ data.value_u64 = entries[only].max_u64
            BY <3>1
        <3>3. granting = {only}
            BY <2>2, <2>4
        <3> QED
            BY <2>2, <3>2, <3>3 DEF Exact, asked, data
    <2>5. CASE ~Covers(entries[only].validity, now)
        <3>1. data.granted = FALSE
            BY <1>4, <1>5, <1>7, <2>3, <2>5 DEF only
        <3>2. granting = {}
            BY <2>2, <2>5
        <3> QED
            BY <3>1, <3>2 DEF Exact, asked, data
    <2> QED
        BY <2>4, <2>5
<1> QED
    BY <1>6, <1>7

\* A run of the fixture program that ends with ok has a valid artifact.
LEMMA OkRunIsValid ==
    ASSUME NEW asked, NEW data, NEW cng_works,
           FixtureCommand(asked, LoadRuntime(cng_works), data, cng_works), answer'.result.ok
    PROVE  /\ answer'.asked = asked
           /\ answer'.result.data = data
           /\ fixture' = fixture
           /\ fixture.carrier = "present"
           /\ LoadRuntime(cng_works)
                = [state |-> "valid", credential |-> fixture.artifact.payload.document]
           /\ Valid(fixture.artifact, fixture.trusted_keys, cng_works)
<1> DEFINE license == LoadRuntime(cng_works)
<1>1. /\ answer'.asked = asked
      /\ answer'.result
           = CASE Unreadable -> InternalError
               [] ~Unreadable /\ license.state = "valid" -> Result(TRUE, "OK", FALSE, data, 0)
               [] OTHER -> CredentialFailure(license.state)
    BY DEF FixtureCommand, Ends
<1>2. InternalError.ok = FALSE /\ CredentialFailure(license.state).ok = FALSE
    BY FailureFields DEF InternalError, Result
<1>3. ~Unreadable /\ license.state = "valid"
    <2> HIDE DEF license
    <2> QED
        BY <1>1, <1>2
<1>4. answer'.result.data = data
    BY <1>1, <1>3 DEF Result
<1>5. /\ fixture.carrier = "present"
      /\ Valid(fixture.artifact, fixture.trusted_keys, cng_works)
      /\ license = [state |-> "valid", credential |-> fixture.artifact.payload.document]
    BY <1>3 DEF LoadRuntime, FromVerification, VerifyCredential, AbsentLicense, Decode
<1> QED
    BY <1>1, <1>4, <1>5 DEF FixtureCommand, licensing
LEMMA GrantStep == Inv /\ GrantIsExact /\ [Next]_vars => GrantIsExact'
<1> SUFFICES ASSUME Inv, GrantIsExact, [Next]_vars PROVE GrantIsExact'
    OBVIOUS
<1>1. CASE FixtureEntitlement
    <2>1. PICK cng_works \in BOOLEAN, id \in DOMAIN ProductPrefix, now \in Time :
              FixtureCommand([command |-> "entitlement", id |-> id, now |-> now],
                             LoadRuntime(cng_works),
                             EntitlementView(LoadRuntime(cng_works), id, now), cng_works)
        BY <1>1 DEF FixtureEntitlement
    <2>2. CASE answer'.result.ok
        <3> DEFINE license == LoadRuntime(cng_works)
                   document == fixture.artifact.payload.document
                   data == EntitlementView(license, id, now)
        <3>1. /\ answer'.asked = [command |-> "entitlement", id |-> id, now |-> now]
              /\ answer'.result.data = data
              /\ fixture' = fixture
              /\ fixture.carrier = "present"
              /\ license = [state |-> "valid", credential |-> document]
              /\ Valid(fixture.artifact, fixture.trusted_keys, cng_works)
            BY <2>1, <2>2, OkRunIsValid
        <3>2. ValidSemantics(document)
            BY <3>1 DEF Valid, Decode
        <3>3. fixture.artifact.payload \in Payloads
            BY <3>1 DEF Inv, TypeOK, WithoutArtifact, Without, Artifact
        <3>4. IsCredential(document)
            BY <3>3, PayloadsHoldCredentials
        <3>5. license.state = "valid" /\ license.credential = document
            BY <3>1
        <3>6. Exact(document.entitlements, id, now, data)
            <4> HIDE DEF license, document
            <4> QED
                BY <3>2, <3>4, <3>5, EntitlementIsExact DEF license
        <3>7. answer'.asked.id = id /\ answer'.asked.now = now
            BY <3>1
        <3> QED
            BY <3>1, <3>6, <3>7 DEF GrantIsExact, Exact
    <2> QED
        BY <2>2 DEF GrantIsExact, Accepted
<1>2. CASE FixtureStatus
    <2>1. answer'.asked.command = "status"
        BY <1>2 DEF FixtureStatus, FixtureCommand, Ends
    <2> QED
        BY <2>1 DEF GrantIsExact, Answered
<1>3. CASE Misused
    <2>1. answer'.asked.command = "other"
        BY <1>3 DEF Misused, Ends
    <2> QED
        BY <2>1 DEF GrantIsExact, Answered
<1>4. CASE program' = "axlic"
    BY <1>4 DEF GrantIsExact, Accepted, OfFixture
<1>5. CASE answer' = None
    BY <1>5 DEF GrantIsExact, Accepted, OfFixture, Answered
<1>6. CASE UNCHANGED vars
    BY <1>6 DEF vars, GrantIsExact, Accepted, OfFixture, Answered
<1>7. CASE ProductStatus \/ LoadIdentity \/ EstablishIdentity \/ EstablishRefused \/ NoStateRoot
    BY <1>4, <1>7 DEF ProductStatus, LoadIdentity, EstablishIdentity, EstablishRefused,
       NoStateRoot, IdentityEnds
<1>8. CASE Exit \/ Issue \/ Install \/ Edit \/ ReplaceStateFile
    BY <1>5, <1>8 DEF Exit, Issue, Install, Edit, ReplaceStateFile, Licensing
<1> QED
    BY <1>1, <1>2, <1>3, <1>6, <1>7, <1>8 DEF Next

\* An entitlement is granted exactly when the entry of its id covers the time:
\* that entitlement() looks at the first entry alone, and at the end of a
\* bounded validity alone, is enough for every credential that was accepted.
THEOREM GrantIsAlwaysExact == Spec => []GrantIsExact
<1>1. Init => GrantIsExact
    BY DEF Init, GrantIsExact, Accepted, OfFixture, Answered
<1> QED
    BY <1>1, GrantStep, InitInv, StepInv, PTL DEF Spec
-----------------------------------------------------------------------------
(* What the encoder writes, the decoder takes.                             *)

\* The other fields of an encoded credential are those it was given.
LEMMA EncodedFields ==
    ASSUME NEW document, IsCredential(document)
    PROVE  LET encoded == EncodePayload(document).document
           IN  /\ encoded.schema_major = document.schema_major
               /\ encoded.schema_minor = document.schema_minor
               /\ encoded.credential_id = document.credential_id
               /\ encoded.authority_revision = document.authority_revision
               /\ encoded.credential_generation = document.credential_generation
               /\ encoded.supersedes_credential_id = document.supersedes_credential_id
<1> DEFINE encoded == [document EXCEPT !.entitlements = SortedById(document.entitlements)]
<1>1. EncodePayload(document).document = encoded
    BY EncodedShape
<1>2. \A f \in DOMAIN document \ {"entitlements"} : encoded[f] = document[f]
    OBVIOUS
<1> HIDE DEF encoded
<1> QED
    BY <1>1, <1>2 DEF IsCredential

LEMMA EncodedIsEncoding ==
    ASSUME NEW document, IsCredential(document), Distinct(document.entitlements)
    PROVE  EncodePayload(EncodePayload(document).document) = EncodePayload(document)
<1> DEFINE sorted == SortedById(document.entitlements)
           encoded == [document EXCEPT !.entitlements = sorted]
<1>1. encoded.entitlements = sorted /\ EncodePayload(document).document = encoded
    BY EncodedShape
<1>2. SortedById(sorted) = sorted
    BY CredentialEntitlements, SortedIsReordering, SortedStays
<1>3. [encoded EXCEPT !.entitlements = sorted] = encoded
    <2> HIDE DEF sorted
    <2> QED
        BY DEF IsCredential
<1>4. EncodePayload(document) = [form |-> "canonical", extra |-> 0, document |-> encoded]
    BY DEF EncodePayload
<1>5. EncodePayload(encoded)
        = [form     |-> "canonical",
           extra    |-> 0,
           document |-> [encoded EXCEPT !.entitlements = SortedById(encoded.entitlements)]]
    <2> HIDE DEF encoded
    <2> QED
        BY DEF EncodePayload
<1> HIDE DEF encoded, sorted
<1>6. [encoded EXCEPT !.entitlements = SortedById(encoded.entitlements)] = encoded
    BY <1>1, <1>2, <1>3
<1> QED
    BY <1>1, <1>4, <1>5, <1>6

LEMMA ConformingPayload ==
    ASSUME NEW document \in Conforming, Items(EncodePayload(document)) <= MaxItems
    PROVE  LET payload == EncodePayload(document)
           IN  /\ Decodable(payload)
               /\ EncodePayload(payload.document) = payload
               /\ payload.document.schema_major = 1
               /\ ValidSemantics(payload.document)
<1> DEFINE payload == EncodePayload(document)
           list == document.entitlements
           sorted == SortedById(list)
           n == Len(list)
<1>1. IsCredential(document) /\ KeepsContract(document)
    BY CredentialAssumption, CommandLineAssumption
<1>2. IsEntitlements(list) /\ Distinct(list)
    BY <1>1, CredentialEntitlements DEF KeepsContract, Distinct
<1>3. /\ payload.form = "canonical"
      /\ payload.extra = 0
      /\ payload.document.entitlements = sorted
    BY <1>1, EncodedShape
<1>4. n \in Nat /\ DOMAIN list = 1..n /\ n <= MaxEntitlements
    BY <1>1, <1>2, ListShape DEF KeepsContract
<1>5. /\ IsEntitlements(sorted)
      /\ DOMAIN sorted = 1..n
      /\ Len(sorted) = n
      /\ Range(sorted) = Range(list)
      /\ Increasing(sorted)
    <2> HIDE DEF list
    <2> QED
        BY <1>2, SortedIsReordering, ListShape
<1>6. \A i \in DOMAIN sorted :
          EntitlementDecodable(sorted[i]) /\ ValidEntitlement(sorted[i])
    <2>1. \A i \in DOMAIN sorted : \E j \in DOMAIN list : sorted[i] = list[j]
        BY <1>5 DEF Range
    <2>2. \A j \in DOMAIN list : EntitlementDecodable(list[j]) /\ ValidEntitlement(list[j])
        BY <1>1 DEF KeepsContract
    <2> QED
        BY <2>1, <2>2
<1>7. \A i \in DOMAIN sorted :
          i > 1 => sorted[i - 1].entitlement_id < sorted[i].entitlement_id
    <2> HIDE DEF sorted, n
    <2> QED
        BY <1>4, <1>5 DEF Increasing
<1> DEFINE encoded == payload.document
<1>8. /\ encoded.schema_major = 1
      /\ encoded.schema_minor < 2^16
      /\ encoded.credential_id # None
      /\ encoded.authority_revision # 0
      /\ encoded.credential_generation # 0
    BY <1>1, EncodedFields DEF KeepsContract
<1> HIDE DEF payload, sorted
<1>9. Decodable(payload)
    <2>1. Present(encoded.supersedes_credential_id) \in {0, 1}
        BY DEF Present
    <2>2. 9 + Present(encoded.supersedes_credential_id) + payload.extra \in {9, 10}
        BY <1>3, <2>1
    <2>3. encoded.schema_major < 2^16
        BY <1>8
    <2>4. Items(payload) <= MaxItems
        BY DEF payload
    <2>5. Len(encoded.entitlements) <= MaxEntitlements
        BY <1>3, <1>4, <1>5
    <2>6. \A i \in DOMAIN encoded.entitlements : EntitlementDecodable(encoded.entitlements[i])
        BY <1>3, <1>6
    <2> QED
        BY <1>3, <1>8, <2>2, <2>3, <2>4, <2>5, <2>6 DEF Decodable
<1>10. ValidSemantics(encoded)
    BY <1>3, <1>6, <1>7, <1>8 DEF ValidSemantics
<1>11. EncodePayload(encoded) = payload
    BY <1>1, <1>2, EncodedIsEncoding DEF payload
<1> QED
    BY <1>8, <1>9, <1>10, <1>11 DEF payload
LEMMA ConformingIsValid ==
    ASSUME NEW document \in Conforming, NEW trusted_keys, IsList(trusted_keys),
           OneKeyPerId(trusted_keys), NEW key \in Authority \cap Range(trusted_keys),
           Items(EncodePayload(document)) <= MaxItems
    PROVE  Valid(Signed(EncodePayload(document), key), trusted_keys, TRUE)
<1> DEFINE payload == EncodePayload(document)
           a == Signed(payload, key)
           trusted == Trusted(key.key_id, trusted_keys)
<1>1. /\ a.form = "canonical" /\ a.artifact_kind = 1 /\ a.envelope_version = 1
      /\ a.algorithm_id = AlgorithmId /\ a.key_id = key.key_id /\ a.payload = payload
      /\ a.signature.s = "low" /\ a.signature.by = key.public_key_xy
      /\ a.signature.over = SigningInput(AlgorithmId, key.key_id, payload)
      /\ [a EXCEPT !.form = "canonical"] = a
    BY DEF Signed
<1>2. /\ Decodable(payload)
      /\ EncodePayload(payload.document) = payload
      /\ payload.document.schema_major = 1
      /\ ValidSemantics(payload.document)
    BY ConformingPayload
<1>3. trusted # {} /\ trusted_keys[Min(trusted)] = key
    <2>1. trusted \in SUBSET Nat
        BY DEF Trusted, IsList
    <2>2. trusted # {}
        BY DEF Trusted, Range
    <2>3. Min(trusted) \in trusted
        BY <2>1, <2>2, MinIsLeast
    <2>4. /\ Min(trusted) \in DOMAIN trusted_keys
          /\ trusted_keys[Min(trusted)].key_id = key.key_id
        BY <2>3 DEF Trusted
    <2>5. trusted_keys[Min(trusted)] \in Range(trusted_keys)
        BY <2>4 DEF Range
    <2> QED
        BY <2>2, <2>4, <2>5 DEF OneKeyPerId
<1> HIDE DEF a, payload, trusted
<1>4. EnvelopeAccepted(a)
    BY <1>1 DEF EnvelopeAccepted, EncodeEnvelope
<1>5. EnvelopeSupported(a, trusted_keys)
    BY <1>1, <1>3 DEF EnvelopeSupported, trusted
<1>6. PayloadAccepted(a) /\ SchemaSupported(a) /\ ValidSemantics(Decode(a.payload))
    BY <1>1, <1>2 DEF PayloadAccepted, SchemaSupported, Decode
<1>7. SignatureAccepted(a, trusted_keys, TRUE)
    BY <1>1, <1>3 DEF SignatureAccepted, CngVerify, MessageOf, trusted
<1> QED
    BY <1>4, <1>5, <1>6, <1>7 DEF Valid, a, payload

\* The fixture holds what ConformingIsAccepted is about.
HoldsConforming ==
    /\ OneKeyPerId(fixture.trusted_keys)
    /\ \E document \in Conforming, key \in Authority \cap Range(fixture.trusted_keys) :
          LET payload == EncodePayload(document)
          IN  /\ Items(payload) <= MaxItems
              /\ fixture.artifact = Signed(payload, key)

\* A valid artifact, and CNG at work: the run ends with ok.
LEMMA ConformingRunIsOk ==
    ASSUME TypeOK, HoldsConforming, NEW asked, NEW data,
           FixtureCommand(asked, LoadRuntime(TRUE), data, TRUE)
    PROVE  answer'.result.ok = TRUE
<1>1. PICK document \in Conforming, key \in Authority \cap Range(fixture.trusted_keys) :
          /\ Items(EncodePayload(document)) <= MaxItems
          /\ fixture.artifact = Signed(EncodePayload(document), key)
    BY DEF HoldsConforming
<1>2. fixture.trusted_keys # <<>>
    BY <1>1 DEF Range
<1>3. fixture.carrier = "present" /\ fixture.trusted_keys \in TrustStores
    BY <1>2 DEF TypeOK, WithoutArtifact, Without, With
<1>4. Valid(fixture.artifact, fixture.trusted_keys, TRUE)
    <2>1. IsList(fixture.trusted_keys)
        BY <1>3, CredentialAssumption
    <2> QED
        BY <1>1, <2>1, ConformingIsValid DEF HoldsConforming
<1>5. ~Unreadable
    BY <1>2, <1>3 DEF Unreadable
<1> DEFINE license == LoadRuntime(TRUE)
<1>6. license.state = "valid"
    <2> DEFINE result == VerifyCredential(fixture.artifact, fixture.trusted_keys, TRUE)
    <2>1. result = [status |-> "valid", credential |-> Decode(fixture.artifact.payload)]
        BY <1>4 DEF VerifyCredential
    <2>2. Decode(fixture.artifact.payload) # None
        BY <1>3, MessageAssumption DEF TypeOK, WithoutArtifact, Without, Artifact, Decode
    <2>3. license = FromVerification(result)
        BY <1>3 DEF LoadRuntime
    <2> HIDE DEF result, license
    <2>4. result.status = "valid" /\ result.credential # None
        BY <2>1, <2>2
    <2> QED
        BY <2>3, <2>4 DEF FromVerification
<1> HIDE DEF license
<1>7. answer'.result = Result(TRUE, "OK", FALSE, data, 0)
    BY <1>5, <1>6 DEF FixtureCommand, Ends, license
<1> QED
    BY <1>7 DEF Result
LEMMA ConformingFixtureStep ==
    ASSUME TypeOK, NEW asked, NEW data, NEW cng_works \in BOOLEAN,
           FixtureCommand(asked, LoadRuntime(cng_works), data, cng_works)
    PROVE  ConformingIsAccepted'
<1>1. CASE cng_works = FALSE
    <2>1. answer'.failed = TRUE
        BY <1>1 DEF FixtureCommand, Ends
    <2> QED
        BY <2>1 DEF ConformingIsAccepted
<1>2. CASE cng_works = TRUE /\ HoldsConforming
    <2>1. answer'.result.ok = TRUE
        BY <1>2, ConformingRunIsOk
    <2> QED
        BY <2>1 DEF ConformingIsAccepted
<1>3. CASE ~HoldsConforming
    <2>1. ~HoldsConforming'
        BY <1>3 DEF HoldsConforming, FixtureCommand, licensing
    <2> QED
        BY <2>1 DEF ConformingIsAccepted, HoldsConforming
<1> QED
    BY <1>1, <1>2, <1>3

LEMMA ConformingStep == Inv /\ ConformingIsAccepted /\ [Next]_vars => ConformingIsAccepted'
<1> SUFFICES ASSUME Inv, ConformingIsAccepted, [Next]_vars PROVE ConformingIsAccepted'
    OBVIOUS
<1>1. TypeOK
    BY DEF Inv
<1>2. CASE FixtureStatus
    BY <1>1, <1>2, ConformingFixtureStep DEF FixtureStatus
<1>3. CASE FixtureEntitlement
    BY <1>1, <1>3, ConformingFixtureStep DEF FixtureEntitlement
<1>4. CASE Misused
    <2>1. answer'.asked.command = "other"
        BY <1>4 DEF Misused, Ends
    <2> QED
        BY <2>1 DEF ConformingIsAccepted, OfFixture, Answered
<1>5. CASE program' = "axlic"
    BY <1>5 DEF ConformingIsAccepted, OfFixture
<1>6. CASE answer' = None
    BY <1>6 DEF ConformingIsAccepted, OfFixture, Answered
<1>7. CASE UNCHANGED vars
    BY <1>7 DEF vars, ConformingIsAccepted, OfFixture, Answered
<1>8. CASE ProductStatus \/ LoadIdentity \/ EstablishIdentity \/ EstablishRefused \/ NoStateRoot
    BY <1>5, <1>8 DEF ProductStatus, LoadIdentity, EstablishIdentity, EstablishRefused,
       NoStateRoot, IdentityEnds
<1>9. CASE Exit \/ Issue \/ Install \/ Edit \/ ReplaceStateFile
    BY <1>6, <1>9 DEF Exit, Issue, Install, Edit, ReplaceStateFile, Licensing
<1> QED
    BY <1>2, <1>3, <1>4, <1>7, <1>8, <1>9 DEF Next

\* What encode_credential_payload writes of a credential that keeps the
\* contract, in whatever order it was given the entitlements, is accepted
\* wherever it is carried untouched and its key is trusted.
THEOREM ConformingIsAlwaysAccepted == Spec => []ConformingIsAccepted
<1>1. Init => ConformingIsAccepted
    BY DEF Init, ConformingIsAccepted, OfFixture, Answered
<1> QED
    BY <1>1, ConformingStep, InitInv, StepInv, PTL DEF Spec
=============================================================================
