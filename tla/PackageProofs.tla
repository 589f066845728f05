---------------------------- MODULE PackageProofs ----------------------------
(***************************************************************************)
(* What the structural parse and the signing view guarantee, for every     *)
(* package whatsoever: received copies are not assumed to come from Seal.  *)
(***************************************************************************)
EXTENDS Package, TLAPS, FiniteSetTheorems, SequenceTheorems

(* The fields a signed_fields list selects are all nine, however permuted, *)
(* once CheckSignedFields accepts it: nine names, none unknown and none    *)
(* twice, leave none out. *)
LEMMA SignedFieldsComplete ==
    ASSUME NEW S, NEW names \in Seq(S), CheckSignedFields(names)
    PROVE  Range(names) = Range(RequiredSignedFields)
<1> DEFINE T == Range(RequiredSignedFields)
<1>1. Len(RequiredSignedFields) = 9 /\ DOMAIN RequiredSignedFields = 1..9
  BY DEF RequiredSignedFields
<1>2. DOMAIN names = 1..9
  BY <1>1 DEF CheckSignedFields
<1>3. IsFiniteSet(1..9) /\ Cardinality(1..9) = 9
  <2>1. 1 \in Int /\ 9 \in Int /\ ~(1 > 9) /\ 9 - 1 + 1 = 9
    OBVIOUS
  <2>2. /\ IsFiniteSet(1..9)
        /\ Cardinality(1..9) = IF 1 > 9 THEN 0 ELSE 9 - 1 + 1
    BY <2>1, FS_Interval, Zenon
  <2>3. QED
    BY <2>1, <2>2
<1>4. RequiredSignedFields \in Surjection(1..9, T)
  <2>1. RequiredSignedFields = [i \in 1..9 |-> RequiredSignedFields[i]]
    BY DEF RequiredSignedFields
  <2>2. RequiredSignedFields \in [1..9 -> T]
    BY <1>1, <2>1 DEF Range
  <2>3. QED
    BY <1>1, <2>2 DEF Surjection, Range
<1>5. IsFiniteSet(T) /\ Cardinality(T) <= 9
  BY <1>3, <1>4, FS_Surjection
<1>6. names \in Injection(1..9, T)
  <2>1. names \in [1..9 -> T]
    <3>1. names = [i \in 1..9 |-> names[i]]
      BY <1>2
    <3>2. \A i \in 1..9 : names[i] \in T
      BY <1>2 DEF CheckSignedFields, Range
    <3>3. QED
      BY <3>1, <3>2
  <2>2. QED
    BY <2>1 DEF CheckSignedFields, Injection
<1>7. names \in Surjection(1..9, T)
  <2>1. /\ 9 <= Cardinality(T)
        /\ 9 = Cardinality(T) <=> names \in Surjection(1..9, T)
    BY <1>3, <1>5, <1>6, FS_Injection
  <2>2. Cardinality(T) \in Nat
    BY <1>5, FS_CardinalityType
  <2>3. QED
    BY <1>5, <2>1, <2>2
<1>8. QED
  BY <1>2, <1>7 DEF Surjection, Range

(* The view a verifier reconstructs from signed_fields is the view that    *)
(* the signer built, or none: no list of names makes it another one. *)
THEOREM ViewIsWhole ==
    ASSUME NEW S, NEW p, p.signature.signed_fields \in Seq(S)
    PROVE  ReconstructSigningView(p) \in {Nil, BuildSigningView(p)}
<1>1. CASE CheckSignedFields(p.signature.signed_fields)
  BY <1>1, SignedFieldsComplete
     DEF ReconstructSigningView, BuildSigningView, SigningView
<1>2. CASE ~CheckSignedFields(p.signature.signed_fields)
  BY <1>2 DEF ReconstructSigningView
<1>3. QED
  BY <1>1, <1>2

(* A nonempty set of natural numbers has a least element. *)
LEMMA LeastElement ==
    ASSUME NEW T \in SUBSET Nat, T # {}
    PROVE  \E i \in T : \A j \in T : i <= j
<1> DEFINE R == OpToRel(<, Nat)
<1>1. PICK i \in T : \A j \in T : <<j, i>> \notin R
  <2>1. IsWellFoundedOn(R, Nat)
    BY NatLessThanWellFounded
  <2>2. QED
    BY <2>1, WFMin, Zenon
<1>2. ASSUME NEW j \in T PROVE i <= j
  <2>1. <<j, i>> \in Nat \X Nat
    OBVIOUS
  <2>2. ~ (j < i)
    BY <1>1, <2>1, Zenon DEF OpToRel
  <2>3. QED
    BY <2>2
<1>3. QED
  BY <1>2

(* A package past the structural parse has no faulty audience. *)
LEMMA ParsedHasNoFaultyAudience ==
    ASSUME NEW S, NEW p, p.manifest.segment_order \in Seq(S),
           ParsePackage(p) = FaultNone
    PROVE  /\ FaultyAudiences(p) = {}
           /\ Cardinality(DOMAIN p.manifest.segments)
                = Len(p.manifest.segment_order)
<1>1. ASSUME FaultyAudiences(p) # {} PROVE FALSE
  <2>1. FaultyAudiences(p) \in SUBSET Nat
    BY DEF FaultyAudiences
  <2>2. FirstFaulty(p) \in FaultyAudiences(p)
    BY <1>1, <2>1, LeastElement DEF FirstFaulty
  <2>3. AudienceFault(p, FirstFaulty(p)) # FaultNone
    BY <2>2 DEF FaultyAudiences
  <2>4. QED
    BY <1>1, <2>3 DEF ParsePackage, FaultNone
<1>2. QED
  BY <1>1 DEF ParsePackage, FaultNone

(* Past the structural parse, for every package of a finite manifest, the  *)
(* segment order names exactly the manifest's audiences, each once, and    *)
(* each has its sealed segment: the claim verify.go makes where it calls   *)
(* SegmentsRoot unreachable to fail. *)
THEOREM ParsedIsWellFormed ==
    ASSUME NEW S, NEW p, p.manifest.segment_order \in Seq(S),
           IsFiniteSet(DOMAIN p.manifest.segments),
           ParsePackage(p) = FaultNone
    PROVE  /\ SameAudiences(p.manifest.segment_order, PlainHashes(p))
           /\ Range(p.manifest.segment_order) = DOMAIN p.manifest.segments
           /\ Range(p.manifest.segment_order) \subseteq DOMAIN p.segments
<1> DEFINE order == p.manifest.segment_order
           M     == DOMAIN p.manifest.segments
<1>1. \A i \in DOMAIN order : AudienceFault(p, i) = FaultNone
  BY ParsedHasNoFaultyAudience DEF FaultyAudiences
<1>2. ASSUME NEW i \in DOMAIN order
      PROVE  /\ \A j \in 1..(i - 1) : order[j] # order[i]
             /\ order[i] \in M /\ order[i] \in DOMAIN p.segments
  BY <1>1 DEF AudienceFault, FaultNone
<1>3. DOMAIN order = 1..Len(order) /\ Len(order) \in Nat
  OBVIOUS
<1>4. IsInjective(order)
  BY <1>2, <1>3 DEF IsInjective
<1>5. order \in Injection(1..Len(order), M)
  <2>1. order \in [1..Len(order) -> M]
    <3>1. order = [i \in 1..Len(order) |-> order[i]]
      BY <1>3
    <3>2. \A i \in 1..Len(order) : order[i] \in M
      BY <1>2, <1>3
    <3>3. QED
      BY <3>1, <3>2
  <2>2. QED
    BY <1>4, <2>1 DEF Injection
<1>6. Cardinality(1..Len(order)) = Cardinality(M)
  <2>1. Cardinality(M) = Len(order)
    BY ParsedHasNoFaultyAudience
  <2>2. Cardinality(1..Len(order)) =
            IF 1 > Len(order) THEN 0 ELSE Len(order) - 1 + 1
    <3>1. 1 \in Int /\ Len(order) \in Int
      BY <1>3
    <3>2. QED
      BY <3>1, FS_Interval, Zenon
  <2>3. QED
    BY <1>3, <2>1, <2>2
<1>7. order \in Surjection(1..Len(order), M)
  BY <1>5, <1>6, FS_Injection
<1>8. Range(order) = M
  BY <1>3, <1>7 DEF Surjection, Range
<1>9. QED
  BY <1>2, <1>4, <1>8 DEF SameAudiences, PlainHashes, Range

-----------------------------------------------------------------------------
(* The free terms: what can be read back from a term that was built.       *)

LEMMA JoinOfParts == ASSUME NEW combined PROVE Join(Body(combined), Tag(combined)) = combined
  BY DEF Join, Body, Tag

(* Whatever body a tag is joined with, what decrypts is what the tag was   *)
(* cut from, under the same key, nonce and additional data.                *)
LEMMA DecryptsTagged ==
    ASSUME NEW body, NEW d, NEW n, NEW text, NEW aad,
           NEW dek, NEW nonce, NEW other,
           Decrypt(dek, nonce, Join(body, Tag(Encrypt(d, n, text, aad))), other) # Nil
    PROVE  /\ dek = d /\ other = aad
           /\ Decrypt(dek, nonce, Join(body, Tag(Encrypt(d, n, text, aad))), other) = text
<1> DEFINE sealed == Encrypt(d, n, text, aad)
           joined == Join(body, Tag(sealed))
<1>1. joined = IF body = Body(sealed) THEN sealed
               ELSE <<"mixed", body, Tag(sealed), Nil, Nil>>
  BY DEF Join, Tag
<1>2. joined = <<"gcm", dek, nonce, joined[4], other>>
  BY DEF Decrypt
<1>3. joined = sealed
  <2>1. joined[1] = "gcm"
    BY <1>2
  <2>2. <<"mixed", body, Tag(sealed), Nil, Nil>>[1] = "mixed"
    OBVIOUS
  <2>3. QED
    BY <1>1, <2>1, <2>2
<1>4. sealed = <<"gcm", d, n, text, aad>>
  BY DEF Encrypt
<1>5. joined[4] = text /\ dek = d /\ other = aad
  <2> HIDE DEF joined, sealed
  <2>1. <<"gcm", d, n, text, aad>> = <<"gcm", dek, nonce, joined[4], other>>
    BY <1>2, <1>3, <1>4
  <2>2. QED
    BY <2>1
<1>6. QED
  BY <1>2, <1>5 DEF Decrypt

LEMMA AADBindsContext ==
    ASSUME NEW ctx, NEW a, NEW v, NEW other, NEW b, NEW w,
           AAD(ctx, a, v) = AAD(other, b, w)
    PROVE  a = b /\ ctx.package_id = other.package_id
<1> DEFINE R(c, s, x) == [package_id |-> c.package_id, segment |-> s, spec_version |-> x,
                          tenant_id |-> c.tenant_id, environment |-> c.environment]
<1>1. R(ctx, a, v) = R(other, b, w)
  BY DEF AAD, JCS
<1>2. QED
  BY <1>1

(* What a wrapped key is opened by, and to.                                *)
LEMMA UnwrapsOwn ==
    ASSUME NEW priv, NEW epk, NEW pub, NEW ephemeral, NEW dek,
           Unwrap(priv, epk, Wrap(pub, ephemeral, dek)) # Nil
    PROVE  /\ pub = PublicKey(priv)
           /\ Unwrap(priv, epk, Wrap(pub, ephemeral, dek)) = dek
  BY DEF Unwrap, Wrap

(* A ciphertext and a tag that hash like a combined text are its two parts. *)
LEMMA HashedParts ==
    ASSUME NEW body, NEW tagged, NEW d, NEW n, NEW text, NEW aad,
           H(Join(body, Tag(tagged))) = H(Encrypt(d, n, text, aad))
    PROVE  body = Body(Encrypt(d, n, text, aad)) /\ tagged = Encrypt(d, n, text, aad)
<1>1. Join(body, Tag(tagged)) = Encrypt(d, n, text, aad)
  BY DEF H
<1>2. Join(body, Tag(tagged)) = IF body = Body(tagged) THEN tagged
                                ELSE <<"mixed", body, Tag(tagged), Nil, Nil>>
  BY DEF Join, Tag
<1>3. <<"mixed", body, Tag(tagged), Nil, Nil>> # Encrypt(d, n, text, aad)
  <2>1. <<"mixed", body, Tag(tagged), Nil, Nil>>[1] # <<"gcm", d, n, text, aad>>[1]
    OBVIOUS
  <2>2. QED
    BY <2>1 DEF Encrypt
<1>4. QED
  BY <1>1, <1>2, <1>3

(* Equal signing views, equal signed sections.                             *)
LEMMA ViewDeterminesSections ==
    ASSUME NEW S, NEW p, NEW q, p.signature.signed_fields \in Seq(S),
           ReconstructSigningView(p) # Nil,
           ReconstructSigningView(p) = BuildSigningView(q)
    PROVE  \A f \in Range(RequiredSignedFields) : p[f] = q[f]
<1> DEFINE T == Range(RequiredSignedFields)
<1>1. ReconstructSigningView(p) = JCS([f \in T |-> p[f]])
  BY SignedFieldsComplete DEF ReconstructSigningView, SigningView
<1>2. BuildSigningView(q) = JCS([f \in T |-> q[f]])
  BY DEF BuildSigningView, SigningView
<1>3. [f \in T |-> p[f]] = [f \in T |-> q[f]]
  <2> HIDE DEF T
  <2>1. <<"jcs", [f \in T |-> p[f]]>> = <<"jcs", [f \in T |-> q[f]]>>
    BY <1>1, <1>2 DEF JCS
  <2>2. QED
    BY <2>1
<1>4. QED
  BY <1>3

-----------------------------------------------------------------------------
(* What Seal builds passes Level 1.                                        *)

LEMMA LastSpecExists ==
    ASSUME NEW T, NEW specs \in Seq(T), NEW n \in SpecNames(specs)
    PROVE  \E i \in DOMAIN specs : LastSpec(specs, n) = specs[i] /\ specs[i].name = n
<1> DEFINE I    == {i \in DOMAIN specs : specs[i].name = n}
           last == CHOOSE i \in DOMAIN specs :
                        /\ specs[i].name = n
                        /\ \A j \in DOMAIN specs : specs[j].name = n => j <= i
<1>1. DOMAIN specs = 1..Len(specs) /\ Len(specs) \in Nat
  OBVIOUS
<1>2. I # {}
  BY DEF SpecNames
<1>3. {Len(specs) - i : i \in I} \in SUBSET Nat /\ {Len(specs) - i : i \in I} # {}
  BY <1>1, <1>2
<1>4. PICK k \in {Len(specs) - i : i \in I} : \A m \in {Len(specs) - i : i \in I} : k <= m
  BY <1>3, LeastElement
<1>5. PICK i \in I : k = Len(specs) - i
  BY <1>4
<1>6. ASSUME NEW j \in I PROVE j <= i
  <2>1. k <= Len(specs) - j
    BY <1>4
  <2>2. i \in Nat /\ j \in Nat
    BY <1>1
  <2>3. QED
    BY <1>1, <1>5, <2>1, <2>2
<1>7. last \in DOMAIN specs /\ specs[last].name = n
  BY <1>5, <1>6
<1>8. QED
  BY <1>7 DEF LastSpec

(* An order of all the audiences, each once, is as long as they are many.  *)
LEMMA OrderCounts ==
    ASSUME NEW S, NEW order \in Seq(S), IsInjective(order)
    PROVE  IsFiniteSet(Range(order)) /\ Cardinality(Range(order)) = Len(order)
<1>1. DOMAIN order = 1..Len(order) /\ Len(order) \in Nat
  OBVIOUS
<1>2. IsFiniteSet(1..Len(order)) /\ Cardinality(1..Len(order)) = Len(order)
  <2>1. 1 \in Int /\ Len(order) \in Int
    BY <1>1
  <2>2. /\ IsFiniteSet(1..Len(order))
        /\ Cardinality(1..Len(order)) =
              IF 1 > Len(order) THEN 0 ELSE Len(order) - 1 + 1
    BY <2>1, FS_Interval, Zenon
  <2>3. QED
    BY <1>1, <2>2
<1>3. order \in [1..Len(order) -> Range(order)]
  <2>1. order = [i \in 1..Len(order) |-> order[i]]
    BY <1>1
  <2>2. \A i \in 1..Len(order) : order[i] \in Range(order)
    BY <1>1 DEF Range
  <2>3. QED
    BY <2>1, <2>2
<1>4. order \in Surjection(1..Len(order), Range(order))
  BY <1>1, <1>3 DEF Surjection, Range
<1>5. order \in Injection(1..Len(order), Range(order))
  BY <1>1, <1>3 DEF Injection, IsInjective
<1>6. IsFiniteSet(Range(order)) /\ Cardinality(Range(order)) <= Len(order)
  BY <1>2, <1>4, FS_Surjection
<1>7. Len(order) <= Cardinality(Range(order))
  BY <1>2, <1>5, <1>6, FS_Injection
<1>8. Cardinality(Range(order)) \in Nat
  BY <1>6, FS_CardinalityType
<1>9. QED
  BY <1>1, <1>6, <1>7, <1>8

LEMMA RequiredFieldsCheck ==
    /\ CheckSignedFields(RequiredSignedFields)
    /\ Range(RequiredSignedFields) =
            {"spec_version", "profile", "package_id", "issued_at",
             "issuer", "intent", "cnf", "bindings", "manifest"}
    /\ "signature" \notin Range(RequiredSignedFields)
    /\ RequiredSignedFields # <<>>
<1>1. Len(RequiredSignedFields) = 9 /\ DOMAIN RequiredSignedFields = 1..9
  BY DEF RequiredSignedFields
<1>2. IsInjective(RequiredSignedFields)
  BY <1>1 DEF IsInjective, RequiredSignedFields
<1>3. Range(RequiredSignedFields) =
            {"spec_version", "profile", "package_id", "issued_at",
             "issuer", "intent", "cnf", "bindings", "manifest"}
  BY <1>1 DEF Range, RequiredSignedFields
<1>4. QED
  BY <1>1, <1>2, <1>3 DEF CheckSignedFields

(* Each entry is of the parts of one combined text.                        *)
SealedEntries(entries) ==
    \A a \in DOMAIN entries :
        \E combined : /\ entries[a].manifest.cipher_hash = H(combined)
                      /\ entries[a].sealed.ciphertext = Body(combined)
                      /\ entries[a].sealed.tag = Tag(combined)

(* A request's bindings can all be computed when ComputeBindings says so.  *)
LEMMA BindingsComputed ==
    ASSUME NEW T, NEW specs \in Seq(T), NEW ctx, ComputeBindings(ctx, specs) # Nil,
           NEW n \in SpecNames(specs)
    PROVE  LET spec == LastSpec(specs, n)
           IN  /\ spec.name = n /\ BindingValue(spec, ctx) # Nil
               /\ n \in DOMAIN ComputeBindings(ctx, specs)
               /\ ComputeBindings(ctx, specs)[n] = BindingValue(spec, ctx)
<1>1. ~ \E i \in DOMAIN specs : BindingValue(specs[i], ctx) = Nil
  BY DEF ComputeBindings
<1>2. ComputeBindings(ctx, specs)
        = [m \in SpecNames(specs) |-> BindingValue(LastSpec(specs, m), ctx)]
  BY <1>1 DEF ComputeBindings
<1>3. PICK i \in DOMAIN specs : LastSpec(specs, n) = specs[i] /\ specs[i].name = n
  BY LastSpecExists
<1>4. QED
  BY <1>1, <1>2, <1>3

(* Verify passes what Seal builds from consistent parts: any audiences and *)
(* texts, with the bindings it was built with or none.                     *)
LEMMA BuiltPasses ==
    ASSUME NEW id, NEW req, NEW hash, NEW entries, NEW kid, NEW key, NEW trust, NEW specs,
           NEW S, req.segment_order \in Seq(S), req.segment_order # <<>>,
           NEW T, req.specs \in Seq(T), specs \in {<<>>, req.specs},
           SealedEntries(entries),
           <<req.issuer, kid>> \in DOMAIN trust, trust[<<req.issuer, kid>>] = key,
           SegmentsRoot(req.segment_order, EntryPlainHashes(entries)) # Nil,
           ExtraBindings(req, hash, entries,
                SegmentsRoot(req.segment_order, EntryPlainHashes(entries))) # Nil,
           BuildSigningView(UnsignedPackage(id, req, hash, entries, kid)) # Nil
    PROVE  LET p == SignedPackage(UnsignedPackage(id, req, hash, entries, kid), key)
           IN  /\ ParsePackage(p) = FaultNone
               /\ Level1Report(p, trust, specs) = AttestedReport(p, specs)
               /\ Level1Passed(Level1Report(p, trust, specs))
<1> DEFINE order == req.segment_order
           root  == SegmentsRoot(order, EntryPlainHashes(entries))
           extra == ExtraBindings(req, hash, entries, root)
           u     == UnsignedPackage(id, req, hash, entries, kid)
           p     == SignedPackage(u, key)
<1>1. /\ p.spec_version = SupportedSpecVersion /\ p.package_id = id
      /\ p.issuer = [iss |-> req.issuer, kid |-> kid]
      /\ p.intent = [intent_ref |-> req.intent_ref, constraints_hash |-> hash]
      /\ p.bindings.segments_root = root /\ p.bindings.extra = extra
      /\ p.manifest = [segment_order |-> order, aad_context |-> AADContext(id, req),
                       segments |-> [a \in DOMAIN entries |-> entries[a].manifest]]
      /\ p.segments = [a \in DOMAIN entries |-> entries[a].sealed]
      /\ p.signature = [signed_fields |-> RequiredSignedFields,
                        value |-> Sign(key, BuildSigningView(u))]
  BY DEF SignedPackage, UnsignedPackage
<1>2. IsInjective(order) /\ Range(order) = DOMAIN entries
  BY DEF SegmentsRoot, SameAudiences, EntryPlainHashes
<1>3. ReconstructSigningView(p) = BuildSigningView(u) /\ BuildSigningView(u) # Nil
  <2>1. \A f \in Range(RequiredSignedFields) : p[f] = u[f]
    BY RequiredFieldsCheck DEF SignedPackage, UnsignedPackage
  <2>2. p.bindings = u.bindings
    BY DEF SignedPackage, UnsignedPackage
  <2>3. SigningView(p, RequiredSignedFields) = SigningView(u, RequiredSignedFields)
    <3> HIDE DEF p, u
    <3>1. [f \in Range(RequiredSignedFields) |-> p[f]]
            = [f \in Range(RequiredSignedFields) |-> u[f]]
      BY <2>1
    <3>2. QED
      BY <2>2, <3>1 DEF SigningView
  <2>4. ReconstructSigningView(p) = SigningView(p, RequiredSignedFields)
    BY <1>1, RequiredFieldsCheck DEF ReconstructSigningView
  <2>5. QED
    BY <2>3, <2>4 DEF BuildSigningView
<1>4. ParsePackage(p) = FaultNone
  <2>1. p.signature.signed_fields # <<>> /\ CheckSignedFields(p.signature.signed_fields)
    BY <1>1, RequiredFieldsCheck
  <2>2. p.manifest.segment_order = order /\ DOMAIN p.manifest.segments = DOMAIN entries
        /\ DOMAIN p.segments = DOMAIN entries
    BY <1>1
  <2>3. Cardinality(DOMAIN p.manifest.segments) = Len(p.manifest.segment_order)
    BY <1>2, <2>2, OrderCounts
  <2>4. FaultyAudiences(p) = {}
    <3> SUFFICES ASSUME NEW i \in DOMAIN order PROVE AudienceFault(p, i) = FaultNone
      BY <2>2 DEF FaultyAudiences
    <3>1. order[i] \in DOMAIN entries
      BY <1>2 DEF Range
    <3>2. ~ \E j \in 1..(i - 1) : order[j] = order[i]
      BY <1>2 DEF IsInjective
    <3>3. QED
      BY <2>2, <3>1, <3>2 DEF AudienceFault
  <2>5. Decodes(p.signature.value)
    BY <1>1 DEF Decodes, Undecodable, Sign
  <2>6. ReconstructSigningView(p) # Nil
    BY <1>3
  <2> HIDE DEF p
  <2>7. QED
    BY <2>1, <2>2, <2>3, <2>4, <2>5, <2>6 DEF ParsePackage
<1>5. SignatureValid(p, trust)
  BY <1>1, <1>3 DEF SignatureValid, VerifyEd25519
<1>6. Level1Report(p, trust, specs) = AttestedReport(p, specs)
  BY <1>1, <1>4, <1>5 DEF Level1Report
<1>7. Level1Passed(AttestedReport(p, specs))
  <2> DEFINE ctx == BindingContext(PlainHashes(p), p.intent.intent_ref,
                                   p.intent.constraints_hash,
                                   SegmentsRoot(p.manifest.segment_order, PlainHashes(p)))
             r   == AttestedReport(p, specs)
  <2>1. PlainHashes(p) = EntryPlainHashes(entries)
    BY <1>1, <1>2 DEF PlainHashes, EntryPlainHashes
  <2>2. SegmentsRoot(p.manifest.segment_order, PlainHashes(p)) = root
    BY <1>1, <2>1
  <2>3. ctx = BindingContext(EntryPlainHashes(entries), req.intent_ref, hash, root)
    BY <1>1, <2>1, <2>2
  <2>4. extra = ComputeBindings(ctx, req.specs) /\ extra # Nil
    BY <2>3 DEF ExtraBindings
  <2>5. \A a \in Range(order) : CheckCipherHash(p.manifest.segments[a], p.segments[a])
    <3> SUFFICES ASSUME NEW a \in Range(order)
                 PROVE  CheckCipherHash(p.manifest.segments[a], p.segments[a])
      OBVIOUS
    <3>1. /\ p.manifest.segments[a] = entries[a].manifest
          /\ p.segments[a] = entries[a].sealed
      BY <1>1, <1>2
    <3>2. PICK combined : /\ entries[a].manifest.cipher_hash = H(combined)
                          /\ entries[a].sealed.ciphertext = Body(combined)
                          /\ entries[a].sealed.tag = Tag(combined)
      BY <1>2 DEF SealedEntries
    <3>3. Decodes(Body(combined)) /\ Decodes(Tag(combined))
      BY DEF Decodes, Undecodable, Body, Tag
    <3>4. QED
      BY <3>1, <3>2, <3>3, JoinOfParts DEF CheckCipherHash
  <2>6. \A n \in SpecNames(specs) : CheckProfileBinding(p, ctx, LastSpec(specs, n))
    <3> SUFFICES ASSUME NEW n \in SpecNames(specs)
                 PROVE  CheckProfileBinding(p, ctx, LastSpec(specs, n))
      OBVIOUS
    <3>1. specs = req.specs
      BY DEF SpecNames
    <3> HIDE DEF ctx, extra, p
    <3>2. QED
      BY <1>1, <2>4, <3>1, BindingsComputed DEF CheckProfileBinding
  <2>7. /\ r.Structural = FaultNone /\ r.SpecVersionSupported /\ r.Signature
        /\ r.AADContextConsistent = (p.manifest.aad_context.package_id = p.package_id)
        /\ r.CipherHashes = [a \in Range(p.manifest.segment_order) |->
                    CheckCipherHash(p.manifest.segments[a], p.segments[a])]
        /\ r.SegmentsRoot = (root # Nil /\ root = p.bindings.segments_root)
        /\ r.ProfileBindings = [n \in SpecNames(specs) |->
                    CheckProfileBinding(p, ctx, LastSpec(specs, n))]
    BY <2>2 DEF AttestedReport, VersionReport, EmptyReport
  <2>8. Range(order) # {}
    <3>1. 1 \in DOMAIN order
      OBVIOUS
    <3>2. QED
      BY <3>1 DEF Range
  <2> HIDE DEF r, ctx, p, root, u
  <2>9. r.AADContextConsistent /\ r.SegmentsRoot
    <3>1. p.manifest.aad_context.package_id = p.package_id
      BY <1>1 DEF AADContext
    <3>2. root # Nil /\ root = p.bindings.segments_root
      BY <1>1 DEF root
    <3>3. QED
      BY <2>7, <3>1, <3>2, Zenon
  <2>10. DOMAIN r.CipherHashes # {} /\ AllTrue(r.CipherHashes)
    <3>1. p.manifest.segment_order = order
      BY <1>1
    <3>2. r.CipherHashes = [a \in Range(order) |->
                CheckCipherHash(p.manifest.segments[a], p.segments[a])]
      BY <2>7, <3>1, Zenon
    <3>3. DOMAIN r.CipherHashes = Range(order)
      BY <3>2
    <3>4. \A a \in Range(order) : r.CipherHashes[a]
      BY <2>5, <3>2, Zenon
    <3>5. QED
      BY <2>8, <3>3, <3>4 DEF AllTrue
  <2>11. AllTrue(r.ProfileBindings)
    <3>1. DOMAIN r.ProfileBindings = SpecNames(specs)
      BY <2>7, Zenon
    <3>2. \A n \in SpecNames(specs) : r.ProfileBindings[n]
      BY <2>6, <2>7, Zenon
    <3>3. QED
      BY <3>1, <3>2 DEF AllTrue
  <2>12. QED
    BY <2>7, <2>9, <2>10, <2>11 DEF Level1Passed, r
<1>8. QED
  BY <1>4, <1>6, <1>7

-----------------------------------------------------------------------------
(* What a report or an outcome of Open stands for, of any package at all.  *)

(* Level 1 passes only through the attested part of the report.            *)
LEMMA PassedMeans ==
    ASSUME NEW p, NEW trust, NEW specs, Level1Passed(Level1Report(p, trust, specs))
    PROVE  /\ p.spec_version = SupportedSpecVersion
           /\ ParsePackage(p) = FaultNone /\ SignatureValid(p, trust)
           /\ p.manifest.aad_context.package_id = p.package_id
           /\ \A a \in Range(p.manifest.segment_order) :
                  CheckCipherHash(p.manifest.segments[a], p.segments[a])
           /\ p.bindings.segments_root
                = SegmentsRoot(p.manifest.segment_order, PlainHashes(p))
<1> DEFINE r == AttestedReport(p, specs)
           root == SegmentsRoot(p.manifest.segment_order, PlainHashes(p))
<1>1. p.spec_version = SupportedSpecVersion
  BY DEF Level1Report, Level1Passed, EmptyReport
<1>2. ParsePackage(p) = FaultNone
  BY <1>1 DEF Level1Report, Level1Passed, EmptyReport, VersionReport
<1>3. SignatureValid(p, trust)
  BY <1>1, <1>2 DEF Level1Report, Level1Passed, EmptyReport, VersionReport
<1>4. Level1Passed(r)
  BY <1>1, <1>2, <1>3 DEF Level1Report
<1>5. /\ r.AADContextConsistent = (p.manifest.aad_context.package_id = p.package_id)
      /\ r.CipherHashes = [a \in Range(p.manifest.segment_order) |->
                  CheckCipherHash(p.manifest.segments[a], p.segments[a])]
      /\ r.SegmentsRoot = (root # Nil /\ root = p.bindings.segments_root)
  BY DEF AttestedReport, VersionReport, EmptyReport
<1> HIDE DEF r, root
<1>6. r.AADContextConsistent /\ r.SegmentsRoot /\ AllTrue(r.CipherHashes)
  BY <1>4 DEF Level1Passed
<1>7. p.manifest.aad_context.package_id = p.package_id
  BY <1>5, <1>6, Zenon
<1>8. root = p.bindings.segments_root
  BY <1>5, <1>6, Zenon
<1>9. \A a \in Range(p.manifest.segment_order) :
          CheckCipherHash(p.manifest.segments[a], p.segments[a])
  <2>1. DOMAIN r.CipherHashes = Range(p.manifest.segment_order)
    BY <1>5, Zenon
  <2>2. \A a \in Range(p.manifest.segment_order) : r.CipherHashes[a]
    BY <1>6, <2>1 DEF AllTrue
  <2>3. QED
    BY <1>5, <2>2, Zenon
<1>10. QED
  BY <1>1, <1>2, <1>3, <1>7, <1>8, <1>9 DEF root

LEMMA ParsedMeans ==
    ASSUME NEW S, NEW p, p.manifest.segment_order \in Seq(S),
           ParsePackage(p) = FaultNone
    PROVE  /\ p.signature.signed_fields # <<>> /\ p.manifest.segment_order # <<>>
           /\ CheckSignedFields(p.signature.signed_fields)
           /\ ReconstructSigningView(p) # Nil /\ Decodes(p.signature.value)
<1>1. FaultyAudiences(p) = {}
  BY ParsedHasNoFaultyAudience
<1>2. QED
  BY <1>1 DEF ParsePackage, FaultNone

LEMMA IntentValidMeans ==
    ASSUME NEW p, NEW hash, VerifyIntent(p, hash).Valid
    PROVE  /\ hash # Nil /\ hash = p.intent.constraints_hash
           /\ p.bindings.intent_commitment =
                IntentCommitment(p.intent.intent_ref, hash, p.bindings.segments_root)
<1> DEFINE valid == /\ hash # Nil /\ hash = p.intent.constraints_hash
                    /\ p.bindings.intent_commitment =
                        IntentCommitment(p.intent.intent_ref, hash,
                                         p.bindings.segments_root)
<1>1. VerifyIntent(p, hash).Valid = valid
  BY DEF VerifyIntent
<1> HIDE DEF valid
<1>2. valid
  BY <1>1, Zenon
<1>3. QED
  BY <1>2 DEF valid

LEMMA IntentValidFrom ==
    ASSUME NEW p, NEW hash, hash # Nil, hash = p.intent.constraints_hash,
           p.bindings.intent_commitment =
                IntentCommitment(p.intent.intent_ref, hash, p.bindings.segments_root)
    PROVE  VerifyIntent(p, hash).Valid
<1> DEFINE valid == /\ hash # Nil /\ hash = p.intent.constraints_hash
                    /\ p.bindings.intent_commitment =
                        IntentCommitment(p.intent.intent_ref, hash,
                                         p.bindings.segments_root)
<1>1. VerifyIntent(p, hash).Valid = valid
  BY DEF VerifyIntent
<1>2. valid
  OBVIOUS
<1> HIDE DEF valid
<1>3. QED
  BY <1>1, <1>2, Zenon

(* A text that Open reveals was recovered from the segment of the audience *)
(* it names, and hashes to what the manifest says.                         *)
LEMMA OpenMeans ==
    ASSUME NEW p, NEW priv, NEW trust, NEW specs,
           Nil \notin {"integrity_check_failed", "decryption_failed", "hash_mismatch"},
           OpenPackage(p, priv, trust, specs).err = Nil
    PROVE  LET o == OpenPackage(p, priv, trust, specs)
           IN  /\ Level1Passed(Level1Report(p, trust, specs))
               /\ o.audience \in DOMAIN p.manifest.segments \cap DOMAIN p.segments
               /\ o.plaintext = Recover(p, o.audience, priv) /\ o.plaintext # Nil
               /\ H(JCS(o.plaintext)) = p.manifest.segments[o.audience].plain_hash
<1> DEFINE o == OpenPackage(p, priv, trust, specs)
           matches == Matches(p.cnf, priv)
           a == CHOOSE n \in matches : TRUE
           text == Recover(p, a, priv)
<1>1. \A err : OpenFailed(err).err = err
  BY DEF OpenFailed
<1>2. o = IF ~Level1Passed(Level1Report(p, trust, specs))
          THEN OpenFailed("integrity_check_failed")
          ELSE IF \/ Cardinality(matches) # 1
                  \/ a \notin DOMAIN p.manifest.segments \cap DOMAIN p.segments
                  \/ text = Nil
               THEN OpenFailed("decryption_failed")
          ELSE IF H(JCS(text)) # p.manifest.segments[a].plain_hash
               THEN OpenFailed("hash_mismatch")
          ELSE [err |-> Nil, audience |-> a, plaintext |-> text]
  BY DEF OpenPackage
<1> HIDE DEF o, matches, a, text
<1>3. o.err = Nil
  BY DEF o
<1>4. /\ Level1Passed(Level1Report(p, trust, specs))
      /\ a \in DOMAIN p.manifest.segments \cap DOMAIN p.segments /\ text # Nil
      /\ H(JCS(text)) = p.manifest.segments[a].plain_hash
      /\ o = [err |-> Nil, audience |-> a, plaintext |-> text]
  BY <1>1, <1>2, <1>3
<1>5. o.audience = a /\ o.plaintext = text
  BY <1>4
<1>6. QED
  BY <1>4, <1>5 DEF o, text

(* An intact segment gives its text to the key it was wrapped for.         *)
LEMMA RecoversOwn ==
    ASSUME NEW p, NEW a, NEW priv, NEW ephemeral, NEW dek, dek # Nil, NEW n, NEW m,
           NEW text,
           p.segments[a].epk = EPK(ephemeral),
           p.segments[a].dek_wrapped = Wrap(PublicKey(priv), ephemeral, dek),
           p.segments[a].nonce = Nonce(n, m),
           LET combined == Encrypt(dek, Nonce(n, m), text,
                                   AAD(p.manifest.aad_context, a, p.spec_version))
           IN  /\ p.segments[a].ciphertext = Body(combined)
               /\ p.segments[a].tag = Tag(combined)
    PROVE  Recover(p, a, priv) = text
<1> DEFINE sealed == p.segments[a]
           aad == AAD(p.manifest.aad_context, a, p.spec_version)
           combined == Encrypt(dek, Nonce(n, m), text, aad)
<1>1. Unwrap(priv, sealed.epk, sealed.dek_wrapped) = dek
  BY DEF Unwrap, Wrap
<1>2. SealedSegmentDecodes(sealed)
  BY DEF SealedSegmentDecodes, Decodes, Undecodable, EPK, Wrap, Nonce, Body, Tag
<1>3. Join(sealed.ciphertext, sealed.tag) = combined
  BY JoinOfParts
<1>4. Decrypt(dek, Nonce(n, m), combined, aad) = text
  <2> HIDE DEF aad
  <2>1. combined = <<"gcm", dek, Nonce(n, m), text, aad>> /\ combined[4] = text
    BY DEF Encrypt
  <2> HIDE DEF combined
  <2>2. QED
    BY <2>1 DEF Decrypt
<1>5. QED
  BY <1>1, <1>2, <1>3, <1>4 DEF Recover

(* Open of a package that passes, with a key that one audience or none has *)
LEMMA OpensTheOne ==
    ASSUME NEW p, NEW priv, NEW trust, NEW specs,
           Level1Passed(Level1Report(p, trust, specs)),
           NEW a, Matches(p.cnf, priv) = {a},
           a \in DOMAIN p.manifest.segments \cap DOMAIN p.segments,
           NEW text, Recover(p, a, priv) = text, text # Nil,
           H(JCS(text)) = p.manifest.segments[a].plain_hash
    PROVE  OpenPackage(p, priv, trust, specs)
             = [err |-> Nil, audience |-> a, plaintext |-> text]
<1>1. Cardinality({a}) = 1
  BY FS_Singleton
<1>2. (CHOOSE x \in {a} : TRUE) = a
  OBVIOUS
<1>3. QED
  BY <1>1, <1>2 DEF OpenPackage

LEMMA OpensNone ==
    ASSUME NEW p, NEW priv, NEW trust, NEW specs,
           Level1Passed(Level1Report(p, trust, specs)), Matches(p.cnf, priv) = {}
    PROVE  OpenPackage(p, priv, trust, specs) = OpenFailed("decryption_failed")
<1>1. Cardinality({}) # 1
  BY FS_EmptySet
<1>2. QED
  BY <1>1 DEF OpenPackage

-----------------------------------------------------------------------------
(* The audience of a name, and the entries of all of a request's audiences *)
(* (seal.go, the loop over req.Audiences), pointwise as Issuance has them. *)
AudienceOf(r, a) == CHOOSE aud \in Range(r.audiences) : aud.name = a

EntriesOf(c, r) ==
    [a \in AudienceNames(r) |->
        SegmentEntry(AADContext(PackageID(c), r), AudienceOf(r, a),
                     r.segments[a], NewDEK(c, a), Nonce(c, a), Ephemeral(c, a))]

============================================================================
