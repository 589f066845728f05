---------------------------- MODULE CustodyProofs ----------------------------
(***************************************************************************)
(* Proofs about Custody, for every set of calls, requests, keys and        *)
(* versions, any number of faults in transit, of signatures over foreign   *)
(* contents and of amendments.                                             *)
(*                                                                         *)
(* CustodyInv is inductive.  The properties follow from it and from what   *)
(* PackageProofs says of the free terms.                                   *)
(***************************************************************************)
EXTENDS Custody, PackageProofs

(* Issuance names the operators of Package through its own instance.       *)
LEMMA SealingTerms ==
    /\ \A x : Sealing!JCS(x) = JCS(x) /\ Sealing!H(x) = H(x)
    /\ \A f : Sealing!Range(f) = Range(f)
    /\ \A f : Sealing!IsInjective(f) <=> IsInjective(f)
    /\ \A f, S : Sealing!Restrict(f, S) = Restrict(f, S)
    /\ \A c : Sealing!PackageID(c) = PackageID(c)
    /\ \A v : Sealing!ConstraintsHashOf(v) = ConstraintsHashOf(v)
    /\ \A k : Sealing!IssuerKey(k) = IssuerKey(k)
    /\ \A key, view : Sealing!Sign(key, view) = Sign(key, view)
    /\ \A r : Sealing!AudienceNames(r) = AudienceNames(r)
    /\ \A r, a : Sealing!AudienceNamed(r, a) =
                    CHOOSE aud \in Range(r.audiences) : aud.name = a
    /\ Sealing!RequiredSignedFields = RequiredSignedFields
    /\ Sealing!CoreBindingNames = CoreBindingNames
    /\ \A s : Sealing!SpecNames(s) = SpecNames(s)
<1>1. /\ \A x : Sealing!JCS(x) = JCS(x) /\ Sealing!H(x) = H(x)
      /\ \A c : Sealing!PackageID(c) = PackageID(c)
      /\ \A k : Sealing!IssuerKey(k) = IssuerKey(k)
      /\ \A key, view : Sealing!Sign(key, view) = Sign(key, view)
  BY DEF Sealing!JCS, JCS, Sealing!H, H, Sealing!PackageID, PackageID,
         Sealing!IssuerKey, IssuerKey, Sealing!Sign, Sign
<1>2. /\ \A f : Sealing!Range(f) = Range(f)
      /\ \A f : Sealing!IsInjective(f) <=> IsInjective(f)
      /\ \A f, S : Sealing!Restrict(f, S) = Restrict(f, S)
  BY DEF Sealing!Range, Range, Sealing!IsInjective, IsInjective,
         Sealing!Restrict, Restrict
<1>3. /\ \A v : Sealing!ConstraintsHashOf(v) = ConstraintsHashOf(v)
      /\ \A r : Sealing!AudienceNames(r) = AudienceNames(r)
      /\ \A r, a : Sealing!AudienceNamed(r, a) =
                      CHOOSE aud \in Range(r.audiences) : aud.name = a
      /\ Sealing!RequiredSignedFields = RequiredSignedFields
      /\ Sealing!CoreBindingNames = CoreBindingNames
      /\ \A s : Sealing!SpecNames(s) = SpecNames(s)
  BY <1>1, <1>2 DEF Sealing!ConstraintsHashOf, ConstraintsHashOf,
         Sealing!AudienceNames, AudienceNames, Sealing!AudienceNamed,
         Sealing!RequiredSignedFields, RequiredSignedFields,
         Sealing!CoreBindingNames, CoreBindingNames, Sealing!SpecNames, SpecNames
<1>4. QED
  BY <1>1, <1>2, <1>3

LEMMA SealingEntries ==
    ASSUME NEW c, NEW r
    PROVE  Sealing!AllEntries(c, r) = EntriesOf(c, r)
<1>1. \A a : Sealing!SegmentEntry(Sealing!AADContext(Sealing!PackageID(c), r),
                   Sealing!AudienceNamed(r, a), r.segments[a], Sealing!NewDEK(c, a),
                   Sealing!Nonce(c, a), Sealing!Ephemeral(c, a))
           = SegmentEntry(AADContext(PackageID(c), r), AudienceOf(r, a),
                   r.segments[a], NewDEK(c, a), Nonce(c, a), Ephemeral(c, a))
  BY SealingTerms
     DEF Sealing!SegmentEntry, SegmentEntry, Sealing!AADContext, AADContext,
         AudienceOf, Sealing!NewDEK, NewDEK, Sealing!Nonce, Nonce,
         Sealing!Ephemeral, Ephemeral, Sealing!Encrypt, Encrypt, Sealing!AAD, AAD,
         Sealing!EPK, EPK, Sealing!Wrap, Wrap, Sealing!Body, Body, Sealing!Tag, Tag,
         Sealing!Thumbprint, Thumbprint
<1>2. QED
  BY <1>1, SealingTerms DEF Sealing!AllEntries, EntriesOf

LEMMA SealingBindings ==
    ASSUME NEW req, NEW hash, NEW entries, NEW root
    PROVE  /\ Sealing!ExtraBindings(req, hash, entries, root)
                = ExtraBindings(req, hash, entries, root)
           /\ Sealing!SegmentsRoot(req.segment_order, Sealing!EntryPlainHashes(entries))
                = SegmentsRoot(req.segment_order, EntryPlainHashes(entries))
           /\ Sealing!IntentCommitment(req.intent_ref, hash, root)
                = IntentCommitment(req.intent_ref, hash, root)
<1>1. /\ Sealing!EntryPlainHashes(entries) = EntryPlainHashes(entries)
      /\ \A ref, h, x : Sealing!IntentCommitment(ref, h, x) = IntentCommitment(ref, h, x)
      /\ \A ph, ref, h, x : Sealing!BindingContext(ph, ref, h, x)
                                = BindingContext(ph, ref, h, x)
  BY SealingTerms
     DEF Sealing!EntryPlainHashes, EntryPlainHashes, Sealing!IntentCommitment,
         IntentCommitment, Sealing!BindingContext, BindingContext
<1>2. \A order, ph : Sealing!SegmentsRoot(order, ph) = SegmentsRoot(order, ph)
  BY SealingTerms
     DEF Sealing!SegmentsRoot, SegmentsRoot, Sealing!SameAudiences, SameAudiences
<1>3. \A spec, ctx : Sealing!BindingValue(spec, ctx) = BindingValue(spec, ctx)
  BY <1>1, SealingTerms DEF Sealing!BindingValue, BindingValue
<1>4. \A specs_, n : Sealing!LastSpec(specs_, n) = LastSpec(specs_, n)
  BY DEF Sealing!LastSpec, LastSpec
<1>5. \A ctx, specs_ : Sealing!ComputeBindings(ctx, specs_) = ComputeBindings(ctx, specs_)
  BY <1>3, <1>4, SealingTerms DEF Sealing!ComputeBindings, ComputeBindings
<1>6. QED
  BY <1>1, <1>2, <1>5 DEF Sealing!ExtraBindings, ExtraBindings

LEMMA SealingPackages ==
    ASSUME NEW c, NEW r, NEW v, NEW k
    PROVE  Sealing!CompletePackage(c, r, v, k)
             = SignedPackage(UnsignedPackage(PackageID(c), r, ConstraintsHashOf(v),
                                             EntriesOf(c, r), k),
                             IssuerKey(k))
<1> DEFINE u == UnsignedPackage(PackageID(c), r, ConstraintsHashOf(v), EntriesOf(c, r), k)
<1>1. Sealing!UnsignedPackage(PackageID(c), r, ConstraintsHashOf(v), EntriesOf(c, r), k) = u
  BY SealingBindings
     DEF Sealing!UnsignedPackage, UnsignedPackage, Sealing!AADContext, AADContext
<1> HIDE DEF u
<1>2. Sealing!BuildSigningView(u) = BuildSigningView(u)
  BY SealingTerms
     DEF Sealing!BuildSigningView, BuildSigningView, Sealing!SigningView, SigningView,
         Sealing!Marshals, Marshals
<1>3. Sealing!SignedPackage(u, IssuerKey(k)) = SignedPackage(u, IssuerKey(k))
  BY <1>2, SealingTerms DEF Sealing!SignedPackage, SignedPackage
<1>4. QED
  BY <1>1, <1>3, SealingTerms, SealingEntries DEF Sealing!CompletePackage, u

(* What an issued package is made of.                                      *)
LEMMA CompleteParts ==
    ASSUME NEW c, NEW r, NEW v, NEW k,
           NEW p, p = Sealing!CompletePackage(c, r, v, k)
    PROVE  /\ DOMAIN p = PackageFields
           /\ p.package_id = PackageID(c)
           /\ p.issuer.iss = r.issuer /\ p.issuer.kid = k
           /\ p.intent.intent_ref = r.intent_ref
           /\ p.intent.constraints_hash = ConstraintsHashOf(v)
           /\ p.bindings.intent_commitment =
                IntentCommitment(r.intent_ref, ConstraintsHashOf(v), p.bindings.segments_root)
           /\ DOMAIN p.manifest = {"segment_order", "aad_context", "segments"}
           /\ p.manifest.segment_order = r.segment_order
           /\ p.manifest.aad_context = AADContext(PackageID(c), r)
           /\ DOMAIN p.manifest.segments = AudienceNames(r)
           /\ DOMAIN p.segments = AudienceNames(r)
           /\ \A a \in AudienceNames(r) :
                  /\ p.manifest.segments[a] = EntriesOf(c, r)[a].manifest
                  /\ p.segments[a] = EntriesOf(c, r)[a].sealed
           /\ DOMAIN p.signature = {"signed_fields", "value"}
           /\ p.signature.signed_fields = RequiredSignedFields
           /\ p.signature.value = Sign(IssuerKey(k), BuildSigningView(p))
<1> DEFINE entries == EntriesOf(c, r)
           u == UnsignedPackage(PackageID(c), r, ConstraintsHashOf(v), entries, k)
<1>1. DOMAIN entries = AudienceNames(r)
  BY DEF EntriesOf
<1>2. p = SignedPackage(u, IssuerKey(k))
  BY SealingPackages
<1>3. /\ u.package_id = PackageID(c)
      /\ u.issuer.iss = r.issuer /\ u.issuer.kid = k
      /\ u.intent.intent_ref = r.intent_ref
      /\ u.intent.constraints_hash = ConstraintsHashOf(v)
      /\ u.bindings.intent_commitment =
            IntentCommitment(r.intent_ref, ConstraintsHashOf(v), u.bindings.segments_root)
      /\ DOMAIN u.manifest = {"segment_order", "aad_context", "segments"}
      /\ u.manifest.segment_order = r.segment_order
      /\ u.manifest.aad_context = AADContext(PackageID(c), r)
      /\ DOMAIN u.manifest.segments = AudienceNames(r)
      /\ DOMAIN u.segments = AudienceNames(r)
      /\ \A a \in AudienceNames(r) :
             /\ u.manifest.segments[a] = entries[a].manifest
             /\ u.segments[a] = entries[a].sealed
  BY <1>1 DEF UnsignedPackage
<1>4. DOMAIN u = PackageFields
  BY RequiredFieldsCheck DEF UnsignedPackage, PackageFields
<1> HIDE DEF u, entries
<1>5. /\ DOMAIN p = DOMAIN u /\ \A f \in DOMAIN u : f # "signature" => p[f] = u[f]
      /\ p.signature = [signed_fields |-> RequiredSignedFields,
                        value |-> Sign(IssuerKey(k), BuildSigningView(u))]
  BY <1>2, <1>4, RequiredFieldsCheck DEF SignedPackage, PackageFields
<1>6. /\ p.package_id = u.package_id /\ p.issuer = u.issuer /\ p.intent = u.intent
      /\ p.manifest = u.manifest /\ p.segments = u.segments /\ p.bindings = u.bindings
  BY <1>4, <1>5, RequiredFieldsCheck DEF PackageFields
<1>7. BuildSigningView(p) = BuildSigningView(u)
  <2>1. \A f \in Range(RequiredSignedFields) : p[f] = u[f]
    BY <1>4, <1>5, RequiredFieldsCheck DEF PackageFields
  <2>2. [f \in Range(RequiredSignedFields) |-> p[f]]
          = [f \in Range(RequiredSignedFields) |-> u[f]]
    BY <2>1
  <2>3. QED
    BY <1>6, <2>2 DEF BuildSigningView, SigningView
<1>8. QED
  BY <1>3, <1>4, <1>5, <1>6, <1>7 DEF entries

(* The audience of a name, and its entry in the package.                   *)
CombinedOf(c, r, a) ==
    Encrypt(NewDEK(c, a), Nonce(c, a), r.segments[a],
            AAD(AADContext(PackageID(c), r), a, SupportedSpecVersion))

LEMMA EntryParts ==
    ASSUME NEW c, NEW r, NEW a \in AudienceNames(r)
    PROVE  /\ AudienceOf(r, a) \in Range(r.audiences) /\ AudienceOf(r, a).name = a
           /\ EntriesOf(c, r)[a].manifest.plain_hash = H(JCS(r.segments[a]))
           /\ EntriesOf(c, r)[a].manifest.cipher_hash = H(CombinedOf(c, r, a))
           /\ DOMAIN EntriesOf(c, r)[a].sealed = SealedFields
           /\ EntriesOf(c, r)[a].sealed.dek_wrapped =
                    Wrap(AudienceOf(r, a).key, Ephemeral(c, a), NewDEK(c, a))
           /\ EntriesOf(c, r)[a].sealed.ciphertext = Body(CombinedOf(c, r, a))
           /\ EntriesOf(c, r)[a].sealed.tag = Tag(CombinedOf(c, r, a))
<1>1. \E aud \in Range(r.audiences) : aud.name = a
  BY DEF AudienceNames, Range
<1>2. /\ AudienceOf(r, a) \in Range(r.audiences)
      /\ AudienceOf(r, a).name = a
  BY <1>1 DEF AudienceOf
<1>3. EntriesOf(c, r)[a] =
        SegmentEntry(AADContext(PackageID(c), r), AudienceOf(r, a),
                     r.segments[a], NewDEK(c, a), Nonce(c, a), Ephemeral(c, a))
  BY DEF EntriesOf
<1>4. QED
  BY <1>2, <1>3 DEF SegmentEntry, SealedFields, CombinedOf

-----------------------------------------------------------------------------
(* What transit cannot change                                              *)

LEMMA RequiredSequence == RequiredSignedFields \in Seq(PackageFields)
<1>1. Len(RequiredSignedFields) = 9 /\ DOMAIN RequiredSignedFields = 1..9
  BY DEF RequiredSignedFields
<1>2. \A i \in 1..9 : RequiredSignedFields[i] \in PackageFields
  BY <1>1 DEF Range, PackageFields
<1>3. RequiredSignedFields = [i \in 1..9 |-> RequiredSignedFields[i]]
  BY DEF RequiredSignedFields
<1>4. RequiredSignedFields \in [1..9 -> PackageFields]
  BY <1>2, <1>3
<1>5. 9 \in Nat
  OBVIOUS
<1>6. QED
  BY <1>4, <1>5, SeqDef

LEMMA ReverseKept ==
    ASSUME NEW S, NEW s \in Seq(S)
    PROVE  Reverse(s) \in Seq(S)
<1>1. /\ Len(s) \in Nat
      /\ \A i \in 1..Len(s) : s[i] \in S
  OBVIOUS
<1>2. Reverse(s) = [i \in 1..Len(s) |-> s[(Len(s) - i) + 1]]
  BY DEF Reverse
<1>3. Reverse(s) \in [1..Len(s) -> S]
  BY <1>1, <1>2
<1>4. QED
  BY <1>1, <1>3, SeqDef

LEMMA ValidParts ==
    ASSUME NEW r \in Requests, Sealing!ValidRequest(r)
    PROVE  /\ CheckAudiences(r) /\ r.audiences # <<>>
           /\ IsInjective(r.segment_order)
           /\ Range(r.segment_order) = AudienceNames(r)
           /\ r.segment_order \in Seq(AudienceNames(r))
           /\ IsFiniteSet(AudienceNames(r))
<1>1. /\ CheckAudiences(r) /\ r.audiences # <<>>
      /\ IsInjective(r.segment_order)
      /\ Range(r.segment_order) = AudienceNames(r)
  BY SealingTerms
     DEF Sealing!ValidRequest, Sealing!CheckAudiences, CheckAudiences
<1>2. r.segment_order \in Seq(AudienceNames(r))
  BY <1>1, RequestsAssumption
<1>3. IsFiniteSet(AudienceNames(r))
  BY <1>1, <1>2, OrderCounts
<1>4. QED
  BY <1>1, <1>2, <1>3

(* An issued package is a complete one.                                    *)
LEMMA IssuedParts ==
    ASSUME TypeOK, IssuedInv, NEW c \in Calls, issued[c] # Nil
    PROVE  /\ requested[c] \in Requests
           /\ Sealing!ValidRequest(requested[c])
           /\ \E w, v \in past[requested[c].intent_ref], k \in Kids :
                  /\ Permits(w, requested[c].projection)
                  /\ issued[c] = Sealing!CompletePackage(c, requested[c], v, k)
  BY DEF TypeOK, IssuedInv

LEMMA IssuedKept ==
    ASSUME TypeOK, IssuedInv, NEW q \in Packages
    PROVE  Kept(q)
<1>1. PICK c \in Calls : issued[c] = q /\ issued[c] # Nil
  BY DEF Packages
<1> DEFINE r == requested[c]
<1>2. /\ r \in Requests /\ Sealing!ValidRequest(r)
  BY <1>1, IssuedParts
<1>3. PICK v, k : q = Sealing!CompletePackage(c, r, v, k)
  BY <1>1, IssuedParts
<1> HIDE DEF r
<1>4. /\ DOMAIN q = PackageFields
      /\ DOMAIN q.manifest = {"segment_order", "aad_context", "segments"}
      /\ q.manifest.segment_order = r.segment_order
      /\ DOMAIN q.manifest.segments = AudienceNames(r)
      /\ DOMAIN q.segments = AudienceNames(r)
      /\ \A a \in AudienceNames(r) :
             /\ q.manifest.segments[a] = EntriesOf(c, r)[a].manifest
             /\ q.segments[a] = EntriesOf(c, r)[a].sealed
      /\ DOMAIN q.signature = {"signed_fields", "value"}
      /\ q.signature.signed_fields = RequiredSignedFields
  BY <1>3, CompleteParts
<1>5. ManifestKept(q.manifest)
  <2>1. /\ DOMAIN q.manifest = {"segment_order", "aad_context", "segments"}
        /\ q.manifest.segment_order = r.segment_order
        /\ DOMAIN q.manifest.segments = AudienceNames(r)
    BY <1>4
  <2>2. /\ r.segment_order \in Seq(AudienceNames(r))
        /\ IsFiniteSet(AudienceNames(r))
    BY <1>2, ValidParts
  <2>3. AudienceNames(r) \subseteq UNION {AudienceNames(x) : x \in Requests}
    BY <1>2
  <2>4. r.segment_order \in Seq(UNION {AudienceNames(x) : x \in Requests})
    BY <2>2, <2>3
  <2>5. QED
    BY <2>1, <2>2, <2>4 DEF ManifestKept
<1>6. SegmentsKept(q.segments)
  <2>1. DOMAIN q.segments = AudienceNames(r)
        /\ \A a \in AudienceNames(r) : q.segments[a] = EntriesOf(c, r)[a].sealed
    BY <1>4
  <2>2. \A a \in DOMAIN q.segments : DOMAIN q.segments[a] = SealedFields
    BY <2>1, EntryParts
  <2>3. \A a \in DOMAIN q.segments : \A f \in SealedFields :
            FieldKept(f, q.segments[a][f])
    BY DEF FieldKept, EverSealed
  <2>4. QED
    BY <2>2, <2>3 DEF SegmentsKept
<1>7. SignatureKept(q.signature)
  <2>1. /\ DOMAIN q.signature = {"signed_fields", "value"}
        /\ q.signature.signed_fields = RequiredSignedFields
    BY <1>4
  <2>2. RequiredSignedFields \in Seq(PackageFields)
    BY RequiredSequence
  <2>3. QED
    BY <2>1, <2>2 DEF SignatureKept
<1>8. ValueKept(q.signature)
  BY DEF ValueKept
<1>9. QED
  BY <1>4, <1>5, <1>6, <1>7, <1>8 DEF Kept

LEMMA SectionKept ==
    ASSUME NEW p, Kept(p), NEW f \in PackageFields, NEW x,
           f = "manifest" => ManifestKept(x),
           f = "segments" => SegmentsKept(x),
           f = "signature" => SignatureKept(x) /\ (resigns = 0 => ValueKept(x))
    PROVE  Kept([p EXCEPT ![f] = x])
<1> DEFINE q == [p EXCEPT ![f] = x]
<1>1. DOMAIN q = DOMAIN p /\ DOMAIN p = PackageFields
  BY DEF Kept
<1>2. q[f] = x /\ \A g \in PackageFields : g # f => q[g] = p[g]
  BY <1>1
<1>3. {"manifest", "segments", "signature"} \subseteq PackageFields
  BY RequiredFieldsCheck DEF PackageFields
<1> HIDE DEF q
<1>4. ManifestKept(q.manifest) /\ SegmentsKept(q.segments) /\ SignatureKept(q.signature)
  BY <1>2, <1>3 DEF Kept
<1>5. resigns = 0 => ValueKept(q.signature)
  BY <1>2, <1>3 DEF Kept
<1>6. Kept(q)
  BY <1>1, <1>4, <1>5 DEF Kept
<1>7. QED
  BY <1>6 DEF q

LEMMA SectionsMixedKept ==
    ASSUME TypeOK, IssuedInv, NEW p, Kept(p), NEW x \in SectionsMixed(p)
    PROVE  Kept(x)
<1>1. PICK f \in {"package_id", "issuer", "intent", "cnf", "bindings", "manifest",
                  "segments", "signature"},
           q \in Packages : x = [p EXCEPT ![f] = q[f]]
  BY DEF SectionsMixed
<1>2. f \in PackageFields
  BY RequiredFieldsCheck DEF PackageFields
<1>3. Kept(q)
  BY IssuedKept
<1>4. /\ ManifestKept(q.manifest) /\ SegmentsKept(q.segments)
      /\ SignatureKept(q.signature)
      /\ resigns = 0 => ValueKept(q.signature)
  BY <1>3 DEF Kept
<1>5. QED
  BY <1>1, <1>2, <1>4, SectionKept

LEMMA SegmentsDamagedKept ==
    ASSUME TypeOK, IssuedInv, NEW p, Kept(p), NEW x \in SegmentsDamaged(p)
    PROVE  Kept(x)
<1>1. SegmentsKept(p.segments) /\ "segments" \in PackageFields
  BY DEF Kept, PackageFields
<1>2. ASSUME NEW a \in DOMAIN p.segments, NEW f \in SealedFields, NEW v,
             FieldKept(f, v), x = [p EXCEPT !.segments[a][f] = v]
      PROVE  Kept(x)
  <2> DEFINE changed == [p.segments EXCEPT ![a][f] = v]
  <2>1. SegmentsKept(changed)
    <3>1. SUFFICES ASSUME NEW b \in DOMAIN changed
                   PROVE  /\ DOMAIN changed[b] = SealedFields
                          /\ \A g \in SealedFields : FieldKept(g, changed[b][g])
      BY DEF SegmentsKept
    <3>2. DOMAIN changed = DOMAIN p.segments
      OBVIOUS
    <3>3. /\ DOMAIN p.segments[b] = SealedFields
          /\ \A g \in SealedFields : FieldKept(g, p.segments[b][g])
      BY <1>1, <3>2 DEF SegmentsKept
    <3>4. changed[b] = IF b = a THEN [p.segments[b] EXCEPT ![f] = v] ELSE p.segments[b]
      BY <3>2
    <3> HIDE DEF changed
    <3>5. CASE b = a
      <4>1. DOMAIN changed[b] = SealedFields
        BY <3>3, <3>4, <3>5
      <4>2. \A g \in SealedFields : changed[b][g] = IF g = f THEN v ELSE p.segments[b][g]
        BY <3>3, <3>4, <3>5
      <4>3. \A g \in SealedFields : FieldKept(g, changed[b][g])
        BY <1>2, <3>3, <4>2
      <4>4. QED
        BY <4>1, <4>3
    <3>6. CASE b # a
      BY <3>3, <3>4, <3>6
    <3>7. QED
      BY <3>5, <3>6
  <2>2. x = [p EXCEPT !["segments"] = changed]
    BY <1>2
  <2> HIDE DEF changed
  <2>3. QED
    BY <1>1, <2>1, <2>2, SectionKept
<1>3. ASSUME NEW a \in DOMAIN p.segments, x = [p EXCEPT !.segments = Without(@, a)]
      PROVE  Kept(x)
  <2>1. SegmentsKept(Without(p.segments, a))
    BY <1>1 DEF SegmentsKept, Without, Restrict
  <2>2. x = [p EXCEPT !["segments"] = Without(p.segments, a)]
    BY <1>3
  <2>3. QED
    BY <1>1, <2>1, <2>2, SectionKept
<1>4. ASSUME NEW a, NEW q \in Packages, NEW b \in DOMAIN q.segments,
             x = [p EXCEPT !.segments = Put(@, a, q.segments[b])]
      PROVE  Kept(x)
  <2>1. SegmentsKept(q.segments)
    BY IssuedKept DEF Kept
  <2>2. SegmentsKept(Put(p.segments, a, q.segments[b]))
    BY <1>1, <2>1 DEF SegmentsKept, Put
  <2>3. x = [p EXCEPT !["segments"] = Put(p.segments, a, q.segments[b])]
    BY <1>4
  <2>4. QED
    BY <1>1, <2>2, <2>3, SectionKept
<1>5. CASE x \in UNION {FieldDamaged(p, a, f) : a \in DOMAIN p.segments, f \in SealedFields}
  <2>1. PICK a \in DOMAIN p.segments, f \in SealedFields : x \in FieldDamaged(p, a, f)
    BY <1>5
  <2>2. PICK v \in {Undecodable} \cup EverSealed(f) : x = [p EXCEPT !.segments[a][f] = v]
    BY <2>1 DEF FieldDamaged
  <2>3. QED
    BY <1>2, <2>2 DEF FieldKept
<1>6. CASE x \in {[p EXCEPT !.segments = Without(@, a)] : a \in DOMAIN p.segments}
  BY <1>3, <1>6
<1>7. CASE x \in UNION {SegmentAdded(p, d, q) :
                          d \in {c \in Calls : issued[c] # Nil}, q \in Packages}
  <2>1. PICK d \in {c \in Calls : issued[c] # Nil}, q \in Packages :
              x \in SegmentAdded(p, d, q)
    BY <1>7
  <2>2. PICK a \in AudienceNames(requested[d]), b \in DOMAIN q.segments :
              x = [p EXCEPT !.segments = Put(@, a, q.segments[b])]
    BY <2>1 DEF SegmentAdded
  <2>3. QED
    BY <1>4, <2>2
<1>8. QED
  BY <1>5, <1>6, <1>7 DEF SegmentsDamaged

LEMMA ManifestSectionKept ==
    ASSUME NEW p, Kept(p), NEW m, ManifestKept(m)
    PROVE  Kept([p EXCEPT !.manifest = m])
<1>1. "manifest" \in PackageFields
  BY RequiredFieldsCheck DEF PackageFields
<1>2. QED
  BY <1>1, SectionKept

LEMMA OrderDamagedKept ==
    ASSUME NEW p, Kept(p), NEW x \in OrderDamaged(p)
    PROVE  Kept(x)
<1> DEFINE order == p.manifest.segment_order
           Names == UNION {AudienceNames(r) : r \in Requests}
<1>1. ManifestKept(p.manifest) /\ order \in Seq(Names)
  BY DEF Kept, ManifestKept
<1>2. PICK o \in {<<>>, SubSeq(order, 2, Len(order)), Reverse(order),
                  [i \in DOMAIN order |-> order[1]]} :
            x = [p EXCEPT !.manifest.segment_order = o]
  BY DEF OrderDamaged
<1>3. o \in Seq(Names)
  <2> HIDE DEF Names
  <2>1. /\ Len(order) \in Nat /\ DOMAIN order = 1..Len(order)
        /\ \A i \in 1..Len(order) : order[i] \in Names
    BY <1>1
  <2> HIDE DEF order
  <2>2. <<>> \in Seq(Names)
    OBVIOUS
  <2>3. SubSeq(order, 2, Len(order)) \in Seq(Names)
    BY <1>1, <2>1, SubSeqProperties
  <2>4. Reverse(order) \in Seq(Names)
    BY <1>1, ReverseKept
  <2>5. [i \in DOMAIN order |-> order[1]] \in Seq(Names)
    <3>1. [i \in DOMAIN order |-> order[1]] \in [1..Len(order) -> Names]
      BY <2>1
    <3>2. QED
      BY <2>1, <3>1, SeqDef
  <2>6. QED
    BY <1>2, <2>2, <2>3, <2>4, <2>5
<1> DEFINE m == [p.manifest EXCEPT !.segment_order = o]
<1>4. ManifestKept(m)
  BY <1>1, <1>3 DEF ManifestKept
<1>5. x = [p EXCEPT !.manifest = m]
  BY <1>2
<1> HIDE DEF m
<1>6. QED
  BY <1>4, <1>5, ManifestSectionKept

LEMMA ManifestDamagedKept ==
    ASSUME TypeOK, IssuedInv, NEW p, Kept(p), NEW x \in ManifestDamaged(p)
    PROVE  Kept(x)
<1>1. ManifestKept(p.manifest)
  BY DEF Kept
<1>2. CASE x \in {[p EXCEPT !.manifest.segments = Without(@, a)] :
                      a \in DOMAIN p.manifest.segments}
  <2>1. PICK a \in DOMAIN p.manifest.segments :
              x = [p EXCEPT !.manifest.segments = Without(@, a)]
    BY <1>2
  <2> DEFINE m == [p.manifest EXCEPT !.segments = Without(@, a)]
  <2>2. ManifestKept(m)
    <3>1. DOMAIN Without(p.manifest.segments, a) \subseteq DOMAIN p.manifest.segments
      BY DEF Without, Restrict
    <3>2. IsFiniteSet(DOMAIN Without(p.manifest.segments, a))
      BY <1>1, <3>1, FS_Subset DEF ManifestKept
    <3>3. QED
      BY <1>1, <3>2 DEF ManifestKept
  <2>3. x = [p EXCEPT !.manifest = m]
    BY <2>1
  <2> HIDE DEF m
  <2>4. QED
    BY <2>2, <2>3, ManifestSectionKept
<1>3. CASE x \in UNION {EntryExchanged(p, q) : q \in Packages}
  <2>1. PICK q \in Packages : x \in EntryExchanged(p, q)
    BY <1>3
  <2>2. PICK a \in DOMAIN p.manifest.segments, b \in DOMAIN q.manifest.segments :
              x = [p EXCEPT !.manifest.segments[a] = q.manifest.segments[b]]
    BY <2>1 DEF EntryExchanged
  <2> DEFINE m == [p.manifest EXCEPT !.segments[a] = q.manifest.segments[b]]
  <2>3. ManifestKept(m)
    BY <1>1 DEF ManifestKept
  <2>4. x = [p EXCEPT !.manifest = m]
    BY <2>2
  <2> HIDE DEF m
  <2>5. QED
    BY <2>3, <2>4, ManifestSectionKept
<1>4. CASE x \in {[p EXCEPT !.manifest.aad_context = q.manifest.aad_context] :
                      q \in Packages}
  <2>1. PICK q \in Packages :
              x = [p EXCEPT !.manifest.aad_context = q.manifest.aad_context]
    BY <1>4
  <2> DEFINE m == [p.manifest EXCEPT !.aad_context = q.manifest.aad_context]
  <2>2. ManifestKept(m)
    BY <1>1 DEF ManifestKept
  <2>3. x = [p EXCEPT !.manifest = m]
    BY <2>1
  <2> HIDE DEF m
  <2>4. QED
    BY <2>2, <2>3, ManifestSectionKept
<1>5. QED
  BY <1>2, <1>3, <1>4 DEF ManifestDamaged

(* Of sections that are no part of what is kept.                           *)
LEMMA OtherSectionKept ==
    ASSUME NEW p, Kept(p), NEW x,
           NEW f \in {"spec_version", "intent", "cnf", "bindings", "issuer"}
    PROVE  Kept([p EXCEPT ![f] = x])
<1>1. f \in PackageFields
  BY RequiredFieldsCheck DEF PackageFields
<1>2. QED
  BY <1>1, SectionKept

LEMMA CommitmentsDamagedKept ==
    ASSUME NEW p, Kept(p), NEW x \in CommitmentsDamaged(p)
    PROVE  Kept(x)
<1>1. PICK f \in {"intent", "cnf", "bindings"} : \E v : x = [p EXCEPT ![f] = v]
  <2>1. CASE \E g \in {"segments_root", "intent_commitment", "extra"}, q \in Packages :
                  x = [p EXCEPT !.bindings[g] = q.bindings[g]]
    <3>1. PICK g \in {"segments_root", "intent_commitment", "extra"}, q \in Packages :
                  x = [p EXCEPT !.bindings[g] = q.bindings[g]]
      BY <2>1
    <3>2. x = [p EXCEPT !["bindings"] = [p.bindings EXCEPT ![g] = q.bindings[g]]]
      BY <3>1
    <3>3. QED
      BY <3>2
  <2>2. CASE \E g \in {"intent_ref", "constraints_hash"}, q \in Packages :
                  x = [p EXCEPT !.intent[g] = q.intent[g]]
    <3>1. PICK g \in {"intent_ref", "constraints_hash"}, q \in Packages :
                  x = [p EXCEPT !.intent[g] = q.intent[g]]
      BY <2>2
    <3>2. x = [p EXCEPT !["intent"] = [p.intent EXCEPT ![g] = q.intent[g]]]
      BY <3>1
    <3>3. QED
      BY <3>2
  <2>3. CASE x = [p EXCEPT !.bindings.extra = [segments_root |-> p.bindings.segments_root]]
    <3>1. x = [p EXCEPT !["bindings"] =
                  [p.bindings EXCEPT !.extra = [segments_root |-> p.bindings.segments_root]]]
      BY <2>3
    <3>2. QED
      BY <3>1
  <2>4. CASE \E a, b \in DOMAIN p.cnf : x = [p EXCEPT !.cnf[a] = p.cnf[b]]
    <3>1. PICK a, b \in DOMAIN p.cnf : x = [p EXCEPT !.cnf[a] = p.cnf[b]]
      BY <2>4
    <3>2. x = [p EXCEPT !["cnf"] = [p.cnf EXCEPT ![a] = p.cnf[b]]]
      BY <3>1
    <3>3. QED
      BY <3>2
  <2>5. QED
    BY <2>1, <2>2, <2>3, <2>4 DEF CommitmentsDamaged
<1>2. PICK v : x = [p EXCEPT ![f] = v]
  BY <1>1
<1>3. QED
  BY <1>2, OtherSectionKept

LEMMA ListsOfNames ==
    ASSUME NEW S, NEW names \in Seq(S), Len(names) = 9, NEW e \in S
    PROVE  /\ <<>> \in Seq(S) /\ Tail(names) \in Seq(S) /\ Reverse(names) \in Seq(S)
           /\ [names EXCEPT ![9] = e] \in Seq(S)
<1>1. names # <<>>
  <2>1. Len(<<>>) = 0 /\ 0 # 9
    BY EmptySeq
  <2>2. QED
    BY <2>1, Zenon
<1>2. 9 \in 1..Len(names)
  OBVIOUS
<1>3. <<>> \in Seq(S)
  OBVIOUS
<1>4. Tail(names) \in Seq(S)
  BY <1>1, HeadTailProperties
<1>5. Reverse(names) \in Seq(S)
  BY ReverseKept
<1>6. [names EXCEPT ![9] = e] \in Seq(S)
  BY <1>2, ExceptSeq, Zenon
<1>7. QED
  BY <1>3, <1>4, <1>5, <1>6

LEMMA SignatureDamagedKept ==
    ASSUME NEW p, Kept(p), NEW x \in SignatureDamaged(p)
    PROVE  Kept(x)
<1> DEFINE Lists == {<<>>, Tail(RequiredSignedFields), Reverse(RequiredSignedFields),
                     [RequiredSignedFields EXCEPT ![9] = "issuer"],
                     [RequiredSignedFields EXCEPT ![9] = "segments"]}
<1>1. /\ SignatureKept(p.signature) /\ (resigns = 0 => ValueKept(p.signature))
      /\ "signature" \in PackageFields
  BY DEF Kept, PackageFields
<1>2. CASE \E s \in Lists : x = [p EXCEPT !.signature.signed_fields = s]
  <2>1. PICK s \in Lists : x = [p EXCEPT !.signature.signed_fields = s]
    BY <1>2
  <2>2. s \in Seq(PackageFields)
    <3>1. Len(RequiredSignedFields) = 9
      BY DEF RequiredSignedFields
    <3>2. "issuer" \in PackageFields /\ "segments" \in PackageFields
      BY RequiredFieldsCheck DEF PackageFields
    <3> DEFINE names == RequiredSignedFields
    <3>3. /\ <<>> \in Seq(PackageFields) /\ Tail(names) \in Seq(PackageFields)
          /\ Reverse(names) \in Seq(PackageFields)
          /\ [names EXCEPT ![9] = "issuer"] \in Seq(PackageFields)
          /\ [names EXCEPT ![9] = "segments"] \in Seq(PackageFields)
      BY <3>1, <3>2, RequiredSequence, ListsOfNames
    <3>4. QED
      BY <2>1, <3>3
  <2> DEFINE sig == [p.signature EXCEPT !.signed_fields = s]
  <2>3. SignatureKept(sig) /\ (resigns = 0 => ValueKept(sig))
    BY <1>1, <2>2 DEF SignatureKept, ValueKept
  <2>4. x = [p EXCEPT !["signature"] = sig]
    BY <2>1
  <2> HIDE DEF sig
  <2>5. QED
    BY <1>1, <2>3, <2>4, SectionKept
<1>3. CASE x = [p EXCEPT !.signature.value = Undecodable]
  <2> DEFINE sig == [p.signature EXCEPT !.value = Undecodable]
  <2>1. SignatureKept(sig) /\ ValueKept(sig)
    BY <1>1 DEF SignatureKept, ValueKept
  <2>2. x = [p EXCEPT !["signature"] = sig]
    BY <1>3
  <2> HIDE DEF sig
  <2>3. QED
    BY <1>1, <2>1, <2>2, SectionKept
<1>4. CASE x = [p EXCEPT !.spec_version = "unsupported"]
  BY <1>4, OtherSectionKept
<1>5. QED
  BY <1>2, <1>3, <1>4 DEF SignatureDamaged

LEMMA DamagedKept ==
    ASSUME TypeOK, IssuedInv, NEW p, Kept(p), NEW x \in Damaged(p)
    PROVE  Kept(x)
BY SectionsMixedKept, SegmentsDamagedKept, OrderDamagedKept, ManifestDamagedKept,
   CommitmentsDamagedKept, SignatureDamagedKept DEF Damaged

-----------------------------------------------------------------------------
(* The inductive invariant                                                 *)

(* What is kept of a package stays so as more are sealed.                  *)
LEMMA KeptStays ==
    ASSUME NEW p, Kept(p), copy' = p, resigns' = resigns, Packages \subseteq Packages'
    PROVE  Kept(copy)'
<1>1. \A f \in SealedFields : EverSealed(f) \subseteq EverSealed(f)'
  BY DEF EverSealed
<1>2. SegmentsKept(copy.segments)'
  BY <1>1 DEF Kept, SegmentsKept, FieldKept
<1>3. (resigns = 0 => ValueKept(copy.signature))'
  BY DEF Kept, ValueKept
<1>4. (DOMAIN copy = PackageFields)' /\ ManifestKept(copy.manifest)'
      /\ SignatureKept(copy.signature)'
  BY DEF Kept, ManifestKept, SignatureKept
<1>5. QED
  BY <1>2, <1>3, <1>4 DEF Kept

LEMMA NotOpenedFails == NotOpened.err # Nil
BY NilAssumption DEF NotOpened, By, OpenFailed

LEMMA Level1Leaves ==
    ASSUME NEW p, NEW trust, NEW s
    PROVE  /\ DOMAIN Level1Report(p, trust, s) = DOMAIN EmptyReport
           /\ Level1Report(p, trust, s).Intent = NotEvaluated
           /\ ~NotEvaluated.Evaluated
  BY DEF Level1Report, AttestedReport, VersionReport, EmptyReport, NotEvaluated

LEMMA IntentApart ==
    ASSUME NEW r, DOMAIN r = DOMAIN EmptyReport, NEW x
    PROVE  /\ DOMAIN [r EXCEPT !.Intent = x] = DOMAIN EmptyReport
           /\ [r EXCEPT !.Intent = x].Intent = x
           /\ Level1Passed([r EXCEPT !.Intent = x]) <=> Level1Passed(r)
<1> DEFINE s == [r EXCEPT !.Intent = x]
<1>1. DOMAIN r = {"SpecVersionSupported", "Structural", "Signature",
                  "AADContextConsistent", "CipherHashes", "SegmentsRoot",
                  "ProfileBindings", "Intent"}
  BY DEF EmptyReport
<1>2. DOMAIN s = DOMAIN r /\ s.Intent = x /\ \A f \in DOMAIN r : f # "Intent" => s[f] = r[f]
  BY <1>1
<1> HIDE DEF s
<1>3. /\ s.Structural = r.Structural /\ s.SpecVersionSupported = r.SpecVersionSupported
      /\ s.Signature = r.Signature /\ s.AADContextConsistent = r.AADContextConsistent
      /\ s.SegmentsRoot = r.SegmentsRoot /\ s.CipherHashes = r.CipherHashes
      /\ s.ProfileBindings = r.ProfileBindings
  BY <1>1, <1>2
<1>4. Level1Passed(s) <=> Level1Passed(r)
  BY <1>3, Zenon DEF Level1Passed
<1>5. QED
  BY <1>2, <1>4 DEF s

LEMMA InitInv == Init => CustodyInv
<1> SUFFICES ASSUME Init PROVE CustodyInv
  OBVIOUS
<1> USE DEF Init
<1>1. TypeOK
  <2>1. /\ version \in [IntentRefs -> Versions]
        /\ past \in [IntentRefs -> SUBSET Versions]
        /\ \A r \in IntentRefs : version[r] \in past[r]
    OBVIOUS
  <2>2. /\ DOMAIN issued = Calls /\ DOMAIN requested = Calls
        /\ \A c \in Calls : issued[c] = Nil
    OBVIOUS
  <2>3. amends \in 0..MaxAmends /\ faults \in 0..MaxFaults /\ resigns \in 0..MaxResigns
    BY BoundsAssumption
  <2>4. ~report.Intent.Evaluated
    BY DEF EmptyReport, NotEvaluated
  <2>5. QED
    BY <2>1, <2>2, <2>3, <2>4 DEF TypeOK
<1>2. IssuedInv /\ AuthorityInv
  BY DEF IssuedInv, AuthorityInv
<1>3. CopyInv /\ ReportInv
  BY DEF CopyInv, ReportInv
<1>4. OpenInv
  BY NotOpenedFails DEF OpenInv
<1>5. QED
  BY <1>1, <1>2, <1>3, <1>4 DEF CustodyInv

LEMMA IssueInv ==
    ASSUME CustodyInv, NEW c \in Calls, NEW r \in Requests, NEW k \in Kids, Issue(c, r, k)
    PROVE  CustodyInv'
<1> USE DEF CustodyInv, Issue, inspect, transit, authority
<1>1. PICK w, v \in past[r.intent_ref] : Sealing!IssueUnder(c, r, w, v, k)
  OBVIOUS
<1>2. /\ issued[c] = Nil /\ Sealing!ValidRequest(r) /\ Permits(w, r.projection)
      /\ issued' = [issued EXCEPT ![c] = Sealing!CompletePackage(c, r, v, k)]
  BY <1>1 DEF Sealing!IssueUnder
<1>3. DOMAIN issued = Calls /\ DOMAIN requested = Calls
  BY DEF TypeOK
<1>4. /\ issued'[c] = Sealing!CompletePackage(c, r, v, k) /\ requested'[c] = r
      /\ \A d \in Calls : d # c => issued'[d] = issued[d] /\ requested'[d] = requested[d]
  BY <1>2, <1>3
<1>5. TypeOK'
  BY <1>2, <1>3, <1>4 DEF TypeOK
<1>6. IssuedInv'
  <2> SUFFICES ASSUME NEW d \in Calls, issued'[d] # Nil
               PROVE  \E x, y \in past'[requested'[d].intent_ref], j \in Kids :
                        /\ Sealing!ValidRequest(requested'[d])
                        /\ Permits(x, requested'[d].projection)
                        /\ issued'[d] = Sealing!CompletePackage(d, requested'[d], y, j)
    BY DEF IssuedInv
  <2>1. CASE d = c
    BY <1>1, <1>2, <1>4, <2>1
  <2>2. CASE d # c
    <3>1. issued[d] # Nil
      BY <1>4, <2>2
    <3>2. \E x, y \in past[requested[d].intent_ref], j \in Kids :
                        /\ Sealing!ValidRequest(requested[d])
                        /\ Permits(x, requested[d].projection)
                        /\ issued[d] = Sealing!CompletePackage(d, requested[d], y, j)
      BY <3>1 DEF IssuedInv
    <3>3. QED
      BY <1>4, <2>2, <3>2
  <2>3. QED
    BY <2>1, <2>2
<1>7. AuthorityInv'
  BY DEF AuthorityInv
<1>8. Packages \subseteq Packages'
  BY <1>2, <1>4 DEF Packages
<1>9. CopyInv'
  BY <1>8, KeptStays DEF CopyInv
<1>10. ReportInv' /\ OpenInv'
  BY DEF ReportInv, OpenInv
<1>11. QED
  BY <1>5, <1>6, <1>7, <1>9, <1>10

LEMMA AmendInv ==
    ASSUME CustodyInv, NEW r \in IntentRefs, NEW v \in Versions, Amend(r, v)
    PROVE  CustodyInv'
<1> USE DEF CustodyInv, Amend, inspect, transit, issuance
<1>1. /\ version' \in [IntentRefs -> Versions]
      /\ past' \in [IntentRefs -> SUBSET Versions]
      /\ \A s \in IntentRefs : version'[s] \in past'[s] /\ past[s] \subseteq past'[s]
  BY DEF TypeOK
<1>2. amends' \in 0..MaxAmends /\ amends' # 0
  BY BoundsAssumption DEF TypeOK
<1>3. TypeOK'
  BY <1>1, <1>2 DEF TypeOK
<1>4. IssuedInv'
  <2> SUFFICES ASSUME NEW d \in Calls, issued'[d] # Nil
               PROVE  \E x, y \in past'[requested'[d].intent_ref], j \in Kids :
                        /\ Sealing!ValidRequest(requested'[d])
                        /\ Permits(x, requested'[d].projection)
                        /\ issued'[d] = Sealing!CompletePackage(d, requested'[d], y, j)
    BY DEF IssuedInv
  <2>1. issued'[d] = issued[d] /\ requested'[d] = requested[d] /\ issued[d] # Nil
    OBVIOUS
  <2>2. past[requested[d].intent_ref] \subseteq past'[requested[d].intent_ref]
    <3>1. requested[d] \in Requests
      BY <2>1 DEF TypeOK
    <3>2. QED
      BY <1>1, <3>1, RequestsAssumption
  <2>3. \E x, y \in past[requested[d].intent_ref], j \in Kids :
                        /\ Sealing!ValidRequest(requested[d])
                        /\ Permits(x, requested[d].projection)
                        /\ issued[d] = Sealing!CompletePackage(d, requested[d], y, j)
    BY <2>1 DEF IssuedInv
  <2>4. QED
    BY <2>1, <2>2, <2>3
<1>5. AuthorityInv'
  BY <1>2 DEF AuthorityInv
<1>6. CopyInv'
  BY KeptStays DEF CopyInv, Packages
<1>7. ReportInv' /\ OpenInv'
  BY DEF ReportInv, OpenInv
<1>8. QED
  BY <1>3, <1>4, <1>5, <1>6, <1>7

LEMMA SendInv ==
    ASSUME CustodyInv, NEW c \in Calls, Send(c)
    PROVE  CustodyInv'
<1> USE DEF CustodyInv, Send, inspect, authority, issuance
<1>1. TypeOK' /\ IssuedInv' /\ AuthorityInv' /\ ReportInv' /\ OpenInv'
  BY NotOpenedFails DEF TypeOK, IssuedInv, AuthorityInv, ReportInv, OpenInv
<1>2. issued[c] \in Packages /\ Packages' = Packages
  BY DEF Packages
<1>3. CopyInv'
  BY <1>2, IssuedKept, KeptStays DEF CopyInv
<1>4. QED
  BY <1>1, <1>3

LEMMA DamageInv ==
    ASSUME CustodyInv, Damage
    PROVE  CustodyInv'
<1> USE DEF CustodyInv, Damage, inspect, authority, issuance
<1>1. /\ stage = "transit" /\ stage' = "transit" /\ faults' \in 0..MaxFaults
  BY BoundsAssumption DEF TypeOK
<1>2. TypeOK' /\ IssuedInv' /\ AuthorityInv'
  BY <1>1 DEF TypeOK, IssuedInv, AuthorityInv
<1>3. ReportInv' /\ OpenInv'
  BY <1>1, NotOpenedFails DEF ReportInv, OpenInv
<1>4. CopyInv'
  <2>1. PICK x \in Damaged(copy) : copy' = x
    OBVIOUS
  <2>2. Kept(copy) /\ TypeOK /\ IssuedInv
    BY <1>1 DEF CopyInv
  <2>3. Kept(x)
    BY <2>2, DamagedKept
  <2>4. Packages' = Packages
    BY DEF Packages
  <2>5. QED
    BY <2>1, <2>3, <2>4, KeptStays DEF CopyInv
<1>5. QED
  BY <1>2, <1>3, <1>4

(* A signature over the copy, by whoever: the value may be anything now.   *)
LEMMA ResignInv ==
    ASSUME CustodyInv, NEW k \in TrustedKids, Resign(k)
    PROVE  CustodyInv'
<1> USE DEF CustodyInv, Resign, inspect, authority, issuance
<1>1. /\ stage = "transit" /\ stage' = "transit" /\ resigns' \in 0..MaxResigns
      /\ resigns' # 0
  BY BoundsAssumption DEF TypeOK
<1>2. TypeOK' /\ IssuedInv' /\ AuthorityInv'
  BY <1>1 DEF TypeOK, IssuedInv, AuthorityInv
<1>3. ReportInv' /\ OpenInv'
  BY <1>1, NotOpenedFails DEF ReportInv, OpenInv
<1>4. CopyInv'
  <2> DEFINE p == [copy EXCEPT !.issuer.kid = k]
             sig == [signed_fields |-> RequiredSignedFields,
                     value |-> Sign(IssuerKey(k), BuildSigningView(p))]
  <2>1. Kept(copy) /\ copy' = [p EXCEPT !.signature = sig]
    BY <1>1 DEF CopyInv, SignedPackage
  <2>2. Kept(p)
    <3>1. p = [copy EXCEPT !["issuer"] = [copy.issuer EXCEPT !.kid = k]]
      OBVIOUS
    <3> HIDE DEF p
    <3>2. QED
      BY <2>1, <3>1, OtherSectionKept
  <2>3. SignatureKept(sig)
    BY RequiredSequence DEF SignatureKept
  <2> HIDE DEF p, sig
  <2>4. /\ DOMAIN p = PackageFields /\ ManifestKept(p.manifest)
        /\ SegmentsKept(p.segments)
    BY <2>2 DEF Kept
  <2>5. /\ DOMAIN copy' = PackageFields /\ copy'.signature = sig
        /\ copy'.manifest = p.manifest /\ copy'.segments = p.segments
    BY <2>1, <2>4, RequiredFieldsCheck DEF PackageFields
  <2>6. ManifestKept(copy.manifest)' /\ SignatureKept(copy.signature)'
    BY <2>3, <2>4, <2>5 DEF ManifestKept, SignatureKept
  <2>7. SegmentsKept(copy.segments)'
    BY <2>4, <2>5 DEF SegmentsKept, FieldKept, EverSealed, Packages
  <2>8. QED
    BY <1>1, <2>5, <2>6, <2>7 DEF CopyInv, Kept
<1>5. QED
  BY <1>2, <1>3, <1>4

LEMMA ReceiveInv ==
    ASSUME CustodyInv, Receive
    PROVE  CustodyInv'
<1> USE DEF CustodyInv, Receive, inspect, authority, issuance
<1>1. TypeOK' /\ IssuedInv' /\ AuthorityInv'
  BY DEF TypeOK, IssuedInv, AuthorityInv
<1>2. ReportInv' /\ OpenInv'
  BY DEF ReportInv, OpenInv
<1>3. CopyInv'
  BY KeptStays DEF CopyInv, Packages
<1>4. QED
  BY <1>1, <1>2, <1>3

LEMMA VerifyLevel1Inv ==
    ASSUME CustodyInv, NEW s \in SpecLists, VerifyLevel1(s)
    PROVE  CustodyInv'
<1> USE DEF CustodyInv, authority, issuance
<1>1. /\ stage = "held" /\ specs' = s /\ report' = Level1Report(copy, Trust, s)
      /\ stage' = IF Level1Passed(Level1Report(copy, Trust, s)) THEN "level2" ELSE "verified"
      /\ UNCHANGED <<issued, requested, version, past, amends, copy, faults, resigns,
                     answer, opened>>
  BY DEF VerifyLevel1
<1>2. /\ DOMAIN report' = DOMAIN EmptyReport /\ report'.Intent = NotEvaluated
      /\ ~NotEvaluated.Evaluated
  BY <1>1, Level1Leaves
<1>3. answer = Nil
  BY <1>1 DEF TypeOK, EmptyReport, NotEvaluated
<1>4. TypeOK'
  BY <1>1, <1>2, <1>3 DEF TypeOK
<1>5. IssuedInv' /\ AuthorityInv'
  BY <1>1 DEF IssuedInv, AuthorityInv
<1>6. ReportInv'
  BY <1>1, <1>2, <1>3 DEF ReportInv
<1>7. OpenInv'
  BY <1>1 DEF OpenInv
<1>8. CopyInv'
  BY <1>1, KeptStays DEF CopyInv, Packages
<1>9. QED
  BY <1>4, <1>5, <1>6, <1>7, <1>8

LEMMA VerifyLevel2Inv ==
    ASSUME CustodyInv, VerifyLevel2
    PROVE  CustodyInv'
<1> USE DEF CustodyInv, authority, issuance
<1> DEFINE ref    == copy.intent.intent_ref
           v      == version[ref]
           intent == VerifyIntent(copy, ConstraintsHashOf(v))
<1>1. /\ stage = "level2" /\ stage' = "verified" /\ ref \in IntentRefs
      /\ report' = [report EXCEPT !.Intent = intent] /\ answer' = v
      /\ UNCHANGED <<issued, requested, version, past, amends, copy, faults, resigns,
                     specs, opened>>
  BY DEF VerifyLevel2
<1>2. v \in Versions /\ v # Nil /\ ConstraintsHashOf(v) # Nil
  BY <1>1, NilAssumption DEF TypeOK
<1>3. intent.Evaluated
  BY <1>2, Zenon DEF VerifyIntent
<1> HIDE DEF intent, v
<1>4. /\ DOMAIN report' = DOMAIN EmptyReport /\ report'.Intent = intent
      /\ Level1Passed(report') <=> Level1Passed(report)
  BY <1>1, IntentApart DEF TypeOK
<1>5. TypeOK'
  BY <1>1, <1>2, <1>3, <1>4 DEF TypeOK
<1>6. IssuedInv' /\ AuthorityInv'
  BY <1>1 DEF IssuedInv, AuthorityInv
<1>7. ReportInv'
  BY <1>1, <1>4 DEF ReportInv, intent
<1>8. OpenInv'
  BY <1>1 DEF OpenInv
<1>9. CopyInv'
  BY <1>1, KeptStays DEF CopyInv, Packages
<1>10. QED
  BY <1>5, <1>6, <1>7, <1>8, <1>9

LEMMA Level2UnreachableInv ==
    ASSUME CustodyInv, Level2Unreachable
    PROVE  CustodyInv'
<1> USE DEF CustodyInv, authority, issuance
<1>1. /\ stage = "level2" /\ stage' = "verified"
      /\ report' = [report EXCEPT !.Intent = VerifyIntent(copy, Nil)]
      /\ UNCHANGED <<issued, requested, version, past, amends, copy, faults, resigns,
                     specs, answer, opened>>
  BY DEF Level2Unreachable
<1>2. ~VerifyIntent(copy, Nil).Evaluated
  BY Zenon DEF VerifyIntent
<1>3. /\ DOMAIN report' = DOMAIN EmptyReport /\ report'.Intent = VerifyIntent(copy, Nil)
      /\ Level1Passed(report') <=> Level1Passed(report)
  BY <1>1, IntentApart DEF TypeOK
<1>4. answer = Nil
  BY <1>1 DEF ReportInv
<1>5. TypeOK'
  BY <1>1, <1>2, <1>3, <1>4 DEF TypeOK
<1>6. IssuedInv' /\ AuthorityInv'
  BY <1>1 DEF IssuedInv, AuthorityInv
<1>7. ReportInv'
  BY <1>1, <1>2, <1>3 DEF ReportInv
<1>8. OpenInv'
  BY <1>1 DEF OpenInv
<1>9. CopyInv'
  BY <1>1, KeptStays DEF CopyInv, Packages
<1>10. QED
  BY <1>5, <1>6, <1>7, <1>8, <1>9

LEMMA OpenKeepsInv ==
    ASSUME CustodyInv, NEW priv \in PrivateKeys, NEW s \in SpecLists, Open(priv, s)
    PROVE  CustodyInv'
<1> USE DEF CustodyInv, authority, issuance, transit
<1>1. /\ stage \in {"held", "verified"}
      /\ opened' = By(priv, OpenPackage(copy, priv, Trust, s))
      /\ UNCHANGED <<issued, requested, version, past, amends, copy, stage, faults,
                     resigns, specs, report, answer>>
  BY DEF Open
<1>2. TypeOK' /\ IssuedInv' /\ AuthorityInv' /\ ReportInv'
  BY <1>1 DEF TypeOK, IssuedInv, AuthorityInv, ReportInv
<1>3. opened'.key = priv
  BY <1>1 DEF By
<1>4. OpenInv'
  BY <1>1, <1>3 DEF OpenInv
<1>5. CopyInv'
  BY <1>1, KeptStays DEF CopyInv, Packages
<1>6. QED
  BY <1>2, <1>4, <1>5

LEMMA DiscardInv ==
    ASSUME CustodyInv, Discard
    PROVE  CustodyInv'
<1> USE DEF CustodyInv, Discard, authority, issuance
<1>1. ~report'.Intent.Evaluated
  BY DEF EmptyReport, NotEvaluated
<1>2. TypeOK'
  BY <1>1, BoundsAssumption DEF TypeOK
<1>3. IssuedInv' /\ AuthorityInv'
  BY DEF IssuedInv, AuthorityInv
<1>4. CopyInv' /\ ReportInv' /\ OpenInv'
  BY NotOpenedFails DEF CopyInv, ReportInv, OpenInv
<1>5. QED
  BY <1>2, <1>3, <1>4

LEMMA StutterInv ==
    ASSUME CustodyInv, UNCHANGED vars
    PROVE  CustodyInv'
<1> USE DEF CustodyInv, vars, issuance, authority, inspect, transit
<1>1. TypeOK' /\ IssuedInv' /\ AuthorityInv' /\ ReportInv' /\ OpenInv'
  BY DEF TypeOK, IssuedInv, AuthorityInv, ReportInv, OpenInv
<1>2. CopyInv'
  BY KeptStays DEF CopyInv, Packages
<1>3. QED
  BY <1>1, <1>2

(* At every moment: what was issued is complete and was permitted; a copy  *)
(* is made of issued parts and garbage; and the report and the outcome of  *)
(* the last Open are about the copy at hand, never about another one.      *)
THEOREM CustodyInvariant == Spec => []CustodyInv
<1>1. Init => CustodyInv
  BY InitInv
<1>2. CustodyInv /\ [Next]_vars => CustodyInv'
  BY IssueInv, AmendInv, SendInv, DamageInv, ResignInv, ReceiveInv, VerifyLevel1Inv,
     VerifyLevel2Inv, Level2UnreachableInv, OpenKeepsInv, DiscardInv, StutterInv
     DEF Next
<1>3. QED
  BY <1>1, <1>2, PTL DEF Spec

-----------------------------------------------------------------------------
(* What the invariant implies                                              *)

LEMMA CopyParses ==
    ASSUME NEW p, Kept(p), ParsePackage(p) = FaultNone
    PROVE  /\ SameAudiences(p.manifest.segment_order, PlainHashes(p))
           /\ Range(p.manifest.segment_order) = DOMAIN p.manifest.segments
           /\ Range(p.manifest.segment_order) \subseteq DOMAIN p.segments
BY ParsedIsWellFormed DEF Kept, ManifestKept

LEMMA RootFollows == CustodyInv => RootComputableAfterParse
<1> SUFFICES ASSUME CustodyInv, copy # Nil, ParsePackage(copy) = FaultNone
             PROVE  /\ SameAudiences(copy.manifest.segment_order, PlainHashes(copy))
                    /\ Range(copy.manifest.segment_order) = DOMAIN copy.manifest.segments
                    /\ Range(copy.manifest.segment_order) \subseteq DOMAIN copy.segments
  BY DEF RootComputableAfterParse
<1>1. Kept(copy)
  BY DEF CustodyInv, TypeOK, CopyInv
<1>2. QED
  BY <1>1, CopyParses

(* verify.go: past the structural parse of whatever arrived, SegmentsRoot  *)
(* cannot fail and every entry Verify goes on to read is there.            *)
THEOREM RootComputable == Spec => []RootComputableAfterParse
BY CustodyInvariant, RootFollows, PTL

(* Whose tag a segment of the copy bears.                                  *)
LEMMA TagOfIssued ==
    ASSUME TypeOK, IssuedInv, NEW p, Kept(p), NEW a \in DOMAIN p.segments,
           Decodes(p.segments[a].tag)
    PROVE  \E c \in Calls : /\ issued[c] # Nil
                            /\ \E b \in AudienceNames(requested[c]) :
                                  p.segments[a].tag = Tag(CombinedOf(c, requested[c], b))
<1>1. FieldKept("tag", p.segments[a]["tag"])
  BY DEF Kept, SegmentsKept, SealedFields
<1>2. PICK q \in Packages :
            \E b \in DOMAIN q.segments : p.segments[a].tag = q.segments[b].tag
  BY <1>1 DEF FieldKept, EverSealed, Decodes
<1>3. PICK c \in Calls : issued[c] = q /\ issued[c] # Nil
  BY DEF Packages
<1>4. PICK v, k : q = Sealing!CompletePackage(c, requested[c], v, k)
  BY <1>3, IssuedParts
<1>5. /\ DOMAIN q.segments = AudienceNames(requested[c])
      /\ \A b \in DOMAIN q.segments :
            q.segments[b] = EntriesOf(c, requested[c])[b].sealed
  BY <1>4, CompleteParts
<1>6. QED
  BY <1>2, <1>3, <1>5, EntryParts

LEMMA WrappedOfIssued ==
    ASSUME TypeOK, IssuedInv, NEW p, Kept(p), NEW a \in DOMAIN p.segments,
           Decodes(p.segments[a].dek_wrapped)
    PROVE  \E c \in Calls :
              /\ issued[c] # Nil
              /\ \E b \in AudienceNames(requested[c]) :
                    p.segments[a].dek_wrapped = Wrap(AudienceOf(requested[c], b).key,
                                                     Ephemeral(c, b), NewDEK(c, b))
<1>1. FieldKept("dek_wrapped", p.segments[a]["dek_wrapped"])
  BY DEF Kept, SegmentsKept, SealedFields
<1>2. PICK q \in Packages :
            \E b \in DOMAIN q.segments :
                p.segments[a].dek_wrapped = q.segments[b].dek_wrapped
  BY <1>1 DEF FieldKept, EverSealed, Decodes
<1>3. PICK c \in Calls : issued[c] = q /\ issued[c] # Nil
  BY DEF Packages
<1>4. PICK v, k : q = Sealing!CompletePackage(c, requested[c], v, k)
  BY <1>3, IssuedParts
<1>5. /\ DOMAIN q.segments = AudienceNames(requested[c])
      /\ \A b \in DOMAIN q.segments :
            q.segments[b] = EntriesOf(c, requested[c])[b].sealed
  BY <1>4, CompleteParts
<1>6. QED
  BY <1>2, <1>3, <1>5, EntryParts

LEMMA VerifiedFollows == CustodyInv => VerifiedIsAsIssued
<1> SUFFICES ASSUME CustodyInv, stage \in {"level2", "verified"}, Level1Passed(report),
                    resigns = 0
             PROVE  \E c \in Calls :
                        /\ issued[c] # Nil /\ AsIssued(copy, issued[c])
                        /\ issued[c].issuer.kid \in TrustedKids
  BY DEF VerifiedIsAsIssued
<1> USE DEF CustodyInv
<1>1. Kept(copy) /\ ValueKept(copy.signature)
  BY DEF CopyInv, Kept
<1>2. Level1Passed(Level1Report(copy, Trust, specs))
  BY DEF ReportInv
<1>3. /\ ParsePackage(copy) = FaultNone /\ SignatureValid(copy, Trust)
      /\ \A a \in Range(copy.manifest.segment_order) :
            CheckCipherHash(copy.manifest.segments[a], copy.segments[a])
  BY <1>2, PassedMeans
<1>4. Decodes(copy.signature.value) /\ ReconstructSigningView(copy) # Nil
  BY <1>1, <1>3, ParsedMeans DEF Kept, ManifestKept
<1>5. PICK q \in Packages : copy.signature.value = q.signature.value
  BY <1>1, <1>4 DEF ValueKept, Decodes
<1>6. PICK c \in Calls : issued[c] = q /\ issued[c] # Nil
  BY DEF Packages
<1> DEFINE r == requested[c]
<1>7. r \in Requests /\ Sealing!ValidRequest(r)
  BY <1>6, IssuedParts
<1>8. PICK v, k : q = Sealing!CompletePackage(c, r, v, k)
  BY <1>6, IssuedParts
<1> HIDE DEF r
<1>9. /\ q.signature.value = Sign(IssuerKey(k), BuildSigningView(q))
      /\ q.manifest.segment_order = r.segment_order
      /\ DOMAIN q.segments = AudienceNames(r)
      /\ \A a \in AudienceNames(r) :
            /\ q.manifest.segments[a] = EntriesOf(c, r)[a].manifest
            /\ q.segments[a] = EntriesOf(c, r)[a].sealed
  BY <1>8, CompleteParts
<1>10. /\ <<copy.issuer.iss, copy.issuer.kid>> \in DOMAIN Trust
       /\ \E key : copy.signature.value = Sign(key, ReconstructSigningView(copy))
  BY <1>3 DEF SignatureValid, VerifyEd25519
<1>11. ReconstructSigningView(copy) = BuildSigningView(q)
  BY <1>5, <1>9, <1>10 DEF Sign
<1>12. \A f \in Range(RequiredSignedFields) : copy[f] = q[f]
  <2>1. copy.signature.signed_fields \in Seq(PackageFields)
    BY <1>1 DEF Kept, SignatureKept
  <2>2. QED
    BY <1>4, <1>11, <2>1, ViewDeterminesSections
<1>13. copy.manifest = q.manifest /\ copy.issuer = q.issuer
  BY <1>12, RequiredFieldsCheck
<1>14. q.issuer.kid \in TrustedKids
  BY <1>10, <1>13 DEF Trust
<1>15. ASSUME NEW a \in DOMAIN q.segments
       PROVE  /\ a \in DOMAIN copy.segments
              /\ copy.segments[a].ciphertext = q.segments[a].ciphertext
              /\ copy.segments[a].tag = q.segments[a].tag
  <2> DEFINE mine == copy.segments[a]
  <2>1. a \in AudienceNames(r) /\ a \in Range(copy.manifest.segment_order)
    BY <1>7, <1>9, <1>13, ValidParts
  <2>2. a \in DOMAIN copy.segments
    BY <1>1, <1>3, <2>1, CopyParses
  <2>3. /\ Decodes(mine.tag)
        /\ H(Join(mine.ciphertext, mine.tag)) = copy.manifest.segments[a].cipher_hash
    BY <1>3, <2>1 DEF CheckCipherHash
  <2>4. copy.manifest.segments[a].cipher_hash = H(CombinedOf(c, r, a))
    BY <1>9, <1>13, <2>1, EntryParts
  <2>5. PICK d, b : mine.tag = Tag(CombinedOf(d, requested[d], b))
    BY <1>1, <2>2, <2>3, TagOfIssued
  <2>6. H(Join(mine.ciphertext, Tag(CombinedOf(d, requested[d], b)))) = H(CombinedOf(c, r, a))
    BY <2>3, <2>4, <2>5
  <2>7. /\ mine.ciphertext = Body(CombinedOf(c, r, a))
        /\ CombinedOf(d, requested[d], b) = CombinedOf(c, r, a)
    BY <2>6, HashedParts DEF CombinedOf
  <2>8. /\ q.segments[a].ciphertext = Body(CombinedOf(c, r, a))
        /\ q.segments[a].tag = Tag(CombinedOf(c, r, a))
    BY <1>9, <2>1, EntryParts
  <2>9. QED
    BY <2>2, <2>5, <2>7, <2>8
<1>16. AsIssued(copy, q)
  BY <1>12, <1>15 DEF AsIssued
<1>17. QED
  BY <1>6, <1>14, <1>16

(* Verify without keys: no damage, loss, splice or replay of sections or   *)
(* segments passes Level 1, unless a trusted issuer signed it so.          *)
THEOREM VerifiedAsIssued == Spec => []VerifiedIsAsIssued
BY CustodyInvariant, VerifiedFollows, PTL

LEMMA AuthorizedFollows == CustodyInv => OKMeansAuthorized
<1> SUFFICES ASSUME CustodyInv, stage = "verified", OK(report)
             PROVE  /\ answer # Nil
                    /\ copy.intent.constraints_hash = ConstraintsHashOf(answer)
                    /\ resigns = 0 =>
                        \E c \in Calls :
                            /\ issued[c] # Nil /\ copy.package_id = PackageID(c)
                            /\ copy.intent.intent_ref = requested[c].intent_ref
                            /\ amends = 0 => Permits(answer, requested[c].projection)
  BY DEF OKMeansAuthorized
<1> USE DEF CustodyInv
<1>1. Level1Passed(report) /\ report.Intent.Evaluated /\ report.Intent.Valid
  BY DEF OK
<1>2. answer # Nil
  BY <1>1 DEF TypeOK
<1>3. report.Intent = VerifyIntent(copy, ConstraintsHashOf(answer))
  BY <1>1 DEF ReportInv
<1>4. copy.intent.constraints_hash = ConstraintsHashOf(answer)
  BY <1>1, <1>3, IntentValidMeans
<1>5. ASSUME resigns = 0
      PROVE  \E c \in Calls :
                /\ issued[c] # Nil /\ copy.package_id = PackageID(c)
                /\ copy.intent.intent_ref = requested[c].intent_ref
                /\ amends = 0 => Permits(answer, requested[c].projection)
  <2>1. PICK c \in Calls : issued[c] # Nil /\ AsIssued(copy, issued[c])
    BY <1>1, <1>5, VerifiedFollows DEF VerifiedIsAsIssued
  <2> DEFINE r == requested[c]
  <2>2. PICK w, v \in past[r.intent_ref], k \in Kids :
              /\ Permits(w, r.projection)
              /\ issued[c] = Sealing!CompletePackage(c, r, v, k)
    BY <2>1, IssuedParts
  <2>3. r.intent_ref \in IntentRefs
    BY <2>1, IssuedParts, RequestsAssumption
  <2> HIDE DEF r
  <2>4. /\ issued[c].package_id = PackageID(c)
        /\ issued[c].intent.intent_ref = r.intent_ref
        /\ issued[c].intent.constraints_hash = ConstraintsHashOf(v)
    BY <2>2, CompleteParts
  <2>5. copy.package_id = issued[c].package_id /\ copy.intent = issued[c].intent
    BY <2>1, RequiredFieldsCheck DEF AsIssued
  <2>6. ConstraintsHashOf(v) = ConstraintsHashOf(answer)
    BY <1>4, <2>4, <2>5
  <2>7. v = answer
    BY <2>6 DEF ConstraintsHashOf, H
  <2>8. amends = 0 => w = answer
    BY <2>2, <2>3, <2>7 DEF AuthorityInv
  <2>9. QED
    BY <2>1, <2>2, <2>4, <2>5, <2>8 DEF r
<1>6. QED
  BY <1>2, <1>4, <1>5

(* Report.OK is worth what it says: the authority answered Verify, with    *)
(* the constraints the package commits to, for the request that was        *)
(* sealed, and if it never changed its mind they permit that request.      *)
THEOREM OKIsAuthorized == Spec => []OKMeansAuthorized
BY CustodyInvariant, AuthorizedFollows, PTL

(* What a successful Open left behind.                                     *)
LEMMA OpenedMeans ==
    ASSUME CustodyInv, opened.err = Nil
    PROVE  /\ stage \in {"held", "level2", "verified"}
           /\ \E s \in SpecLists : Level1Passed(Level1Report(copy, Trust, s))
           /\ opened.audience \in DOMAIN copy.manifest.segments \cap DOMAIN copy.segments
           /\ opened.plaintext = Recover(copy, opened.audience, opened.key)
           /\ opened.plaintext # Nil
           /\ H(JCS(opened.plaintext)) = copy.manifest.segments[opened.audience].plain_hash
<1>1. stage \in {"held", "level2", "verified"}
  BY NotOpenedFails DEF CustodyInv, TypeOK, OpenInv
<1>2. PICK s \in SpecLists : opened = By(opened.key, OpenPackage(copy, opened.key, Trust, s))
  BY DEF CustodyInv, OpenInv
<1> DEFINE o == OpenPackage(copy, opened.key, Trust, s)
<1>3. opened.err = o.err /\ opened.audience = o.audience /\ opened.plaintext = o.plaintext
  BY <1>2 DEF By
<1>4. Nil \notin {"integrity_check_failed", "decryption_failed", "hash_mismatch"}
  BY NilAssumption
<1>5. QED
  BY <1>1, <1>3, <1>4, OpenMeans

LEMMA CommitsFollows == CustodyInv => OKCommitsToOpenedText
<1> DEFINE order  == copy.manifest.segment_order
           hashes == [PlainHashes(copy) EXCEPT
                        ![opened.audience] = H(JCS(opened.plaintext))]
<1> SUFFICES ASSUME CustodyInv, stage = "verified", OK(report), opened.err = Nil
             PROVE  /\ opened.audience \in Range(order)
                    /\ copy.bindings.intent_commitment =
                            IntentCommitment(copy.intent.intent_ref,
                                             ConstraintsHashOf(answer),
                                             SegmentsRoot(order, hashes))
  BY DEF OKCommitsToOpenedText
<1> USE DEF CustodyInv
<1>1. Level1Passed(report) /\ report.Intent.Evaluated /\ report.Intent.Valid
  BY DEF OK
<1>2. report.Intent = VerifyIntent(copy, ConstraintsHashOf(answer))
  BY <1>1 DEF ReportInv
<1>3. copy.bindings.intent_commitment =
        IntentCommitment(copy.intent.intent_ref, ConstraintsHashOf(answer),
                         copy.bindings.segments_root)
  BY <1>1, <1>2, IntentValidMeans
<1>4. /\ ParsePackage(copy) = FaultNone
      /\ copy.bindings.segments_root = SegmentsRoot(order, PlainHashes(copy))
  BY <1>1, PassedMeans DEF ReportInv
<1>5. opened.audience \in DOMAIN copy.manifest.segments
      /\ H(JCS(opened.plaintext)) = copy.manifest.segments[opened.audience].plain_hash
  BY OpenedMeans
<1>6. opened.audience \in Range(order)
  BY <1>4, <1>5, CopyParses DEF CopyInv
<1>7. hashes = PlainHashes(copy)
  BY <1>5, <1>6 DEF PlainHashes
<1>8. QED
  BY <1>3, <1>4, <1>6, <1>7

(* Whoever signed the copy: a text that Open reveals from it is under the  *)
(* commitment to the authority's answer that Level 2 recomputed.           *)
THEOREM OKCommits == Spec => []OKCommitsToOpenedText
BY CustodyInvariant, CommitsFollows, PTL

-----------------------------------------------------------------------------
(* Custody implements Delivery                                             *)

Letters == UNION {LettersOf(c) : c \in {d \in Calls : issued[d] # Nil}}

(* An issued segment whose key unwrapped and whose tag decrypted: it is    *)
(* one segment, and the copy's context and audience are its own.           *)
LEMMA RecoversLetter ==
    ASSUME TypeOK, IssuedInv, NEW p, Kept(p), NEW a \in DOMAIN p.segments, NEW priv,
           p.manifest.aad_context.package_id = p.package_id,
           Recover(p, a, priv) # Nil
    PROVE  [package |-> p.package_id, audience |-> a, key |-> PublicKey(priv),
            plaintext |-> Recover(p, a, priv)] \in Letters
<1> DEFINE sealed == p.segments[a]
           dek    == Unwrap(priv, sealed.epk, sealed.dek_wrapped)
           other  == AAD(p.manifest.aad_context, a, p.spec_version)
           text   == Recover(p, a, priv)
<1>1. /\ SealedSegmentDecodes(sealed) /\ dek # Nil
      /\ text = Decrypt(dek, sealed.nonce, Join(sealed.ciphertext, sealed.tag), other)
  BY DEF Recover
<1>2. Decodes(sealed.tag) /\ Decodes(sealed.dek_wrapped)
  BY <1>1 DEF SealedSegmentDecodes
<1>3. PICK c \in Calls : /\ issued[c] # Nil
                         /\ \E b \in AudienceNames(requested[c]) :
                                sealed.tag = Tag(CombinedOf(c, requested[c], b))
  BY <1>2, TagOfIssued
<1> DEFINE r == requested[c]
<1>4. PICK b \in AudienceNames(r) : sealed.tag = Tag(CombinedOf(c, r, b))
  BY <1>3
<1>5. PICK d \in Calls : /\ issued[d] # Nil
                         /\ \E e \in AudienceNames(requested[d]) :
                                sealed.dek_wrapped = Wrap(AudienceOf(requested[d], e).key,
                                                          Ephemeral(d, e), NewDEK(d, e))
  BY <1>2, WrappedOfIssued
<1>6. PICK e \in AudienceNames(requested[d]) :
            sealed.dek_wrapped = Wrap(AudienceOf(requested[d], e).key,
                                      Ephemeral(d, e), NewDEK(d, e))
  BY <1>5
<1>7. AudienceOf(requested[d], e).key = PublicKey(priv) /\ dek = NewDEK(d, e)
  BY <1>1, <1>6, UnwrapsOwn
<1>8. /\ dek = NewDEK(c, b) /\ text = r.segments[b]
      /\ other = AAD(AADContext(PackageID(c), r), b, SupportedSpecVersion)
  <2>1. Decrypt(dek, sealed.nonce, Join(sealed.ciphertext, Tag(CombinedOf(c, r, b))), other)
            # Nil
    BY <1>1, <1>4
  <2> HIDE DEF dek, other, text
  <2>2. QED
    BY <1>1, <1>4, <2>1, DecryptsTagged DEF CombinedOf
<1> HIDE DEF dek, r, text
<1>9. d = c /\ e = b
  BY <1>7, <1>8 DEF NewDEK
<1>10. a = b /\ p.package_id = PackageID(c)
  BY <1>8, AADBindsContext DEF AADContext
<1>11. /\ AudienceOf(r, b) \in Range(r.audiences) /\ AudienceOf(r, b).name = b
  BY EntryParts
<1>12. PICK i \in DOMAIN r.audiences : r.audiences[i] = AudienceOf(r, b)
  BY <1>11 DEF Range
<1>13. [package |-> p.package_id, audience |-> a, key |-> PublicKey(priv),
        plaintext |-> text]
         = [package   |-> PackageID(c), audience  |-> r.audiences[i].name,
            key       |-> r.audiences[i].key,
            plaintext |-> r.segments[r.audiences[i].name]]
  BY <1>7, <1>8, <1>9, <1>10, <1>11, <1>12 DEF r
<1>14. [package |-> p.package_id, audience |-> a, key |-> PublicKey(priv),
        plaintext |-> text] \in LettersOf(c)
  BY <1>12, <1>13 DEF LettersOf, r
<1>15. QED
  BY <1>3, <1>14 DEF Letters, text

LEMMA OpenedIsLetter == CustodyInv => OpenedLetter \in Letters \cup {Nil}
<1> SUFFICES ASSUME CustodyInv PROVE OpenedLetter \in Letters \cup {Nil}
  OBVIOUS
<1>1. CASE opened.err # Nil
  BY <1>1 DEF OpenedLetter
<1>2. CASE opened.err = Nil
  <2>1. PICK s \in SpecLists : Level1Passed(Level1Report(copy, Trust, s))
    BY <1>2, OpenedMeans
  <2>2. copy.manifest.aad_context.package_id = copy.package_id
    BY <2>1, PassedMeans
  <2>3. Kept(copy) /\ TypeOK /\ IssuedInv
    BY <1>2, OpenedMeans DEF CustodyInv, CopyInv
  <2>4. /\ opened.audience \in DOMAIN copy.segments
        /\ opened.plaintext = Recover(copy, opened.audience, opened.key)
        /\ opened.plaintext # Nil
    BY <1>2, OpenedMeans
  <2>5. [package |-> copy.package_id, audience |-> opened.audience,
         key |-> PublicKey(opened.key), plaintext |-> opened.plaintext] \in Letters
    BY <2>2, <2>3, <2>4, RecoversLetter
  <2>6. QED
    BY <1>2, <2>5 DEF OpenedLetter
<1>3. QED
  BY <1>1, <1>2

(* Sealing adds the letters of one new package, or nothing.                *)
LEMMA IssueSealsLetters ==
    ASSUME CustodyInv, NEW c \in Calls, NEW r \in Requests, NEW k \in Kids, Issue(c, r, k)
    PROVE  \/ Letters' = Letters
           \/ /\ Letters \subseteq Letters' /\ Letters' \ Letters # {}
              /\ \A l \in Letters' \ Letters, s \in Letters : l.package # s.package
              /\ \A l, m \in Letters' \ Letters :
                     l.package = m.package /\ (l.audience = m.audience => l = m)
<1>1. PICK w, v \in past[r.intent_ref] : Sealing!IssueUnder(c, r, w, v, k)
  BY DEF Issue
<1>2. /\ issued[c] = Nil /\ Sealing!ValidRequest(r)
      /\ issued' = [issued EXCEPT ![c] = Sealing!CompletePackage(c, r, v, k)]
      /\ requested' = [requested EXCEPT ![c] = r]
  BY <1>1 DEF Sealing!IssueUnder, Issue
<1>3. /\ \A d \in Calls : d # c => issued'[d] = issued[d] /\ requested'[d] = requested[d]
      /\ requested'[c] = r
  BY <1>2 DEF CustodyInv, TypeOK
<1> DEFINE Letter(i) == [package   |-> PackageID(c),
                         audience  |-> r.audiences[i].name,
                         key       |-> r.audiences[i].key,
                         plaintext |-> r.segments[r.audiences[i].name]]
           Batch == {Letter(i) : i \in DOMAIN r.audiences}
<1>4. /\ \A d \in Calls : d # c => LettersOf(d)' = LettersOf(d)
      /\ LettersOf(c)' = Batch
  BY <1>3 DEF LettersOf
<1>5. \A d \in Calls : \A l \in LettersOf(d) : l.package = PackageID(d)
  BY DEF LettersOf
<1>6. \A s \in Letters : s.package # PackageID(c)
  BY <1>2, <1>5 DEF Letters, PackageID
<1>7. CASE issued'[c] = Nil
  <2>1. \A d \in Calls : issued'[d] # Nil <=> issued[d] # Nil
    BY <1>2, <1>3, <1>7
  <2>2. \A d \in Calls : issued[d] # Nil => LettersOf(d)' = LettersOf(d)
    BY <1>2, <1>4
  <2>3. Letters' = Letters
    BY <2>1, <2>2 DEF Letters
  <2>4. QED
    BY <2>3
<1>8. CASE issued'[c] # Nil
  <2>1. Letters' = Letters \cup Batch
    BY <1>2, <1>3, <1>4, <1>8 DEF Letters
  <2>2. Batch \cap Letters = {}
    BY <1>6
  <2>3. Letters' \ Letters = Batch
    BY <2>1, <2>2
  <2>4. Batch # {}
    <3>1. r.audiences \in Seq(Range(r.audiences)) /\ r.audiences # <<>>
      BY <1>2, ValidParts, RequestsAssumption
    <3>2. 1 \in DOMAIN r.audiences
      BY <3>1
    <3>3. QED
      BY <3>2
  <2>5. \A l \in Batch, s \in Letters : l.package # s.package
    BY <1>6
  <2>6. \A l, m \in Batch : l.package = m.package /\ (l.audience = m.audience => l = m)
    <3>1. \A i, j \in DOMAIN r.audiences :
              r.audiences[i].name = r.audiences[j].name => i = j
      BY <1>2, ValidParts DEF CheckAudiences
    <3>2. \A i \in DOMAIN r.audiences : Letter(i).package = PackageID(c)
                                        /\ Letter(i).audience = r.audiences[i].name
      OBVIOUS
    <3> HIDE DEF Letter
    <3>3. QED
      BY <3>1, <3>2
  <2> HIDE DEF Batch
  <2>7. QED
    BY <2>1, <2>3, <2>4, <2>5, <2>6
<1>9. QED
  BY <1>7, <1>8

(* No step but Issue touches the letters, and none shows another letter    *)
(* than one that was sealed, or none.                                      *)
LEMMA StepDelivers ==
    ASSUME CustodyInv, CustodyInv', [Next]_vars
    PROVE  \/ UNCHANGED <<Letters, OpenedLetter>>
           \/ /\ Letters \subseteq Letters' /\ Letters' \ Letters # {}
              /\ \A l \in Letters' \ Letters, s \in Letters : l.package # s.package
              /\ \A l, m \in Letters' \ Letters :
                     l.package = m.package /\ (l.audience = m.audience => l = m)
              /\ UNCHANGED OpenedLetter
           \/ OpenedLetter' \in Letters \cup {Nil} /\ UNCHANGED Letters
<1>1. ASSUME NEW c \in Calls, NEW r \in Requests, NEW k \in Kids, Issue(c, r, k)
      PROVE  UNCHANGED OpenedLetter
  BY <1>1 DEF Issue, inspect, transit, OpenedLetter
<1>2. OpenedLetter' \in Letters' \cup {Nil}
  <2>1. (OpenedLetter \in Letters \cup {Nil})'
    BY OpenedIsLetter, PTL
  <2>2. QED
    BY <2>1
<1>3. ASSUME UNCHANGED issuance
      PROVE  UNCHANGED Letters
  BY <1>3 DEF issuance, Letters, LettersOf
<1>4. CASE \E c \in Calls, r \in Requests, k \in Kids : Issue(c, r, k)
  BY <1>1, <1>4, IssueSealsLetters
<1>5. CASE UNCHANGED issuance
  BY <1>2, <1>3, <1>5
<1>6. \/ \E c \in Calls, r \in Requests, k \in Kids : Issue(c, r, k)
      \/ UNCHANGED issuance
  <2>1. CASE Next
    BY <2>1 DEF Next, Amend, Send, Damage, Resign, Receive, VerifyLevel1, VerifyLevel2,
                Level2Unreachable, Open, Discard
  <2>2. CASE UNCHANGED vars
    BY <2>2 DEF vars
  <2>3. QED
    BY <2>1, <2>2
<1>7. QED
  BY <1>4, <1>5, <1>6

(* Open reveals an issuer's letter to its addressee, or nothing, whatever  *)
(* was done to the copy on its way and whoever signed it.                  *)
THEOREM DeliversOnlyLetters == Spec => OpenDeliversOnlyLetters
<1>1. Init => Abstract!Init
  BY NotOpenedFails DEF Init, Abstract!Init, OpenedLetter
<1>2. CustodyInv /\ CustodyInv' /\ [Next]_vars
        => [Abstract!Next]_<<UNION {LettersOf(c) : c \in {d \in Calls : issued[d] # Nil}},
                             OpenedLetter>>
  BY StepDelivers, Zenon
     DEF Letters, Abstract!Next, Abstract!SealLetters, Abstract!OpenLetter
<1>3. QED
  BY <1>1, <1>2, CustodyInvariant, PTL
     DEF Spec, OpenDeliversOnlyLetters, Abstract!Spec

-----------------------------------------------------------------------------
(* What is in order is not refused                                         *)

(* The one hypothesis that TLC cannot evaluate of a model value: Nil is    *)
(* no function, hence no term and no map.                                  *)
NilIsNoFunction == Nil # [x \in DOMAIN Nil |-> Nil[x]]

LEMMA NoTermIsNil ==
    ASSUME NilIsNoFunction
    PROVE  /\ \A x : H(x) # Nil /\ JCS(x) # Nil
           /\ \A ref, hash, root : IntentCommitment(ref, hash, root) # Nil
<1>1. ASSUME NEW x, NEW y PROVE <<x, y>> # Nil
  <2>1. <<x, y>> = [i \in DOMAIN <<x, y>> |-> <<x, y>>[i]]
    OBVIOUS
  <2> DEFINE t == <<x, y>>
  <2> HIDE DEF t
  <2>2. t = [i \in DOMAIN t |-> t[i]]
    BY <2>1 DEF t
  <2>3. t # Nil
    BY <2>2 DEF NilIsNoFunction
  <2>4. QED
    BY <2>3 DEF t
<1>2. QED
  BY <1>1 DEF H, JCS, IntentCommitment

LEMMA BindingsExist ==
    ASSUME NilIsNoFunction, NEW ctx, NEW s,
           \A i \in DOMAIN s : \/ s[i].commits = "intent"
                               \/ s[i].reads \subseteq DOMAIN ctx.plain_hash
    PROVE  /\ ComputeBindings(ctx, s) # Nil
           /\ DOMAIN ComputeBindings(ctx, s) = SpecNames(s)
<1>1. \A i \in DOMAIN s : BindingValue(s[i], ctx) # Nil
  BY NoTermIsNil DEF BindingValue
<1> DEFINE b == ComputeBindings(ctx, s)
<1>2. b = [n \in SpecNames(s) |-> BindingValue(LastSpec(s, n), ctx)]
  BY <1>1 DEF ComputeBindings
<1>3. DOMAIN b = SpecNames(s) /\ b = [n \in DOMAIN b |-> b[n]]
  BY <1>2
<1> HIDE DEF b
<1>4. b # Nil
  BY <1>3 DEF NilIsNoFunction
<1>5. QED
  BY <1>3, <1>4 DEF b

LEMMA IssuedPasses ==
    ASSUME NilIsNoFunction, NEW c, NEW r \in Requests, NEW v, NEW k \in TrustedKids,
           Sealing!ValidRequest(r), NEW s \in {<<>>, r.specs}
    PROVE  Level1Passed(Level1Report(Sealing!CompletePackage(c, r, v, k), Trust, s))
<1> DEFINE entries == EntriesOf(c, r)
           hash == ConstraintsHashOf(v)
           root == SegmentsRoot(r.segment_order, EntryPlainHashes(entries))
           u == UnsignedPackage(PackageID(c), r, hash, entries, k)
<1>1. DOMAIN entries = AudienceNames(r) /\ DOMAIN EntryPlainHashes(entries) = AudienceNames(r)
  BY DEF EntriesOf, EntryPlainHashes
<1>2. SealedEntries(entries)
  BY <1>1, EntryParts DEF SealedEntries
<1>3. /\ r.segment_order \in Seq(AudienceNames(r)) /\ r.segment_order # <<>>
      /\ r.specs \in Seq(Range(r.specs))
      /\ IsInjective(r.segment_order) /\ Range(r.segment_order) = AudienceNames(r)
  <2>1. r.audiences \in Seq(Range(r.audiences)) /\ r.audiences # <<>>
    BY ValidParts, RequestsAssumption
  <2>2. 1 \in DOMAIN r.audiences
    BY <2>1
  <2>3. AudienceNames(r) # {}
    BY <2>2 DEF AudienceNames
  <2>4. Range(<<>>) = {}
    BY DEF Range
  <2>5. QED
    BY <2>3, <2>4, ValidParts, RequestsAssumption
<1>4. <<r.issuer, k>> \in DOMAIN Trust /\ Trust[<<r.issuer, k>>] = IssuerKey(k)
  BY DEF Trust
<1> HIDE DEF entries
<1>5. root # Nil
  BY <1>1, <1>3, NoTermIsNil DEF SegmentsRoot, SameAudiences
<1>6. /\ SpecNames(r.specs) \cap CoreBindingNames = {}
      /\ \A i \in DOMAIN r.specs : \/ r.specs[i].commits = "intent"
                                   \/ r.specs[i].reads \subseteq AudienceNames(r)
  BY SealingTerms DEF Sealing!ValidRequest
<1> HIDE DEF root, hash
<1>7. /\ ExtraBindings(r, hash, entries, root) # Nil
      /\ DOMAIN ExtraBindings(r, hash, entries, root) = SpecNames(r.specs)
  BY <1>1, <1>6, BindingsExist DEF ExtraBindings, BindingContext
<1>8. BuildSigningView(u) # Nil
  <2>1. u.bindings.extra = ExtraBindings(r, hash, entries, root)
    BY DEF UnsignedPackage, root
  <2>2. Marshals(u.bindings)
    BY <1>6, <1>7, <2>1 DEF Marshals
  <2> HIDE DEF u
  <2>3. QED
    BY <2>2, NoTermIsNil DEF BuildSigningView, SigningView
<1>9. Level1Passed(Level1Report(SignedPackage(u, IssuerKey(k)), Trust, s))
  BY <1>2, <1>3, <1>4, <1>5, <1>7, <1>8, BuiltPasses DEF root
<1>10. QED
  BY <1>9, SealingPackages DEF hash, entries

LEMMA IntactFollows ==
    ASSUME NilIsNoFunction
    PROVE  CustodyInv => IntactCopyVerifies
<1> SUFFICES ASSUME CustodyInv, NEW c \in Calls,
                    stage = "verified", issued[c] # Nil, copy = issued[c],
                    copy.issuer.kid \in TrustedKids,
                    specs \in {<<>>, requested[c].specs}
             PROVE  /\ Level1Passed(report)
                    /\ OK(report) <=>
                         /\ answer # Nil
                         /\ copy.intent.constraints_hash = ConstraintsHashOf(answer)
  BY DEF IntactCopyVerifies
<1> USE DEF CustodyInv
<1> DEFINE r == requested[c]
<1>1. r \in Requests /\ Sealing!ValidRequest(r)
  BY IssuedParts
<1>2. PICK v, k : copy = Sealing!CompletePackage(c, r, v, k)
  BY IssuedParts
<1>3. copy.issuer.kid = k
  BY <1>2, CompleteParts
<1>4. Level1Passed(Level1Report(copy, Trust, specs))
  BY <1>1, <1>2, <1>3, IssuedPasses
<1>5. Level1Passed(report)
  BY <1>4 DEF ReportInv
<1>6. ASSUME OK(report)
      PROVE  answer # Nil /\ copy.intent.constraints_hash = ConstraintsHashOf(answer)
  BY <1>6, AuthorizedFollows DEF OKMeansAuthorized
<1>7. ASSUME answer # Nil, copy.intent.constraints_hash = ConstraintsHashOf(answer)
      PROVE  OK(report)
  <2>1. report.Intent.Evaluated
    BY <1>7 DEF TypeOK
  <2>2. report.Intent = VerifyIntent(copy, ConstraintsHashOf(answer))
    BY <2>1 DEF ReportInv
  <2>3. ConstraintsHashOf(answer) # Nil
    BY <1>7, NilAssumption DEF TypeOK
  <2>4. copy.bindings.intent_commitment =
            IntentCommitment(copy.intent.intent_ref, copy.intent.constraints_hash,
                             copy.bindings.segments_root)
    BY <1>2, CompleteParts
  <2>5. report.Intent.Valid
    BY <1>7, <2>2, <2>3, <2>4, IntentValidFrom
  <2>6. QED
    BY <1>5, <2>1, <2>5 DEF OK
<1>8. QED
  BY <1>5, <1>6, <1>7

(* A copy that arrives as it was sealed, by a trusted key, passes Level 1  *)
(* with its own bindings or none, and is OK exactly when the authority     *)
(* answers with the constraints it commits to.                             *)
THEOREM IntactVerifies ==
    ASSUME NilIsNoFunction
    PROVE  Spec => []IntactCopyVerifies
BY CustodyInvariant, IntactFollows, PTL

============================================================================
