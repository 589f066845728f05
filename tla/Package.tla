------------------------------ MODULE Package ------------------------------
(***************************************************************************)
(* The sealed package of pkg/chainbind and everything the library computes *)
(* on one without talking to anybody: how its commitments and its signing  *)
(* view are built (bindings.go, signview.go, package.go), what Level 1 of  *)
(* Verify reports (verify.go), and what Open recovers (open.go).           *)
(*                                                                         *)
(* A Go map is a function on the set of its keys, a slice a sequence.  A   *)
(* helper that can return an error returns Nil for it.                     *)
(***************************************************************************)
EXTENDS Terms, FiniteSets, Functions

CONSTANT SupportedSpecVersion

(* Go's m[k] = v. *)
Put(m, k, v) == [x \in DOMAIN m \cup {k} |-> IF x = k THEN v ELSE m[x]]

----------------------------------------------------------------------------
(* The signing view (signview.go, package.go)                              *)

RequiredSignedFields ==
    <<"spec_version", "profile", "package_id", "issued_at",
      "issuer", "intent", "cnf", "bindings", "manifest">>

(* signed_fields must be a permutation of the nine names: right length, no *)
(* unrecognised name, no repeated one.                                     *)
CheckSignedFields(names) ==
    /\ Len(names) = Len(RequiredSignedFields)
    /\ Range(names) \subseteq Range(RequiredSignedFields)
    /\ IsInjective(names)

CoreBindingNames == {"segments_root", "intent_commitment"}

(* Bindings.MarshalJSON refuses a profile binding that bears a core name.  *)
Marshals(bindings) == DOMAIN bindings.extra \cap CoreBindingNames = {}

(* The view selects the named fields of the package; segments is not one   *)
(* of them and signature cannot be.                                        *)
SigningView(p, names) ==
    IF Marshals(p.bindings) THEN JCS([f \in Range(names) |-> p[f]]) ELSE Nil

BuildSigningView(p) == SigningView(p, RequiredSignedFields)

ReconstructSigningView(p) ==
    IF CheckSignedFields(p.signature.signed_fields)
    THEN SigningView(p, p.signature.signed_fields)
    ELSE Nil

----------------------------------------------------------------------------
(* Commitments (bindings.go)                                               *)

(* The order names exactly the audiences that have a hash, each once.      *)
SameAudiences(order, plainHash) ==
    IsInjective(order) /\ Range(order) = DOMAIN plainHash

(* The root is over <<audience, plain_hash>> pairs in segment order.       *)
SegmentsRoot(order, plainHash) ==
    IF SameAudiences(order, plainHash)
    THEN H(JCS([i \in DOMAIN order |-> <<order[i], plainHash[order[i]]>>]))
    ELSE Nil

IntentCommitment(ref, constraintsHash, root) ==
    <<"ctx", H(JCS([intent_ref       |-> ref,
                    constraints_hash |-> constraintsHash,
                    segments_root    |-> root]))>>

BindingContext(plainHash, ref, constraintsHash, root) ==
    [plain_hash |-> plainHash, intent_ref |-> ref,
     constraints_hash |-> constraintsHash, segments_root |-> root]

(* A BindingSpec is a name and a pure formula of the context.  The formula *)
(* is abstracted to what it commits to: the plain hashes of the audiences  *)
(* it reads, one of which may be absent, or the intent (agenticcheckout's  *)
(* conditional_transaction_id recomputes the intent commitment).           *)
BindingValue(spec, ctx) ==
    IF spec.commits = "intent"
    THEN IntentCommitment(ctx.intent_ref, ctx.constraints_hash,
                          ctx.segments_root)
    ELSE IF spec.reads \subseteq DOMAIN ctx.plain_hash
         THEN H(JCS(Restrict(ctx.plain_hash, spec.reads)))
         ELSE Nil

SpecNames(specs) == {specs[i].name : i \in DOMAIN specs}

(* Two specs of one name write the same map entry: the later one stays.    *)
LastSpec(specs, name) ==
    specs[CHOOSE i \in DOMAIN specs :
            /\ specs[i].name = name
            /\ \A j \in DOMAIN specs : specs[j].name = name => j <= i]

ComputeBindings(ctx, specs) ==
    IF \E i \in DOMAIN specs : BindingValue(specs[i], ctx) = Nil
    THEN Nil
    ELSE [n \in SpecNames(specs) |-> BindingValue(LastSpec(specs, n), ctx)]

----------------------------------------------------------------------------
(* Verify, Level 1 (verify.go)                                             *)

FaultNone == "none"

(* Mutant: a repeated audience is not noticed. *)
AudienceFaultRepeats(p, i) ==
    LET a == p.manifest.segment_order[i]
    IN  IF a \notin DOMAIN p.manifest.segments
             THEN "manifest_segment_missing"
        ELSE IF a \notin DOMAIN p.segments THEN "sealed_segment_missing"
        ELSE FaultNone

(* The per-audience checks of the structural parse run in segment order    *)
(* and stop at the first audience that fails one.                          *)
AudienceFault(p, i) ==
    LET order == p.manifest.segment_order
        a     == order[i]
    IN  IF \E j \in 1..(i - 1) : order[j] = a THEN "duplicate_audience"
        ELSE IF a \notin DOMAIN p.manifest.segments
             THEN "manifest_segment_missing"
        ELSE IF a \notin DOMAIN p.segments THEN "sealed_segment_missing"
        ELSE FaultNone

FaultyAudiences(p) ==
    {i \in DOMAIN p.manifest.segment_order : AudienceFault(p, i) # FaultNone}

FirstFaulty(p) ==
    CHOOSE i \in FaultyAudiences(p) : \A j \in FaultyAudiences(p) : i <= j

(* The structural parse, in the order of its early returns. *)
ParsePackage(p) ==
    IF p.signature.signed_fields = <<>> THEN "empty_signed_fields"
    ELSE IF p.manifest.segment_order = <<>> THEN "empty_segment_order"
    ELSE IF Cardinality(DOMAIN p.manifest.segments)
            # Len(p.manifest.segment_order) THEN "segment_count_mismatch"
    ELSE IF FaultyAudiences(p) # {} THEN AudienceFault(p, FirstFaulty(p))
    ELSE IF ~CheckSignedFields(p.signature.signed_fields)
         THEN "signed_fields_invalid"
    ELSE IF ReconstructSigningView(p) = Nil THEN "signing_view_unbuildable"
    ELSE IF ~Decodes(p.signature.value) THEN "signature_undecodable"
    ELSE FaultNone

(* The caller's trust store: a function from <<iss, kid>> to a public key. *)
(* A key that is not in it is handled like a bad signature.                *)
SignatureValid(p, trust) ==
    LET id == <<p.issuer.iss, p.issuer.kid>>
    IN  /\ id \in DOMAIN trust
        /\ VerifyEd25519(trust[id], ReconstructSigningView(p),
                         p.signature.value)

(* Mutant: the tag is left out of the hash. *)
CheckCipherHashOfBody(seg, sealed) ==
    /\ Decodes(sealed.ciphertext) /\ Decodes(sealed.tag)
    /\ H(sealed.ciphertext) = seg.cipher_hash

(* Mutant: decoding is taken for checking. *)
CheckCipherHashDecodes(seg, sealed) ==
    Decodes(sealed.ciphertext) /\ Decodes(sealed.tag)

CheckCipherHash(seg, sealed) ==
    /\ Decodes(sealed.ciphertext) /\ Decodes(sealed.tag)
    /\ H(Join(sealed.ciphertext, sealed.tag)) = seg.cipher_hash

PlainHashes(p) ==
    [a \in Range(p.manifest.segment_order) |-> p.manifest.segments[a].plain_hash]

CheckProfileBinding(p, ctx, spec) ==
    LET value == BindingValue(spec, ctx)
        claim == p.bindings.extra
    IN  value # Nil /\ spec.name \in DOMAIN claim /\ value = claim[spec.name]

(* A report's maps are empty exactly when Verify left them nil.            *)
NotEvaluated == [Evaluated |-> FALSE, Valid |-> FALSE]

EmptyReport ==
    [SpecVersionSupported |-> FALSE, Structural |-> FaultNone,
     Signature |-> FALSE, AADContextConsistent |-> FALSE,
     CipherHashes |-> <<>>, SegmentsRoot |-> FALSE,
     ProfileBindings |-> <<>>, Intent |-> NotEvaluated]

VersionReport == [EmptyReport EXCEPT !.SpecVersionSupported = TRUE]

(* L1.3 to L1.6: the issuer has attested the contents, so every divergence *)
(* is recorded instead of stopping at the first.                           *)
AttestedReport(p, specs) ==
    LET root == SegmentsRoot(p.manifest.segment_order, PlainHashes(p))
        ctx  == BindingContext(PlainHashes(p), p.intent.intent_ref,
                               p.intent.constraints_hash, root)
    IN  [VersionReport EXCEPT
            !.Signature = TRUE,
            !.AADContextConsistent =
                p.manifest.aad_context.package_id = p.package_id,
            !.CipherHashes =
                [a \in Range(p.manifest.segment_order) |->
                    CheckCipherHash(p.manifest.segments[a], p.segments[a])],
            !.SegmentsRoot = root # Nil /\ root = p.bindings.segments_root,
            !.ProfileBindings =
                [n \in SpecNames(specs) |->
                    CheckProfileBinding(p, ctx, LastSpec(specs, n))]]

Level1Report(p, trust, specs) ==
    IF p.spec_version # SupportedSpecVersion THEN EmptyReport
    ELSE IF ParsePackage(p) # FaultNone
         THEN [VersionReport EXCEPT !.Structural = ParsePackage(p)]
    ELSE IF ~SignatureValid(p, trust) THEN VersionReport
    ELSE AttestedReport(p, specs)

AllTrue(checks) == \A n \in DOMAIN checks : checks[n]

(* Mutant: no profile binding checked is taken for a failed one. *)
Level1PassedWithSpecs(r) ==
    /\ r.Structural = FaultNone
    /\ r.SpecVersionSupported /\ r.Signature
    /\ r.AADContextConsistent /\ r.SegmentsRoot
    /\ DOMAIN r.CipherHashes # {} /\ AllTrue(r.CipherHashes)
    /\ DOMAIN r.ProfileBindings # {} /\ AllTrue(r.ProfileBindings)

(* Mutant: only what makes Verify return an error counts. *)
Level1PassedStructure(r) ==
    r.Structural = FaultNone /\ r.SpecVersionSupported

Level1Passed(r) ==
    /\ r.Structural = FaultNone
    /\ r.SpecVersionSupported /\ r.Signature
    /\ r.AADContextConsistent /\ r.SegmentsRoot
    /\ DOMAIN r.CipherHashes # {} /\ AllTrue(r.CipherHashes)
    /\ AllTrue(r.ProfileBindings)

(* Mutant: without an answer, the issuer's own hash serves. *)
VerifyIntentTrustingIssuer(p, answer) ==
    [Evaluated |-> TRUE,
     Valid     |-> p.bindings.intent_commitment =
                        IntentCommitment(p.intent.intent_ref,
                                         p.intent.constraints_hash,
                                         p.bindings.segments_root)]

(* Mutant: the commitment is not recomputed. *)
VerifyIntentHashOnly(p, answer) ==
    [Evaluated |-> answer # Nil,
     Valid     |-> answer # Nil /\ answer = p.intent.constraints_hash]

(* L2.1 to L2.4, given the authority's answer (Nil: unreachable).  The     *)
(* commitment is recomputed from the authority's hash, never the issuer's. *)
VerifyIntent(p, answer) ==
    [Evaluated |-> answer # Nil,
     Valid     |-> /\ answer # Nil
                   /\ answer = p.intent.constraints_hash
                   /\ p.bindings.intent_commitment =
                        IntentCommitment(p.intent.intent_ref, answer,
                                         p.bindings.segments_root)]

OK(r) == Level1Passed(r) /\ r.Intent.Evaluated /\ r.Intent.Valid

----------------------------------------------------------------------------
(* Open (open.go)                                                          *)

(* Mutant: the key itself is looked for, not its thumbprint. *)
MatchesRawKey(cnf, priv) == {a \in DOMAIN cnf : cnf[a].jkt = PublicKey(priv)}

(* The audiences whose key confirmation is the thumbprint of this key.     *)
Matches(cnf, priv) ==
    {a \in DOMAIN cnf : cnf[a].jkt = Thumbprint(PublicKey(priv))}

SealedSegmentDecodes(sealed) ==
    \A f \in {"epk", "dek_wrapped", "nonce", "ciphertext", "tag"} :
        Decodes(sealed[f])

(* The plaintext of one audience's segment, or Nil for ErrDecryptionFailed *)
Recover(p, a, priv) ==
    LET sealed == p.segments[a]
        dek    == Unwrap(priv, sealed.epk, sealed.dek_wrapped)
    IN  IF ~SealedSegmentDecodes(sealed) \/ dek = Nil THEN Nil
        ELSE Decrypt(dek, sealed.nonce, Join(sealed.ciphertext, sealed.tag),
                     AAD(p.manifest.aad_context, a, p.spec_version))

OpenFailed(err) == [err |-> err, audience |-> Nil, plaintext |-> Nil]

OpenPackage(p, priv, trust, specs) ==
    LET matches == Matches(p.cnf, priv)
        a       == CHOOSE n \in matches : TRUE
        text    == Recover(p, a, priv)
    IN  IF ~Level1Passed(Level1Report(p, trust, specs))
        THEN OpenFailed("integrity_check_failed")
        ELSE IF \/ Cardinality(matches) # 1
                \/ a \notin DOMAIN p.manifest.segments \cap DOMAIN p.segments
                \/ text = Nil
             THEN OpenFailed("decryption_failed")
        ELSE IF H(JCS(text)) # p.manifest.segments[a].plain_hash
             THEN OpenFailed("hash_mismatch")
        ELSE [err |-> Nil, audience |-> a, plaintext |-> text]

----------------------------------------------------------------------------
(* What Seal builds (seal.go)                                              *)

AudienceNames(req) == {req.audiences[i].name : i \in DOMAIN req.audiences}

(* checkAudiences: names are unique and each has a plaintext.  An entry of *)
(* req.segments nobody is named for is not looked at.                      *)
CheckAudiences(req) ==
    /\ \A i, j \in DOMAIN req.audiences :
           req.audiences[i].name = req.audiences[j].name => i = j
    /\ AudienceNames(req) \subseteq DOMAIN req.segments

AADContext(id, req) ==
    [package_id |-> id, tenant_id |-> req.tenant_id,
     environment |-> req.environment]

(* One audience's manifest entry, wire segment and key confirmation.       *)
SegmentEntry(ctx, aud, plaintext, dek, nonce, ephemeral) ==
    LET combined == Encrypt(dek, nonce, plaintext,
                            AAD(ctx, aud.name, SupportedSpecVersion))
    IN  [manifest |-> [plain_hash  |-> H(JCS(plaintext)),
                       cipher_hash |-> H(combined)],
         sealed   |-> [epk         |-> EPK(ephemeral),
                       dek_wrapped |-> Wrap(aud.key, ephemeral, dek),
                       nonce       |-> nonce,
                       ciphertext  |-> Body(combined),
                       tag         |-> Tag(combined)],
         cnf      |-> [jkt |-> Thumbprint(aud.key)]]

EntryPlainHashes(entries) ==
    [a \in DOMAIN entries |-> entries[a].manifest.plain_hash]

(* The profile bindings of a request, Nil when one cannot be computed.     *)
ExtraBindings(req, constraintsHash, entries, root) ==
    ComputeBindings(BindingContext(EntryPlainHashes(entries), req.intent_ref,
                                   constraintsHash, root),
                    req.specs)

UnsignedPackage(id, req, constraintsHash, entries, kid) ==
    LET root == SegmentsRoot(req.segment_order, EntryPlainHashes(entries))
    IN  [spec_version |-> SupportedSpecVersion,
         profile      |-> req.profile,
         package_id   |-> id,
         issued_at    |-> req.issued_at,
         issuer       |-> [iss |-> req.issuer, kid |-> kid],
         intent       |-> [intent_ref       |-> req.intent_ref,
                           constraints_hash |-> constraintsHash],
         cnf          |-> [a \in DOMAIN entries |-> entries[a].cnf],
         bindings     |->
            [segments_root     |-> root,
             intent_commitment |->
                IntentCommitment(req.intent_ref, constraintsHash, root),
             extra             |->
                ExtraBindings(req, constraintsHash, entries, root)],
         manifest     |->
            [segment_order |-> req.segment_order,
             aad_context   |-> AADContext(id, req),
             segments      |-> [a \in DOMAIN entries |-> entries[a].manifest]],
         segments     |-> [a \in DOMAIN entries |-> entries[a].sealed],
         signature    |-> [signed_fields |-> <<>>, value |-> Nil]]

(* signPackage, once the signer has answered: kid is inside the view, so   *)
(* it was set before the view was built.                                   *)
SignedPackage(p, key) ==
    [p EXCEPT !.signature =
        [signed_fields |-> RequiredSignedFields,
         value         |-> Sign(key, BuildSigningView(p))]]

(* Fresh randomness, named after its one use: the package id of a Seal     *)
(* call, and the data key, nonce and ephemeral key of each of its segments *)
(* are values that no other use of the source ever returns.                *)
PackageID(call)    == <<"pkg", call>>
NewDEK(call, a)    == <<"dek", call, a>>
Nonce(call, a)     == <<"nonce", call, a>>
Ephemeral(call, a) == <<"ephemeral", call, a>>

(* The key behind an issuer's kid, and the authority's commitment to one   *)
(* version of the constraints.                                             *)
IssuerKey(kid)       == <<"issuer key", kid>>
ConstraintsHashOf(v) == H(<<"constraints", v>>)

============================================================================
