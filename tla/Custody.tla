------------------------------ MODULE Custody ------------------------------
(***************************************************************************)
(* A sealed package on its way: issuers seal (Issuance), a copy travels    *)
(* and may arrive damaged, mixed with parts of other packages, or signed   *)
(* over contents that do not belong together; whoever receives it runs     *)
(* chainbind.Verify (verify.go) and chainbind.Open (open.go) on it, while  *)
(* the intent authority answers, fails to answer, or changes its mind.     *)
(***************************************************************************)
EXTENDS Package, SequencesExt

CONSTANTS
    Calls, Requests, IntentRefs, Versions, Permits(_, _), Kids,
    PrivateKeys,        \* keys a receiver may hold
    TrustedKids,        \* the issuer kids in receivers' trust store
    SpecLists,          \* the binding specs a receiver may verify with
    MaxAmends,
    MaxFaults,          \* changes to one copy in transit
    MaxResigns          \* signatures over contents that were not sealed

ASSUME RequestsAssumption ==
    \A r \in Requests : /\ r.intent_ref \in IntentRefs
                        /\ r.audiences \in Seq(Range(r.audiences))
                        /\ r.segment_order \in Seq(Range(r.segment_order))
                        /\ r.specs \in Seq(Range(r.specs))

ASSUME BoundsAssumption == {MaxAmends, MaxFaults, MaxResigns} \subseteq Nat

(* Nil stands for what is not there: no version, hash or error is Nil.     *)
ASSUME NilAssumption ==
    Nil \notin Versions \cup {ConstraintsHashOf(v) : v \in Versions}
             \cup {"not opened", "integrity_check_failed",
                   "decryption_failed", "hash_mismatch"}

VARIABLES
    issued,             \* issued[c]: the package of Seal call c, or Nil
    requested,          \* history: requested[c], the request behind issued[c]
    version,            \* version[r]: the authority's constraints for r
    past,               \* past[r]: every version r has had
    amends,
    copy,               \* the copy in transit or held by a receiver, or Nil
    stage,              \* "none", "transit", "held", "level2", "verified"
    faults, resigns,    \* what happened to this copy
    specs,              \* the binding specs it is verified with
    report,             \* Verify's report so far
    answer,             \* history: the version behind the authority's answer
    opened              \* the outcome of the last Open of this copy

issuance  == <<issued, requested>>
authority == <<version, past, amends>>
inspect   == <<specs, report, answer, opened>>
transit   == <<copy, stage, faults, resigns>>
vars      == <<issuance, authority, inspect, transit>>

Sealing == INSTANCE Issuance

Trust ==
    [id \in {r.issuer : r \in Requests} \X TrustedKids |-> IssuerKey(id[2])]

(* The outcome of an Open, and the key it was tried with.                  *)
By(priv, outcome) ==
    [err |-> outcome.err, audience |-> outcome.audience,
     plaintext |-> outcome.plaintext, key |-> priv]

NotOpened == By(Nil, OpenFailed("not opened"))

Init ==
    /\ issued = [c \in Calls |-> Nil]
    /\ requested = [c \in Calls |-> Nil]
    /\ version \in [IntentRefs -> Versions]
    /\ past = [r \in IntentRefs |-> {version[r]}]
    /\ amends = 0
    /\ copy = Nil /\ stage = "none" /\ faults = 0 /\ resigns = 0
    /\ specs = <<>> /\ report = EmptyReport /\ answer = Nil
    /\ opened = NotOpened

(* Seal, as Issuance promises it.  Its two questions to the authority may  *)
(* have been answered at different times.                                  *)
Issue(c, r, k) ==
    /\ \E w, v \in past[r.intent_ref] : Sealing!IssueUnder(c, r, w, v, k)
    /\ requested' = [requested EXCEPT ![c] = r]
    /\ UNCHANGED <<authority, inspect, transit>>

Amend(r, v) ==
    /\ amends < MaxAmends
    /\ version' = [version EXCEPT ![r] = v]
    /\ past' = [past EXCEPT ![r] = @ \cup {v}]
    /\ amends' = amends + 1
    /\ UNCHANGED <<issuance, inspect, transit>>

----------------------------------------------------------------------------
(* Transport and storage                                                   *)

Send(c) ==
    /\ stage = "none" /\ issued[c] # Nil
    /\ copy' = issued[c] /\ stage' = "transit"
    /\ UNCHANGED <<issuance, authority, inspect, faults, resigns>>

Packages == {issued[c] : c \in Calls} \ {Nil}

Without(f, a) == Restrict(f, DOMAIN f \ {a})

(* A whole section replaced by that of an issued package.                  *)
SectionsMixed(p) ==
    {[p EXCEPT ![f] = q[f]] :
        f \in {"package_id", "issuer", "intent", "cnf", "bindings", "manifest",
               "segments", "signature"},
        q \in Packages}

SealedFields == {"epk", "dek_wrapped", "nonce", "ciphertext", "tag"}

(* Inside segments: a field corrupted or taken from another segment, a     *)
(* segment lost, taken from elsewhere, or delivered under one more name.   *)
EverSealed(f) ==
    UNION {{q.segments[b][f] : b \in DOMAIN q.segments} : q \in Packages}

FieldDamaged(p, a, f) ==
    {[p EXCEPT !.segments[a][f] = x] : x \in {Undecodable} \cup EverSealed(f)}

SegmentAdded(p, d, q) ==
    {[p EXCEPT !.segments = Put(@, a, q.segments[b])] :
        a \in AudienceNames(requested[d]), b \in DOMAIN q.segments}

SegmentsDamaged(p) ==
    (UNION {FieldDamaged(p, a, f) : a \in DOMAIN p.segments, f \in SealedFields})
    \cup {[p EXCEPT !.segments = Without(@, a)] : a \in DOMAIN p.segments}
    \cup (UNION {SegmentAdded(p, d, q) :
                    d \in {c \in Calls : issued[c] # Nil}, q \in Packages})

(* Inside the signed sections.                                             *)
OrderDamaged(p) ==
    {[p EXCEPT !.manifest.segment_order = o] :
        o \in {<<>>, SubSeq(p.manifest.segment_order, 2, Len(p.manifest.segment_order)),
               Reverse(p.manifest.segment_order),
               [i \in DOMAIN p.manifest.segment_order |->
                    p.manifest.segment_order[1]]}}

EntryExchanged(p, q) ==
    {[p EXCEPT !.manifest.segments[a] = q.manifest.segments[b]] :
        a \in DOMAIN p.manifest.segments, b \in DOMAIN q.manifest.segments}

ManifestDamaged(p) ==
    {[p EXCEPT !.manifest.segments = Without(@, a)] :
        a \in DOMAIN p.manifest.segments}
    \cup (UNION {EntryExchanged(p, q) : q \in Packages})
    \cup {[p EXCEPT !.manifest.aad_context = q.manifest.aad_context] :
            q \in Packages}

CommitmentsDamaged(p) ==
    {[p EXCEPT !.bindings[f] = q.bindings[f]] :
        f \in {"segments_root", "intent_commitment", "extra"}, q \in Packages}
    \cup {[p EXCEPT !.intent[f] = q.intent[f]] :
            f \in {"intent_ref", "constraints_hash"}, q \in Packages}
    \cup {[p EXCEPT !.bindings.extra = [segments_root |-> p.bindings.segments_root]]}
    \cup {[p EXCEPT !.cnf[a] = p.cnf[b]] : a, b \in DOMAIN p.cnf}

SignatureDamaged(p) ==
    {[p EXCEPT !.signature.signed_fields = s] :
        s \in {<<>>, Tail(RequiredSignedFields), Reverse(RequiredSignedFields),
               [RequiredSignedFields EXCEPT ![9] = "issuer"],
               [RequiredSignedFields EXCEPT ![9] = "segments"]}}
    \cup {[p EXCEPT !.signature.value = Undecodable],
          [p EXCEPT !.spec_version = "unsupported"]}

Damaged(p) ==
    SectionsMixed(p) \cup SegmentsDamaged(p) \cup OrderDamaged(p)
        \cup ManifestDamaged(p) \cup CommitmentsDamaged(p) \cup SignatureDamaged(p)

Damage ==
    /\ stage = "transit" /\ faults < MaxFaults
    /\ copy' \in Damaged(copy) \ {copy}
    /\ faults' = faults + 1
    /\ UNCHANGED <<issuance, authority, inspect, stage, resigns>>

(* A holder of issuer key k signs what lies before it, whatever it is.     *)
Resign(k) ==
    /\ stage = "transit" /\ resigns < MaxResigns
    /\ Marshals(copy.bindings)
    /\ copy' = SignedPackage([copy EXCEPT !.issuer.kid = k], IssuerKey(k))
    /\ resigns' = resigns + 1
    /\ UNCHANGED <<issuance, authority, inspect, stage, faults>>

Receive ==
    /\ stage = "transit" /\ stage' = "held"
    /\ UNCHANGED <<issuance, authority, inspect, copy, faults, resigns>>

----------------------------------------------------------------------------
(* The receiver                                                            *)

(* Verify up to the end of Level 1; Level 2 is reached only past it.       *)
VerifyLevel1(s) ==
    LET r == Level1Report(copy, Trust, s)
    IN  /\ stage = "held"
        /\ specs' = s
        /\ report' = r
        /\ stage' = IF Level1Passed(r) THEN "level2" ELSE "verified"
        /\ UNCHANGED <<issuance, authority, copy, faults, resigns, answer, opened>>

(* The authority answers with the constraints it holds now ...             *)
VerifyLevel2 ==
    LET intentRef == copy.intent.intent_ref
    IN  /\ stage = "level2" /\ intentRef \in IntentRefs
        /\ report' = [report EXCEPT !.Intent =
                VerifyIntent(copy, ConstraintsHashOf(version[intentRef]))]
        /\ answer' = version[intentRef]
        /\ stage' = "verified"
        /\ UNCHANGED <<issuance, authority, copy, faults, resigns, specs, opened>>

(* ... or does not answer, or there is none to ask.                        *)
Level2Unreachable ==
    /\ stage = "level2"
    /\ report' = [report EXCEPT !.Intent = VerifyIntent(copy, Nil)]
    /\ stage' = "verified"
    /\ UNCHANGED <<issuance, authority, copy, faults, resigns, specs, answer,
                   opened>>

Open(priv, s) ==
    /\ stage \in {"held", "verified"}
    /\ opened' = By(priv, OpenPackage(copy, priv, Trust, s))
    /\ UNCHANGED <<issuance, authority, transit, specs, report, answer>>

(* Mutant: the report outlives the copy it is about. *)
DiscardKeepingReport ==
    /\ stage \in {"held", "verified"}
    /\ copy' = Nil /\ stage' = "none" /\ faults' = 0 /\ resigns' = 0
    /\ specs' = <<>> /\ opened' = NotOpened
    /\ UNCHANGED <<issuance, authority, report, answer>>

Discard ==
    /\ stage \in {"held", "verified"}
    /\ copy' = Nil /\ stage' = "none" /\ faults' = 0 /\ resigns' = 0
    /\ specs' = <<>> /\ report' = EmptyReport /\ answer' = Nil
    /\ opened' = NotOpened
    /\ UNCHANGED <<issuance, authority>>

Next ==
    \/ \E c \in Calls, r \in Requests, k \in Kids : Issue(c, r, k)
    \/ \E r \in IntentRefs, v \in Versions : Amend(r, v)
    \/ \E c \in Calls : Send(c)
    \/ Damage
    \/ \E k \in TrustedKids : Resign(k)
    \/ Receive
    \/ \E s \in SpecLists : VerifyLevel1(s)
    \/ VerifyLevel2
    \/ Level2Unreachable
    \/ \E priv \in PrivateKeys, s \in SpecLists : Open(priv, s)
    \/ Discard

Spec == Init /\ [][Next]_vars

----------------------------------------------------------------------------
(* Properties                                                              *)

(* Type invariant: the stages, the counters and what each stage implies    *)
(* about the copy and the report. *)
TypeOK ==
    /\ DOMAIN issued = Calls /\ DOMAIN requested = Calls
    /\ \A c \in Calls : issued[c] # Nil => requested[c] \in Requests
    /\ version \in [IntentRefs -> Versions]
    /\ past \in [IntentRefs -> SUBSET Versions]
    /\ \A r \in IntentRefs : version[r] \in past[r]
    /\ amends \in 0..MaxAmends
    /\ stage \in {"none", "transit", "held", "level2", "verified"}
    /\ faults \in 0..MaxFaults /\ resigns \in 0..MaxResigns
    /\ stage = "none" => copy = Nil
    /\ DOMAIN report = DOMAIN EmptyReport
    /\ answer \in Versions \cup {Nil}
    /\ (answer # Nil) <=> report.Intent.Evaluated
    /\ stage \in {"none", "transit", "held"} => report = EmptyReport

(* The inductive invariant behind the properties below.  Packages are as   *)
(* Issuance makes them, under versions the authority has had.              *)
IssuedInv ==
    \A c \in Calls :
        issued[c] # Nil =>
            \E w, v \in past[requested[c].intent_ref], k \in Kids :
                /\ Sealing!ValidRequest(requested[c])
                /\ Permits(w, requested[c].projection)
                /\ issued[c] = Sealing!CompletePackage(c, requested[c], v, k)

AuthorityInv ==
    amends = 0 => \A r \in IntentRefs : past[r] = {version[r]}

PackageFields ==
    Range(RequiredSignedFields) \cup {"segments", "signature"}

(* What no damage changes: the form of the sections, and that every field  *)
(* of a segment is garbage or that field of some segment ever sealed.      *)
ManifestKept(m) ==
    /\ DOMAIN m = {"segment_order", "aad_context", "segments"}
    /\ m.segment_order \in Seq(UNION {AudienceNames(r) : r \in Requests})
    /\ IsFiniteSet(DOMAIN m.segments)

FieldKept(f, x) == x \in {Undecodable} \cup EverSealed(f)

SegmentsKept(segments) ==
    \A a \in DOMAIN segments :
        /\ DOMAIN segments[a] = SealedFields
        /\ \A f \in SealedFields : FieldKept(f, segments[a][f])

SignatureKept(signature) ==
    /\ DOMAIN signature = {"signed_fields", "value"}
    /\ signature.signed_fields \in Seq(PackageFields)

(* Without the issuer's key no signature is made.                          *)
ValueKept(signature) ==
    signature.value = Undecodable
        \/ \E q \in Packages : signature.value = q.signature.value

Kept(p) ==
    /\ DOMAIN p = PackageFields
    /\ ManifestKept(p.manifest)
    /\ SegmentsKept(p.segments)
    /\ SignatureKept(p.signature)
    /\ resigns = 0 => ValueKept(p.signature)

CopyInv == stage # "none" => Kept(copy)

(* The report and the outcome of an Open are about the copy that is held.  *)
ReportInv ==
    /\ stage \in {"level2", "verified"} =>
            (Level1Passed(report) <=> Level1Passed(Level1Report(copy, Trust, specs)))
    /\ stage = "level2" => Level1Passed(report) /\ answer = Nil
    /\ stage = "verified" /\ report.Intent.Evaluated =>
            report.Intent = VerifyIntent(copy, ConstraintsHashOf(answer))

OpenInv ==
    /\ stage \in {"none", "transit"} => opened = NotOpened
    /\ opened.err = Nil =>
            \E s \in SpecLists :
                opened = By(opened.key, OpenPackage(copy, opened.key, Trust, s))

CustodyInv ==
    /\ TypeOK /\ IssuedInv /\ AuthorityInv
    /\ CopyInv /\ ReportInv /\ OpenInv

LettersOf(c) ==
    {[package   |-> PackageID(c),
      audience  |-> requested[c].audiences[i].name,
      key       |-> requested[c].audiences[i].key,
      plaintext |-> requested[c].segments[requested[c].audiences[i].name]] :
        i \in DOMAIN requested[c].audiences}

OpenedLetter ==
    IF opened.err # Nil THEN Nil
    ELSE [package   |-> copy.package_id,
          audience  |-> opened.audience,
          key       |-> PublicKey(opened.key),
          plaintext |-> opened.plaintext]

Abstract ==
    INSTANCE Delivery WITH
        Nobody <- Nil,
        sealed <- UNION {LettersOf(c) : c \in {d \in Calls : issued[d] # Nil}},
        opened <- OpenedLetter

(* Whatever happened to the copy on its way, Open reveals exactly the text *)
(* an issuer addressed, in the package of that id, to the audience of that *)
(* name and to the key that opened it, or nothing: no splice of segments,  *)
(* sections or fields between packages and no loss moves a text.           *)
OpenDeliversOnlyLetters == Abstract!Spec

AsIssued(p, q) ==
    /\ \A f \in Range(RequiredSignedFields) : p[f] = q[f]
    /\ \A a \in DOMAIN q.segments :
           /\ a \in DOMAIN p.segments
           /\ p.segments[a].ciphertext = q.segments[a].ciphertext
           /\ p.segments[a].tag = q.segments[a].tag

(* A keyless verifier's Level 1: a copy passes only if every signed        *)
(* section and every declared ciphertext is the issuer's, all of them of   *)
(* one and the same package, by an issuer key the verifier trusts.         *)
VerifiedIsAsIssued ==
    stage \in {"level2", "verified"} /\ Level1Passed(report) /\ resigns = 0 =>
        \E c \in Calls :
            /\ issued[c] # Nil /\ AsIssued(copy, issued[c])
            /\ issued[c].issuer.kid \in TrustedKids

(* Report.OK means bound to a live authorization: the authority answered,  *)
(* with the very constraints the package commits to, for the intent_ref of *)
(* the sealed request; and they permit its execution if they never changed.*)
OKMeansAuthorized ==
    stage = "verified" /\ OK(report) =>
        /\ answer # Nil
        /\ copy.intent.constraints_hash = ConstraintsHashOf(answer)
        /\ resigns = 0 =>
            \E c \in Calls :
                /\ issued[c] # Nil /\ copy.package_id = PackageID(c)
                /\ copy.intent.intent_ref = requested[c].intent_ref
                /\ amends = 0 => Permits(answer, requested[c].projection)

(* Whoever signed it, and however inconsistent: what Open reveals from a   *)
(* copy whose report is OK is covered, through the root recomputed from    *)
(* the manifest, by the commitment to the authority's own answer.          *)
OKCommitsToOpenedText ==
    stage = "verified" /\ OK(report) /\ opened.err = Nil =>
        LET order  == copy.manifest.segment_order
            hashes == [PlainHashes(copy) EXCEPT
                        ![opened.audience] = H(JCS(opened.plaintext))]
        IN  /\ opened.audience \in Range(order)
            /\ copy.bindings.intent_commitment =
                    IntentCommitment(copy.intent.intent_ref,
                                     ConstraintsHashOf(answer),
                                     SegmentsRoot(order, hashes))

(* Verification does not refuse what is in order: an intact copy, by a     *)
(* trusted key, with the bindings it was sealed with or none, passes Level *)
(* 1, and is OK whenever the authority answers with what was committed to. *)
IntactCopyVerifies ==
    \A c \in Calls :
        /\ stage = "verified" /\ issued[c] # Nil /\ copy = issued[c]
        /\ copy.issuer.kid \in TrustedKids
        /\ specs \in {<<>>, requested[c].specs}
        => /\ Level1Passed(report)
           /\ OK(report) <=>
                /\ answer # Nil
                /\ copy.intent.constraints_hash = ConstraintsHashOf(answer)

(* verify.go: past the structural parse SegmentsRoot cannot fail, so the   *)
(* report's SegmentsRoot is about the value and never about the shape, and *)
(* every declared audience has the two entries Verify goes on to read.     *)
RootComputableAfterParse ==
    copy # Nil /\ ParsePackage(copy) = FaultNone =>
        /\ SameAudiences(copy.manifest.segment_order, PlainHashes(copy))
        /\ Range(copy.manifest.segment_order)
                = DOMAIN copy.manifest.segments
        /\ Range(copy.manifest.segment_order) \subseteq DOMAIN copy.segments

(* verify.go on parsePackage: "exactly one manifest entry and one sealed   *)
(* segment per declared audience - no fewer, no more, no duplicate".       *)
ExactlyTheDeclaredSegments ==
    copy # Nil /\ ParsePackage(copy) = FaultNone =>
        DOMAIN copy.segments = Range(copy.manifest.segment_order)

============================================================================
