------------------------------ MODULE Issuance ------------------------------
(***************************************************************************)
(* What chainbind.Seal promises, without how: a Seal call issues at most   *)
(* one package, all of it at once, for a request that is complete and      *)
(* consistent, that the intent authority allowed, signed by the issuer key *)
(* it names.  Seal is shown to implement this module; Custody takes it as  *)
(* its model of Seal.                                                      *)
(***************************************************************************)
EXTENDS Package

CONSTANTS Calls, Requests, Versions, Permits(_, _), Kids

VARIABLE issued         \* issued[c]: the package call c returned, or Nil

(* A request Seal can serve: every condition it tests on the way, early    *)
(* (audiences) or late (segment order, bindings, signing view).            *)
ValidRequest(r) ==
    /\ r.audiences # <<>>
    /\ CheckAudiences(r)
    /\ IsInjective(r.segment_order)
    /\ Range(r.segment_order) = AudienceNames(r)
    /\ \A i \in DOMAIN r.specs :
           \/ r.specs[i].commits = "intent"
           \/ r.specs[i].reads \subseteq AudienceNames(r)
    /\ SpecNames(r.specs) \cap CoreBindingNames = {}

AudienceNamed(r, a) ==
    CHOOSE aud \in Range(r.audiences) : aud.name = a

AllEntries(c, r) ==
    [a \in AudienceNames(r) |->
        SegmentEntry(AADContext(PackageID(c), r), AudienceNamed(r, a),
                     r.segments[a], NewDEK(c, a), Nonce(c, a), Ephemeral(c, a))]

CompletePackage(c, r, v, k) ==
    SignedPackage(UnsignedPackage(PackageID(c), r, ConstraintsHashOf(v),
                                  AllEntries(c, r), k),
                  IssuerKey(k))

Init == issued = [c \in Calls |-> Nil]

(* Check was answered under constraints w, ConstraintsHash under v.        *)
IssueUnder(c, r, w, v, k) ==
    /\ issued[c] = Nil
    /\ ValidRequest(r)
    /\ Permits(w, r.projection)
    /\ issued' = [issued EXCEPT ![c] = CompletePackage(c, r, v, k)]

Next ==
    \E c \in Calls, r \in Requests, w, v \in Versions, k \in Kids :
        IssueUnder(c, r, w, v, k)

Spec == Init /\ [][Next]_issued

============================================================================
