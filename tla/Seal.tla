-------------------------------- MODULE Seal --------------------------------
(***************************************************************************)
(* chainbind.Seal (pkg/chainbind/seal.go), called by concurrent requests.  *)
(*                                                                         *)
(* Each call runs on a goroutine of its own and shares with the others the *)
(* intent authority and the signer, both behind ports.  A step of a call   *)
(* ends at each call of a port, and at the birth and the death of each     *)
(* data key.  Every port may answer with an error at any time (a timeout,  *)
(* a reset connection, an outage), and so may the system's entropy source. *)
(*                                                                         *)
(* The authority's constraints behind an intent_ref are a version; Amend   *)
(* replaces them in place, which the IntentVerifier port forbids: it asks  *)
(* for an immutable snapshot.  A call is overtaken when its constraints    *)
(* are replaced between its two questions to the authority.  A restart     *)
(* ends the process: its calls are gone, and the new process may sign with *)
(* another key.                                                            *)
(***************************************************************************)
EXTENDS Package

CONSTANTS
    Calls,          \* identities of Seal calls, each used once
    Requests,       \* the requests a caller may submit
    IntentRefs,
    Versions,       \* of the constraints behind an intent_ref
    Permits(_, _),  \* Permits(v, projection): Check under version v allows it
    Kids,           \* names of issuer keys
    PrivateKeys,    \* recipients' keys: audiences name their public halves
    MaxAmends,
    MaxRestarts

ASSUME RequestsAssumption ==
    \A r \in Requests : /\ r.intent_ref \in IntentRefs
                        /\ r.audiences \in Seq(Range(r.audiences))

ASSUME ListsAssumption ==
    \A r \in Requests : /\ r.segment_order \in Seq(Range(r.segment_order))
                        /\ r.specs \in Seq(Range(r.specs))

(* Nil stands for what is not there: no text, key or error is Nil.         *)
ASSUME NilAssumption ==
    /\ \A r \in Requests : /\ Nil \notin Range(r.segments)
                           /\ \A c \in Calls, a \in AudienceNames(r) : NewDEK(c, a) # Nil
    /\ Nil \notin {"integrity_check_failed", "decryption_failed", "hash_mismatch"}

ASSUME BoundsAssumption == MaxAmends \in Nat /\ MaxRestarts \in Nat

VARIABLES
    pc,             \* pc[c]: where call c is in Seal
    req,            \* req[c]: its SealRequest
    constraintsHash,
    turn,           \* turn[c]: which of its audiences the loop is at
    entries,        \* entries[c]: the audiences sealed so far
    dek,            \* dek[c]: the data key in memory, Nil when there is none
    kid,            \* kid[c]: what the signer's Kid answered
    result,         \* result[c]: the *Package returned, Nil when none is
    version,        \* version[r]: the authority's constraints for r
    signingKid,     \* the key of the process's signer
    amends, restarts,
    allowedUnder,   \* history: the version under which Check allowed c
    overtaken       \* history: the calls an Amend came between Check and
                    \*          ConstraintsHash of

local == <<pc, req, constraintsHash, turn, entries, dek, kid, result, allowedUnder>>
env   == <<version, signingKid, amends, restarts, overtaken>>
vars  == <<local, env>>

Steps == {"idle", "check", "hash", "id", "dek", "wrap", "bind", "kid", "sign",
          "returned", "failed"}

InProgress(c) == pc[c] \notin {"idle", "returned", "failed"}

Init ==
    /\ pc = [c \in Calls |-> "idle"]
    /\ req = [c \in Calls |-> Nil]
    /\ constraintsHash = [c \in Calls |-> Nil]
    /\ turn = [c \in Calls |-> 1]
    /\ entries = [c \in Calls |-> <<>>]
    /\ dek = [c \in Calls |-> Nil]
    /\ kid = [c \in Calls |-> Nil]
    /\ result = [c \in Calls |-> Nil]
    /\ allowedUnder = [c \in Calls |-> Nil]
    /\ version \in [IntentRefs -> Versions]
    /\ signingKid \in Kids
    /\ amends = 0
    /\ restarts = 0
    /\ overtaken = {}

(* Mutant: the key is zeroed on success only. *)
FailLeavingKey(c) ==
    /\ pc' = [pc EXCEPT ![c] = "failed"]
    /\ turn' = [turn EXCEPT ![c] = 1]
    /\ entries' = [entries EXCEPT ![c] = <<>>]
    /\ UNCHANGED <<req, constraintsHash, dek, kid, result, allowedUnder, env>>

(* Every error return: no package, and the deferred zero has run.          *)
Fail(c) ==
    /\ pc' = [pc EXCEPT ![c] = "failed"]
    /\ dek' = [dek EXCEPT ![c] = Nil]
    /\ turn' = [turn EXCEPT ![c] = 1]
    /\ entries' = [entries EXCEPT ![c] = <<>>]
    /\ UNCHANGED <<req, constraintsHash, kid, result, allowedUnder, env>>

Goto(c, step) == pc' = [pc EXCEPT ![c] = step]

(* The audience the loop is at: those before it have their entry.          *)
Current(c) == req[c].audiences[turn[c]]

(* Mutant: duplicate and missing audiences are let in. *)
SubmitUnchecked(c, r) ==
    /\ pc[c] = "idle"
    /\ req' = [req EXCEPT ![c] = r]
    /\ Goto(c, IF r.audiences # <<>> THEN "check" ELSE "failed")
    /\ UNCHANGED <<constraintsHash, turn, entries, dek, kid, result, allowedUnder, env>>

Submit(c, r) ==
    /\ pc[c] = "idle"
    /\ req' = [req EXCEPT ![c] = r]
    /\ Goto(c, IF r.audiences # <<>> /\ CheckAudiences(r) THEN "check"
                                                          ELSE "failed")
    /\ UNCHANGED <<constraintsHash, turn, entries, dek, kid, result, allowedUnder, env>>

(* Mutant: a denial is taken for an answer like any other. *)
CheckIgnoringDenial(c) ==
    /\ pc[c] = "check"
    /\ \/ Fail(c)
       \/ /\ Goto(c, "hash")
          /\ allowedUnder' = [allowedUnder EXCEPT ![c] =
                version[req[c].intent_ref]]
          /\ UNCHANGED <<req, constraintsHash, turn, entries, dek, kid, result, env>>

(* Mutant: an authority that does not answer is taken to allow. *)
CheckFailingOpen(c) ==
    /\ pc[c] = "check"
    /\ \/ Fail(c)
       \/ /\ Goto(c, "hash")
          /\ UNCHANGED <<req, constraintsHash, turn, entries, dek, kid, result,
                         allowedUnder, env>>

(* iv.Check: an error and a denial both end the call.                      *)
Check(c) ==
    LET v == version[req[c].intent_ref]
    IN  /\ pc[c] = "check"
        /\ \/ Fail(c)
           \/ /\ Permits(v, req[c].projection)
              /\ Goto(c, "hash")
              /\ allowedUnder' = [allowedUnder EXCEPT ![c] = v]
              /\ UNCHANGED <<req, constraintsHash, turn, entries, dek, kid, result, env>>

(* Mutant: a failed fetch starts the conversation over. *)
FetchConstraintsHashRetrying(c) ==
    /\ pc[c] = "hash"
    /\ Goto(c, "check") \/ Goto(c, "id")
    /\ constraintsHash' = [constraintsHash EXCEPT ![c] =
            ConstraintsHashOf(version[req[c].intent_ref])]
    /\ UNCHANGED <<req, turn, entries, dek, kid, result, allowedUnder, env>>

(* iv.ConstraintsHash: a second question, asked after Check was answered.  *)
FetchConstraintsHash(c) ==
    /\ pc[c] = "hash"
    /\ \/ Fail(c)
       \/ /\ constraintsHash' = [constraintsHash EXCEPT ![c] =
                ConstraintsHashOf(version[req[c].intent_ref])]
          /\ Goto(c, "id")
          /\ UNCHANGED <<req, turn, entries, dek, kid, result, allowedUnder, env>>

NewPackageID(c) ==
    /\ pc[c] = "id"
    /\ \/ Fail(c)
       \/ /\ Goto(c, "dek")
          /\ UNCHANGED <<req, constraintsHash, turn, entries, dek, kid, result,
                         allowedUnder, env>>

(* sealSegment draws the audience's data key ...                           *)
DrawDEK(c) ==
    /\ pc[c] = "dek"
    /\ \/ Fail(c)
       \/ /\ dek' = [dek EXCEPT ![c] = NewDEK(c, Current(c).name)]
          /\ Goto(c, "wrap")
          /\ UNCHANGED <<req, constraintsHash, turn, entries, kid, result,
                         allowedUnder, env>>

EntryFor(c, aud, key) ==
    SegmentEntry(AADContext(PackageID(c), req[c]), aud, req[c].segments[aud.name],
                 key, Nonce(c, aud.name), Ephemeral(c, aud.name))

(* ... encrypts, hashes and wraps with it, and zeroes it on the way out;   *)
(* Seal then records the audience and turns to the next.                   *)
SealSegment(c) ==
    LET aud == Current(c)
    IN  /\ pc[c] = "wrap"
        /\ \/ Fail(c)
           \/ /\ entries' = [entries EXCEPT ![c] =
                    Put(@, aud.name, EntryFor(c, aud, dek[c]))]
              /\ dek' = [dek EXCEPT ![c] = Nil]
              /\ turn' = [turn EXCEPT ![c] = @ + 1]
              /\ Goto(c, IF turn[c] = Len(req[c].audiences)
                         THEN "bind" ELSE "dek")
              /\ UNCHANGED <<req, constraintsHash, kid, result, allowedUnder, env>>

RootOf(c) == SegmentsRoot(req[c].segment_order, EntryPlainHashes(entries[c]))

ExtraOf(c) == ExtraBindings(req[c], constraintsHash[c], entries[c], RootOf(c))

(* Mutant: the root's failure is not looked at. *)
BindUnchecked(c) ==
    /\ pc[c] = "bind"
    /\ IF ExtraOf(c) = Nil
       THEN Fail(c)
       ELSE /\ Goto(c, "kid")
            /\ UNCHANGED <<req, constraintsHash, turn, entries, dek, kid, result,
                           allowedUnder, env>>

(* SegmentsRoot, IntentCommitment and ComputeBindings; the first and the   *)
(* last can find the request inconsistent, with every segment encrypted.   *)
Bind(c) ==
    /\ pc[c] = "bind"
    /\ IF RootOf(c) = Nil \/ ExtraOf(c) = Nil
       THEN Fail(c)
       ELSE /\ Goto(c, "kid")
            /\ UNCHANGED <<req, constraintsHash, turn, entries, dek, kid, result,
                           allowedUnder, env>>

PackageOf(c, k) ==
    UnsignedPackage(PackageID(c), req[c], constraintsHash[c], entries[c], k)

(* signer.Kid, then the signing view that commits to its answer.           *)
AskKid(c) ==
    /\ pc[c] = "kid"
    /\ \/ Fail(c)
       \/ /\ BuildSigningView(PackageOf(c, signingKid)) # Nil
          /\ kid' = [kid EXCEPT ![c] = signingKid]
          /\ Goto(c, "sign")
          /\ UNCHANGED <<req, constraintsHash, turn, entries, dek, result,
                         allowedUnder, env>>

(* signer.Sign, once, with the key Kid named.                              *)
AskSignature(c) ==
    /\ pc[c] = "sign"
    /\ \/ Fail(c)
       \/ /\ result' = [result EXCEPT ![c] =
                SignedPackage(PackageOf(c, kid[c]), IssuerKey(signingKid))]
          /\ Goto(c, "returned")
          /\ UNCHANGED <<req, constraintsHash, turn, entries, dek, kid,
                         allowedUnder, env>>

SealStep(c) ==
    \/ Check(c) \/ FetchConstraintsHash(c) \/ NewPackageID(c)
    \/ DrawDEK(c) \/ SealSegment(c) \/ Bind(c) \/ AskKid(c) \/ AskSignature(c)

----------------------------------------------------------------------------
(* The environment                                                         *)

Amend(r, v) ==
    /\ amends < MaxAmends
    /\ version' = [version EXCEPT ![r] = v]
    /\ amends' = amends + 1
    /\ overtaken' = overtaken \cup
           {c \in Calls : /\ pc[c] = "hash"
                          /\ req[c].intent_ref = r
                          /\ v # version[r]}
    /\ UNCHANGED <<local, signingKid, restarts>>

Restart(k) ==
    /\ restarts < MaxRestarts
    /\ restarts' = restarts + 1
    /\ signingKid' = k
    /\ pc' = [c \in Calls |-> IF InProgress(c) THEN "failed" ELSE pc[c]]
    /\ dek' = [c \in Calls |-> Nil]
    /\ turn' = [c \in Calls |-> IF InProgress(c) THEN 1 ELSE turn[c]]
    /\ entries' = [c \in Calls |-> IF InProgress(c) THEN <<>> ELSE entries[c]]
    /\ UNCHANGED <<req, constraintsHash, kid, result, allowedUnder, version, amends,
                   overtaken>>

Next ==
    \/ \E c \in Calls : SealStep(c)
    \/ \E c \in Calls, r \in Requests : Submit(c, r)
    \/ \E r \in IntentRefs, v \in Versions : Amend(r, v)
    \/ \E k \in Kids : Restart(k)

(* A goroutine inside Seal keeps running, and every port call it waits for *)
(* returns: the adapters bound each by a deadline.                         *)
Fairness == \A c \in Calls : WF_vars(SealStep(c))

Spec == Init /\ [][Next]_vars /\ Fairness

----------------------------------------------------------------------------
(* Properties                                                              *)

(* Type invariant of the call records and the environment. *)
TypeOK ==
    /\ pc \in [Calls -> Steps]
    /\ DOMAIN req = Calls
    /\ \A c \in Calls : pc[c] # "idle" => req[c] \in Requests
    /\ DOMAIN dek = Calls /\ DOMAIN entries = Calls /\ DOMAIN result = Calls
    /\ turn \in [Calls -> Nat \ {0}]
    /\ kid \in [Calls -> Kids \cup {Nil}]
    /\ constraintsHash \in
           [Calls -> {ConstraintsHashOf(v) : v \in Versions} \cup {Nil}]
    /\ allowedUnder \in [Calls -> Versions \cup {Nil}]
    /\ version \in [IntentRefs -> Versions]
    /\ signingKid \in Kids
    /\ amends \in 0..MaxAmends
    /\ restarts \in 0..MaxRestarts
    /\ overtaken \subseteq Calls

(* Seal asks the authority before any data key exists or any byte is       *)
(* encrypted: whatever fails and whatever restarts, a key, a ciphertext or *)
(* a package is the work of a call whose own request was allowed.          *)
NoKeyBeforeAuthorization ==
    \A c \in Calls :
        \/ dek[c] # Nil
        \/ DOMAIN entries[c] # {}
        \/ result[c] # Nil
        => /\ allowedUnder[c] \in Versions
           /\ Permits(allowedUnder[c], req[c].projection)

(* The deferred zero: a data key lives only while sealSegment works on its *)
(* audience, and is that audience's own; no return path leaves one behind. *)
NoKeyOutlivesItsSegment ==
    \A c \in Calls :
        dek[c] # Nil =>
            /\ pc[c] = "wrap"
            /\ dek[c] = NewDEK(c, Current(c).name)
            /\ Current(c).name \notin DOMAIN entries[c]

(* The inductive invariant behind the safety properties: what a call has   *)
(* established by the time it reaches a step.                              *)
Allowed == {"hash", "id", "dek", "wrap", "bind", "kid", "sign", "returned"}
Hashed  == Allowed \ {"hash"}
Sealing == Hashed \ {"id"}

AnswersInv(c) ==
    /\ pc[c] \in Allowed => /\ allowedUnder[c] \in Versions
                            /\ Permits(allowedUnder[c], req[c].projection)
    /\ pc[c] = "hash" /\ c \notin overtaken =>
           allowedUnder[c] = version[req[c].intent_ref]
    /\ pc[c] \in Hashed /\ c \notin overtaken =>
           constraintsHash[c] = ConstraintsHashOf(allowedUnder[c])

(* turn and entries say the same thing about the loop over the audiences.  *)
LoopInv(c) ==
    /\ pc[c] \notin {"idle", "failed"} =>
           req[c].audiences # <<>> /\ CheckAudiences(req[c])
    /\ pc[c] \notin Sealing => turn[c] = 1
    /\ pc[c] \in {"dek", "wrap"} => turn[c] \in DOMAIN req[c].audiences
    /\ DOMAIN entries[c] = {req[c].audiences[i].name : i \in 1..(turn[c] - 1)}

KeyInv(c) ==
    dek[c] # Nil => pc[c] = "wrap" /\ dek[c] = NewDEK(c, Current(c).name)

ResultInv(c) ==
    result[c] # Nil =>
        /\ pc[c] = "returned"
        /\ result[c].intent.constraints_hash = constraintsHash[c]

CallInv(c) == AnswersInv(c) /\ LoopInv(c) /\ KeyInv(c) /\ ResultInv(c)

CallsInv == TypeOK /\ \A c \in Calls : CallInv(c)

(* What a call has built: its entries are whole and of its own making, and *)
(* what a step has tested or asked for still holds at the steps after it.  *)
Bound  == {"kid", "sign", "returned"}
Signed == {"sign", "returned"}

EntriesInv(c) ==
    /\ entries[c] = [a \in DOMAIN entries[c] |-> entries[c][a]]
    /\ \A i \in 1..(turn[c] - 1) :
           LET aud == req[c].audiences[i]
           IN  entries[c][aud.name] = EntryFor(c, aud, NewDEK(c, aud.name))
    /\ pc[c] = "wrap" => dek[c] = NewDEK(c, Current(c).name)
    /\ pc[c] \in Bound \cup {"bind"} => turn[c] = Len(req[c].audiences) + 1

BoundInv(c) ==
    /\ pc[c] \in Hashed => \E v \in Versions : constraintsHash[c] = ConstraintsHashOf(v)
    /\ pc[c] \in Bound => RootOf(c) # Nil /\ ExtraOf(c) # Nil
    /\ pc[c] \in Signed =>
           kid[c] \in Kids /\ BuildSigningView(PackageOf(c, kid[c])) # Nil
    /\ pc[c] = "sign" => kid[c] = signingKid
    /\ pc[c] = "returned" =>
           result[c] = SignedPackage(PackageOf(c, kid[c]), IssuerKey(kid[c]))

WorkInv(c) == EntriesInv(c) /\ BoundInv(c)

SealInv == CallsInv /\ \A c \in Calls : WorkInv(c)

(* The issuer's keys, as a verifier that trusts all of them knows them.    *)
Trust ==
    [id \in {r.issuer : r \in Requests} \X Kids |-> IssuerKey(id[2])]

(* Seal and Verify agree: every package Seal returns, of whatever request, *)
(* by whichever key of the issuer, passes Level 1 with the bindings it was *)
(* sealed with.                                                            *)
IssuedPackageVerifies ==
    \A c \in Calls :
        pc[c] = "returned" =>
            Level1Passed(Level1Report(result[c], Trust, req[c].specs))

KeysDistinct(r) ==
    \A i, j \in DOMAIN r.audiences :
        r.audiences[i].key = r.audiences[j].key => i = j

OpensAs(c, priv) == OpenPackage(result[c], priv, Trust, req[c].specs)

(* Each audience of an issued package opens its segment, and only its own  *)
(* (README: "each openable by exactly one recipient"), whatever its key.   *)
EverySegmentOpens ==
    \A c \in Calls :
        pc[c] = "returned" =>
            \A i \in DOMAIN req[c].audiences, priv \in PrivateKeys :
                LET aud == req[c].audiences[i]
                IN  aud.key = PublicKey(priv) =>
                        OpensAs(c, priv) =
                            [err       |-> Nil,
                             audience  |-> aud.name,
                             plaintext |-> req[c].segments[aud.name]]

(* The same for requests whose audiences hold keys of their own; a key no  *)
(* audience holds opens nothing.                                           *)
RecipientsOpenTheirOwn ==
    \A c \in Calls :
        pc[c] = "returned" /\ KeysDistinct(req[c]) =>
            \A priv \in PrivateKeys :
                LET mine == {i \in DOMAIN req[c].audiences :
                                req[c].audiences[i].key = PublicKey(priv)}
                    name == req[c].audiences[CHOOSE i \in mine : TRUE].name
                IN  IF mine = {} THEN OpensAs(c, priv).err # Nil
                    ELSE OpensAs(c, priv) =
                            [err |-> Nil, audience |-> name,
                             plaintext |-> req[c].segments[name]]

(* The package commits to constraints that permit the execution: Check and *)
(* ConstraintsHash, two questions, were answered about the same version,   *)
(* unless the authority broke the port's promise of an immutable snapshot  *)
(* for this very call between the two; earlier and later amendments, and   *)
(* those of other calls, do no harm.                                       *)
CommitsToPermittedConstraints ==
    \A c \in Calls :
        result[c] # Nil /\ c \notin overtaken =>
            \E v \in Versions :
                /\ result[c].intent.constraints_hash = ConstraintsHashOf(v)
                /\ Permits(v, req[c].projection)

(* The abstract view of Seal: a call does nothing visible, or issues one   *)
(* complete package at once.                                               *)
Abstract == INSTANCE Issuance WITH issued <- result

SealIssuesOrDoesNothing == Abstract!Spec

(* Whatever the ports answer, every call submitted returns. *)
EveryCallReturns ==
    \A c \in Calls : InProgress(c) ~> pc[c] \in {"returned", "failed"}

============================================================================
