------------------------------- MODULE MCSeal -------------------------------
(***************************************************************************)
(* Small instances of Seal: two concurrent calls, two audiences, and one   *)
(* request for each way Seal treats a request.                             *)
(***************************************************************************)
EXTENDS Seal, TLC

CONSTANTS user, merchant,           \* audience names
          userKey, merchantKey, strangerKey,
          ref,                      \* the one intent_ref
          v1, v2,                   \* versions of its constraints
          k1, k2                    \* issuer kids

MCPrivateKeys == {userKey, merchantKey, strangerKey}
MCIntentRefs  == {ref}
MCVersions    == {v1, v2}
MCKids        == {k1, k2}
OneKid        == {k1}

(* The two versions permit different executions, none permits both.        *)
MCPermits(v, projection) == projection = v

Aud(name, key) == [name |-> name, key |-> PublicKey(key)]

Both == <<Aud(user, userKey), Aud(merchant, merchantKey)>>

Texts == (user :> "identity") @@ (merchant :> "cart")

Good ==
    [audiences |-> Both, segments |-> Texts,
     segment_order |-> <<merchant, user>>,
     intent_ref |-> ref, projection |-> v1, issuer |-> "shop",
     issued_at |-> "now", tenant_id |-> "t", environment |-> "prod",
     profile |-> "checkout",
     specs |-> <<[name |-> "checkout_hash", commits |-> "hashes",
                  reads |-> {merchant}],
                 [name |-> "transaction_id", commits |-> "hashes",
                  reads |-> {user, merchant}],
                 [name |-> "conditional_transaction_id", commits |-> "intent",
                  reads |-> {}]>>]

Solo ==
    [Good EXCEPT !.audiences = <<Aud(user, userKey)>>,
                 !.segment_order = <<user>>,
                 !.projection = v2,
                 !.specs = <<>>]

SharedKey     == [Good EXCEPT !.audiences = <<Aud(user, userKey),
                                              Aud(merchant, userKey)>>]
NoAudience    == [Good EXCEPT !.audiences = <<>>]
DuplicateName == [Good EXCEPT !.audiences = <<Aud(user, userKey),
                                              Aud(user, merchantKey)>>]
NoPlaintext   == [Good EXCEPT !.segments = user :> "identity"]
ShortOrder    == [Solo EXCEPT !.segment_order = <<>>]
RepeatedOrder == [Good EXCEPT !.segment_order = <<user, user>>]
LongOrder     == [Solo EXCEPT !.segment_order = <<user, merchant>>]
UnknownRead   == [Solo EXCEPT !.specs = <<[name |-> "transaction_id",
                                           commits |-> "hashes",
                                           reads |-> {user, merchant}]>>]
CoreName      == [Solo EXCEPT !.specs = <<[name |-> "segments_root",
                                           commits |-> "hashes",
                                           reads |-> {user}]>>]

AllRequests == {Good, Solo, SharedKey, NoAudience, DuplicateName, NoPlaintext,
                ShortOrder, RepeatedOrder, LongOrder, UnknownRead, CoreName}

============================================================================
