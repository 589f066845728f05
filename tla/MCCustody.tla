----------------------------- MODULE MCCustody -----------------------------
(***************************************************************************)
(* Small instances of Custody: two packages of one issuer, to audiences of *)
(* the same names, so that every part of one fits in the other.            *)
(***************************************************************************)
EXTENDS Custody

CONSTANTS user, merchant, userKey, merchantKey, strangerKey, ref, v1, v2, k1, k2

MCPrivateKeys == {userKey, merchantKey, strangerKey}
MCIntentRefs  == {ref}
MCVersions    == {v1, v2}
MCKids        == {k1, k2}
MCTrustedKids == {k1}
OneKid        == {k1}

MCPermits(v, projection) == projection \in {v, "always"}

Aud(name, key) == [name |-> name, key |-> PublicKey(key)]

CheckoutSpecs ==
    <<[name |-> "checkout_hash", commits |-> "hashes", reads |-> {merchant}],
      [name |-> "transaction_id", commits |-> "hashes",
       reads |-> {user, merchant}],
      [name |-> "conditional_transaction_id", commits |-> "intent",
       reads |-> {}]>>

First ==
    [audiences |-> <<Aud(user, userKey), Aud(merchant, merchantKey)>>,
     segments |-> (user :> "identity") @@ (merchant :> "cart"),
     segment_order |-> <<merchant, user>>,
     intent_ref |-> ref, projection |-> v1, issuer |-> "shop",
     issued_at |-> "now", tenant_id |-> "t", environment |-> "prod",
     profile |-> "checkout", specs |-> CheckoutSpecs]

(* Another text for the user, and only for the user.                       *)
Second ==
    [First EXCEPT !.audiences = <<Aud(user, userKey)>>,
                  !.segments = user :> "address",
                  !.segment_order = <<user>>,
                  !.projection = "always",
                  !.specs = <<>>]

MCRequests  == {First, Second}
MCSpecLists == {<<>>, CheckoutSpecs}
NoSpecs     == {<<>>}
MCReceivers == {userKey, merchantKey}

============================================================================
