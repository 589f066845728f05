------------------------------- MODULE Terms -------------------------------
(***************************************************************************)
(* The cryptographic vocabulary of pkg/chainbind, as free terms: two terms *)
(* are equal exactly when they were built the same way from equal parts.   *)
(* This is the usual symbolic idealisation: a hash has no collision, an    *)
(* AEAD opens only under the key, nonce and additional data it was sealed  *)
(* with, a signature verifies only under the key that made it.             *)
(*                                                                         *)
(* Every term is a tuple whose first component names its constructor.      *)
(***************************************************************************)
EXTENDS Naturals, Sequences

CONSTANT Nil        \* Go's nil: an absent key, a failed call, no package

(* A wire field that base64.RawURLEncoding.DecodeString rejects. *)
Undecodable == <<"undecodable">>

Decodes(field) == field # Undecodable

(* canonical.go: the RFC 8785 form of a value.  Key order and layout do   *)
(* not survive it, which for abstract values means: equal values, equal   *)
(* bytes.  (A []byte is JSON-encoded as one base64 string: its inner JSON  *)
(* is not canonicalised, so the term of a plaintext is the term of its     *)
(* bytes.)                                                                 *)
JCS(value) == <<"jcs", value>>

H(bytes) == <<"sha256", bytes>>

(* aad.go: what AES-GCM authenticates besides the ciphertext. *)
AAD(ctx, segment, version) ==
    JCS([package_id   |-> ctx.package_id,
         segment      |-> segment,
         spec_version |-> version,
         tenant_id    |-> ctx.tenant_id,
         environment  |-> ctx.environment])

(* crypto.go: AES-256-GCM.  Decrypt answers Nil for ErrDecryptionFailed.   *)
Encrypt(dek, nonce, plaintext, aad) == <<"gcm", dek, nonce, plaintext, aad>>

Decrypt(dek, nonce, combined, aad) ==
    IF combined = <<"gcm", dek, nonce, combined[4], aad>>
    THEN combined[4]
    ELSE Nil

(* seal.go splits GCM's output into the wire's ciphertext and tag, open.go *)
(* and checkCipherHash put them back together.                             *)
Body(combined) == <<"body", combined>>
Tag(combined)  == <<"tag", combined>>

Join(body, tag) ==
    IF body = Body(tag[2]) THEN tag[2]
    ELSE <<"mixed", body, tag, Nil, Nil>>

(* The KeyWrapper port (ECDH-ES + A256KW).  A key pair is named by its     *)
(* private half.  Unwrap answers Nil when the unwrap's integrity check or  *)
(* the curve arithmetic fails.                                             *)
PublicKey(priv)  == <<"x25519", priv>>
Thumbprint(pub)  == <<"jkt", pub>>
EPK(ephemeral)   == <<"epk", ephemeral>>
Wrap(pub, ephemeral, dek) == <<"a256kw", pub, ephemeral, dek>>

Unwrap(priv, epk, wrapped) ==
    IF wrapped[2] = PublicKey(priv) /\ epk = EPK(wrapped[3])
    THEN wrapped[4]
    ELSE Nil

(* Ed25519 over the signing view. *)
Sign(key, view) == <<"ed25519", key, view>>

VerifyEd25519(key, view, sig) == sig = Sign(key, view)

============================================================================
