---------------------------- MODULE VaultSigner ----------------------------
(***************************************************************************)
(* The Vault Transit signer (internal/adapters/signer/vault) inside the    *)
(* process that constructs it (cmd/chainbind-api): the key version is      *)
(* pinned once, at start, while Vault's operator rotates the key, trims    *)
(* old versions and while Vault may ignore the version it is asked for.    *)
(*                                                                         *)
(* A key is its version number; a kid "{name}:vN" is its N.  Seal's two    *)
(* questions to the signer are the steps of a call; a call whose process   *)
(* is gone has failed.                                                     *)
(***************************************************************************)
EXTENDS Naturals

CONSTANTS
    Calls,          \* Seal calls that reach the signer, each once
    Nil,
    MaxVersion,     \* how often the key may be rotated
    MaxStarts       \* how often the process may be started

ASSUME BoundsAssumption == MaxVersion \in Nat \ {0} /\ MaxStarts \in Nat

ASSUME NilAssumption ==
    Nil \notin Nat /\ \A v, w \in 1..MaxVersion : Nil # [kid |-> v, key |-> w]

VARIABLES
    latest, oldest, \* Vault: the versions it can sign with are oldest..latest
    metadata,       \* the answer to transit/keys on its way to New, or Nil
    process,        \* "down", "starting" or "up"
    version, pub,   \* the Signer's pinned version and its public key
    starts,
    pc,             \* pc[c]: "idle", "sign", "reply", "signed" or "failed"
    kid,            \* kid[c]: what Kid answered, which the view commits to
    reply,          \* reply[c]: Vault's answer to transit/sign
    signature,      \* signature[c]: what Sign returned, with the kid
    signedIn        \* history: the start of the process that signed c

vault  == <<latest, oldest>>
signer == <<process, version, pub, starts>>
calls  == <<pc, kid, reply, signature, signedIn>>
vars   == <<vault, metadata, signer, calls>>

Versions == 1..MaxVersion

NoReply == [label |-> Nil, key |-> Nil]

Init ==
    /\ latest \in Versions /\ oldest = 1
    /\ metadata = Nil
    /\ process = "down" /\ version = Nil /\ pub = Nil /\ starts = 0
    /\ pc = [c \in Calls |-> "idle"]
    /\ kid = [c \in Calls |-> Nil]
    /\ reply = [c \in Calls |-> NoReply]
    /\ signature = [c \in Calls |-> Nil]
    /\ signedIn = [c \in Calls |-> 0]

----------------------------------------------------------------------------
(* Vault                                                                   *)

Rotate ==
    /\ latest < MaxVersion /\ latest' = latest + 1
    /\ UNCHANGED <<oldest, metadata, signer, calls>>

(* min_encryption_version is raised: older versions sign no more.          *)
Trim ==
    /\ oldest < latest /\ oldest' = oldest + 1
    /\ UNCHANGED <<latest, metadata, signer, calls>>

(* Vault composes the key metadata of its latest version ...               *)
DescribeKey ==
    /\ process = "starting" /\ metadata = Nil
    /\ metadata' = latest
    /\ UNCHANGED <<vault, signer, calls>>

(* ... and signs: with the version asked for if it still can, or with its  *)
(* latest in spite of the request.  It labels a signature truthfully.      *)
VaultSigns(c) ==
    /\ pc[c] = "sign"
    /\ \E v \in {version, latest} :
           /\ v \in oldest..latest
           /\ reply' = [reply EXCEPT ![c] = [label |-> v, key |-> v]]
    /\ pc' = [pc EXCEPT ![c] = "reply"]
    /\ UNCHANGED <<vault, metadata, signer, kid, signature, signedIn>>

----------------------------------------------------------------------------
(* The process and its Signer                                              *)

StartProcess ==
    /\ process = "down" /\ starts < MaxStarts
    /\ process' = "starting" /\ starts' = starts + 1
    /\ UNCHANGED <<vault, metadata, version, pub, calls>>

(* Mutant: the public key comes from an answer of its own. *)
NewFetchingTwice ==
    /\ process = "starting" /\ metadata # Nil
    /\ version' = metadata /\ pub' = latest
    /\ process' = "up" /\ metadata' = Nil
    /\ UNCHANGED <<vault, starts, calls>>

(* Mutant: any version Vault lists may be the one pinned. *)
NewPinningAny ==
    /\ process = "starting" /\ metadata # Nil
    /\ version' \in oldest..metadata /\ pub' = version'
    /\ process' = "up" /\ metadata' = Nil
    /\ UNCHANGED <<vault, starts, calls>>

(* New pins the version and takes the public key of one and the same       *)
(* answer; run then reads Kid and PublicKey off the Signer.                *)
New ==
    /\ process = "starting" /\ metadata # Nil
    /\ version' = metadata /\ pub' = metadata
    /\ process' = "up" /\ metadata' = Nil
    /\ UNCHANGED <<vault, starts, calls>>

(* New fails, or the process dies; a new process may be started.           *)
Crash ==
    /\ process # "down"
    /\ process' = "down" /\ version' = Nil /\ pub' = Nil /\ metadata' = Nil
    /\ pc' = [c \in Calls |-> IF pc[c] \in {"idle", "signed"} THEN pc[c] ELSE "failed"]
    /\ kid' = [c \in Calls |-> IF pc[c] = "signed" THEN kid[c] ELSE Nil]
    /\ reply' = [c \in Calls |-> NoReply]
    /\ UNCHANGED <<vault, starts, signature, signedIn>>

(* Kid: from the pinned state, without a call to Vault.                    *)
Kid(c) ==
    /\ process = "up" /\ pc[c] = "idle"
    /\ kid' = [kid EXCEPT ![c] = version]
    /\ pc' = [pc EXCEPT ![c] = "sign"]
    /\ UNCHANGED <<vault, metadata, signer, reply, signature, signedIn>>

(* Mutant: whatever Vault signed with is taken. *)
SignUnlabelled(c) ==
    /\ pc[c] = "reply"
    /\ signature' = [signature EXCEPT ![c] = [kid |-> kid[c], key |-> reply[c].key]]
    /\ signedIn' = [signedIn EXCEPT ![c] = starts]
    /\ pc' = [pc EXCEPT ![c] = "signed"]
    /\ reply' = [reply EXCEPT ![c] = NoReply]
    /\ UNCHANGED <<vault, metadata, signer, kid>>

(* Sign checks the label of Vault's answer against the pinned version.     *)
Sign(c) ==
    /\ pc[c] = "reply" /\ reply[c].label = version
    /\ signature' = [signature EXCEPT ![c] = [kid |-> kid[c], key |-> reply[c].key]]
    /\ signedIn' = [signedIn EXCEPT ![c] = starts]
    /\ pc' = [pc EXCEPT ![c] = "signed"]
    /\ reply' = [reply EXCEPT ![c] = NoReply]
    /\ UNCHANGED <<vault, metadata, signer, kid>>

(* Any other answer, or none before the deadline, is an error.             *)
SignFails(c) ==
    /\ pc[c] \in {"sign", "reply"}
    /\ pc' = [pc EXCEPT ![c] = "failed"]
    /\ reply' = [reply EXCEPT ![c] = NoReply]
    /\ UNCHANGED <<vault, metadata, signer, kid, signature, signedIn>>

Next ==
    \/ Rotate \/ Trim \/ DescribeKey
    \/ StartProcess \/ New \/ Crash
    \/ \E c \in Calls : Kid(c) \/ VaultSigns(c) \/ Sign(c) \/ SignFails(c)

Spec == Init /\ [][Next]_vars

----------------------------------------------------------------------------
(* Properties                                                              *)

SigningCalls == {"sign", "reply"}

(* Type invariant, with what the stages of process and calls imply.        *)
TypeOK ==
    /\ latest \in Versions /\ oldest \in 1..latest
    /\ metadata \in Versions \cup {Nil}
    /\ process \in {"down", "starting", "up"}
    /\ version \in Versions \cup {Nil} /\ pub \in Versions \cup {Nil}
    /\ (process = "up") <=> (version # Nil)
    /\ process = "down" => metadata = Nil
    /\ starts \in 0..MaxStarts
    /\ pc \in [Calls -> {"idle", "sign", "reply", "signed", "failed"}]
    /\ kid \in [Calls -> Versions \cup {Nil}]
    /\ reply \in [Calls -> [label : Versions \cup {Nil}, key : Versions \cup {Nil}]]
    /\ signature \in [Calls -> [kid : Versions, key : Versions] \cup {Nil}]
    /\ signedIn \in [Calls -> 0..MaxStarts]

(* The shell's resolver (run in cmd/chainbind-api): one kid, one key, both *)
(* taken from the signer at start.                                         *)
IssuerKey(k) == IF k = version THEN pub ELSE Nil

(* A shell refuses a package of its issuer only if an earlier process      *)
(* signed it under an older version: its own it verifies for as long as it *)
(* lives, whatever has become of the key in Vault, and a restart without a *)
(* rotation loses nothing.                                                 *)
RefusesOnlyOlderPackages ==
    \A c \in Calls :
        /\ process = "up" /\ signature[c] # Nil
        /\ IssuerKey(signature[c].kid) # signature[c].key
        => signedIn[c] < starts /\ signature[c].kid < version

(* The inductive invariant: what a call and the pinned state have to do    *)
(* with each other.                                                        *)
VaultInv ==
    /\ TypeOK
    /\ version = pub
    /\ \A c \in Calls :
           /\ pc[c] \in SigningCalls => process = "up" /\ kid[c] = version
           /\ pc[c] = "idle" => kid[c] = Nil
           /\ (pc[c] = "signed") <=> (signature[c] # Nil)
           /\ reply[c].label = reply[c].key
           /\ signedIn[c] <= starts
           /\ process = "starting" => signedIn[c] < starts
           /\ signature[c] # Nil =>
                  /\ signature[c].kid = kid[c]
                  /\ signature[c].key = signature[c].kid
                  /\ process = "up" /\ signedIn[c] = starts =>
                         signature[c].kid = version

Port == INSTANCE SignerPort WITH
    SigningKeys <- Versions,
    key   <- version,
    asked <- kid

(* The signer keeps the port's promise across rotations, trimmed versions, *)
(* restarts and a Vault that ignores key_version: what it signs was signed *)
(* by the very key it had named.                                           *)
KeepsSignerPort == Port!Spec

============================================================================
