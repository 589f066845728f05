------------------------------ MODULE KeyWrap -------------------------------
(***************************************************************************)
(* internal/adapters/keywrap/x25519: a data key wrapped to a recipient's   *)
(* public key and unwrapped with its private key, by way of a store that   *)
(* may damage it: key agreement, Concat KDF, and RFC 3394 round by round,  *)
(* as aesKeyWrap and aesKeyUnwrap loop over the registers.                 *)
(*                                                                         *)
(* AES, X25519 and SHA-256 are free terms: two outputs are equal only if   *)
(* their inputs are.  A half block is a term XORed with a mask of bits, so *)
(* that the XOR with a counter is exact.  A public key is named by its     *)
(* private half.                                                           *)
(***************************************************************************)
EXTENDS Integers, Sequences

CONSTANTS
    PrivateKeys,    \* X25519 private keys
    Sizes,          \* lengths of a data key, in bytes
    Width           \* bits of a counter: 64 in the code

ASSUME SizesAssumption == Sizes \subseteq Nat

VARIABLES
    op,             \* "idle", "wrap", "stored", "delivered", "unwrap", "ok", "failed"
    size,           \* the length of the data key
    recipient,      \* whom it is wrapped to
    key,            \* the private key it is unwrapped with
    kek,            \* the key-encryption key of the operation under way
    a, r,           \* the registers of RFC 3394
    j, i,           \* the loop counters of the round to be done
    was,            \* history: the registers after each of the wrap's rounds
    copy            \* what is stored: epk, wrapped blocks, odd bytes behind

vars == <<op, size, recipient, key, kek, a, r, j, i, was, copy>>

----------------------------------------------------------------------------
(* Terms                                                                   *)

Half(term) == [core |-> term, mask |-> {}]

Bits(t) == {b \in 0..(Width - 1) : (t \div 2^b) % 2 = 1}

xorCounter(h, t) == [core |-> h.core, mask |-> (h.mask \ Bits(t)) \cup (Bits(t) \ h.mask)]

Cipher(which, k, x, y) ==
    Half([kind |-> which, key |-> k, left |-> x, right |-> y])

Encrypt(k, x, y) == <<Cipher("first", k, x, y), Cipher("second", k, x, y)>>

(* A block that k did not encrypt decrypts to noise, and noise never to    *)
(* anything else.                                                          *)
Noise == Half([kind |-> "noise"])

Decrypt(k, x, y) ==
    IF x.core.kind = "first" /\ <<x, y>> = Encrypt(k, x.core.left, x.core.right)
    THEN <<x.core.left, x.core.right>>
    ELSE <<Noise, Noise>>

aesKeyWrapIV == Half([kind |-> "iv"])

(* A data key of m blocks.                                                 *)
DataKey(m) == [b \in 1..m |-> Half([kind |-> "data", block |-> b])]

Ephemeral == "ephemeral"
LowOrder  == "low order"        \* a point the agreement refuses

(* An ephemeral key is drawn anew and is nobody's.                         *)
ASSUME KeysAssumption == Ephemeral \notin PrivateKeys

ECDH(priv, pub) == {priv, pub}

(* One digest for every 256 bits asked for.                                *)
concatKDF(z, otherInfo, bits) ==
    [c \in 1..((bits + 255) \div 256) |-> <<c, z, otherInfo>>]

kekLenBits == 256

Kek(priv, pub) ==
    concatKDF(ECDH(priv, pub), <<"ECDH-ES+A256KW", kekLenBits>>, kekLenBits)

----------------------------------------------------------------------------
Init ==
    /\ op = "idle" /\ size = 0 /\ recipient = Ephemeral /\ key = Ephemeral
    /\ kek = <<>> /\ a = aesKeyWrapIV /\ r = <<>> /\ j = 0 /\ i = 1
    /\ was = <<>> /\ copy = <<>>

(* Wrap takes whole blocks, and at least one.                              *)
Wrap(pub, length) ==
    /\ op = "idle"
    /\ recipient' = pub /\ size' = length
    /\ IF pub = LowOrder \/ length = 0 \/ length % 8 # 0
       THEN op' = "failed" /\ UNCHANGED <<kek, r, was>>
       ELSE /\ op' = "wrap"
            /\ kek' = Kek(Ephemeral, pub)
            /\ r' = DataKey(length \div 8)
            /\ was' = [s \in 0..0 |-> <<a, r'>>]
    /\ UNCHANGED <<key, a, j, i, copy>>

n == Len(r)

(* Mutant: the counter starts again with every pass, in both directions. *)
counterOfBlock == i

counter == n * j + i

(* The inner loop of a wrap.                                               *)
WrapRound ==
    LET block == Encrypt(kek, a, r[i])
    IN  /\ op = "wrap" /\ j <= 5
        /\ a' = xorCounter(block[1], counter)
        /\ r' = [r EXCEPT ![i] = block[2]]
        /\ was' = [s \in 0..counter |-> IF s = counter THEN <<a', r'>> ELSE was[s]]
        /\ IF i < n THEN i' = i + 1 /\ j' = j ELSE i' = 1 /\ j' = j + 1
        /\ UNCHANGED <<op, size, recipient, key, kek, copy>>

Wrapped(registers) ==
    [epk |-> Ephemeral, blocks |-> <<registers[1]>> \o registers[2], odd |-> 0]

ReturnWrapped ==
    /\ op = "wrap" /\ j > 5
    /\ copy' = Wrapped(<<a, r>>)
    /\ op' = "stored"
    /\ UNCHANGED <<size, recipient, key, kek, a, r, j, i, was>>

Foreign == Half([kind |-> "foreign"])

(* The store, the channel or the sender's segment is not what it was:      *)
(* blocks lost, added, overwritten or exchanged, another point, odd bytes. *)
Damage ==
    /\ op = "stored"
    /\ LET blocks == copy.blocks
       IN  \/ \E m \in 0..Len(blocks) : copy' = [copy EXCEPT !.blocks = SubSeq(blocks, 1, m)]
           \/ \E h \in {Foreign, blocks[1]} : copy' = [copy EXCEPT !.blocks = Append(blocks, h)]
           \/ \E m \in DOMAIN blocks, h \in {Foreign} \cup {blocks[l] : l \in DOMAIN blocks} :
                  copy' = [copy EXCEPT !.blocks = [blocks EXCEPT ![m] = h]]
           \/ \E m, l \in DOMAIN blocks :
                  copy' = [copy EXCEPT !.blocks = [blocks EXCEPT ![m] = blocks[l],
                                                                 ![l] = blocks[m]]]
           \/ \E p \in PrivateKeys \cup {LowOrder} : copy' = [copy EXCEPT !.epk = p]
           \/ copy' = [copy EXCEPT !.odd = 1]
    /\ op' = "delivered"
    /\ UNCHANGED <<size, recipient, key, kek, a, r, j, i, was>>

(* Unwrap has as many registers as the copy has blocks.                    *)
Unwrap(priv) ==
    /\ op \in {"stored", "delivered"}
    /\ key' = priv
    /\ IF copy.epk = LowOrder \/ copy.odd # 0 \/ Len(copy.blocks) < 2
       THEN op' = "failed" /\ UNCHANGED <<kek, a, r, j, i>>
       ELSE /\ op' = "unwrap"
            /\ kek' = Kek(priv, copy.epk)
            /\ a' = copy.blocks[1] /\ r' = Tail(copy.blocks)
            /\ j' = 5 /\ i' = Len(copy.blocks) - 1
    /\ UNCHANGED <<size, recipient, was, copy>>

(* Mutant: the blocks of a pass are taken upwards, as Wrap takes them. *)
UnwrapRoundUpwards ==
    LET up    == n + 1 - i
        block == Decrypt(kek, xorCounter(a, n * j + up), r[up])
    IN  /\ op = "unwrap" /\ j >= 0
        /\ a' = block[1]
        /\ r' = [r EXCEPT ![up] = block[2]]
        /\ IF i > 1 THEN i' = i - 1 /\ j' = j ELSE i' = n /\ j' = j - 1
        /\ UNCHANGED <<op, size, recipient, key, kek, was, copy>>

(* The inner loop of an unwrap.                                            *)
UnwrapRound ==
    LET block == Decrypt(kek, xorCounter(a, counter), r[i])
    IN  /\ op = "unwrap" /\ j >= 0
        /\ a' = block[1]
        /\ r' = [r EXCEPT ![i] = block[2]]
        /\ IF i > 1 THEN i' = i - 1 /\ j' = j ELSE i' = n /\ j' = j - 1
        /\ UNCHANGED <<op, size, recipient, key, kek, was, copy>>

(* Mutant: what the registers hold is returned unchecked. *)
ReturnUnchecked ==
    /\ op = "unwrap" /\ j < 0
    /\ op' = "ok"
    /\ UNCHANGED <<size, recipient, key, kek, a, r, j, i, was, copy>>

(* The integrity check.                                                    *)
ReturnUnwrapped ==
    /\ op = "unwrap" /\ j < 0
    /\ op' = IF a = aesKeyWrapIV THEN "ok" ELSE "failed"
    /\ UNCHANGED <<size, recipient, key, kek, a, r, j, i, was, copy>>

Next ==
    \/ \E pub \in PrivateKeys \cup {LowOrder}, length \in Sizes : Wrap(pub, length)
    \/ WrapRound \/ ReturnWrapped \/ Damage
    \/ \E priv \in PrivateKeys : Unwrap(priv)
    \/ UnwrapRound \/ ReturnUnwrapped

Spec == Init /\ [][Next]_vars

----------------------------------------------------------------------------
(* Properties                                                              *)

N == size \div 8

(* RFC 3394, 2.2.1, in its first formulation: 6n steps of a shift register *)
(* whose first block is encrypted and put behind the others.               *)
Shifted(k, before, t) ==
    LET block == Encrypt(k, before[1], Head(before[2]))
    IN  <<xorCounter(block[1], t), Append(Tail(before[2]), block[2])>>

ShiftRegister[t \in 0..(6 * N)] ==
    IF t = 0 THEN <<aesKeyWrapIV, DataKey(N)>> ELSE Shifted(kek, ShiftRegister[t - 1], t)

RFC3394 == ShiftRegister[6 * N]

(* What is stored is what any other implementation of A256KW would store:  *)
(* a wrap and an unwrap that err in the same way agree with each other.    *)
WrapsAsRFC3394 == op = "stored" => copy = Wrapped(RFC3394)

(* The copy is as it was stored, and the key is the recipient's.           *)
Intact == copy = Wrapped(was[6 * N]) /\ key = recipient

(* Unwrap recovers the data key, all of it, from an intact copy.           *)
IntactUnwraps ==
    op \in {"ok", "failed"} /\ was # <<>> /\ Intact => op = "ok" /\ r = DataKey(N)

(* And it returns nothing from any other: not another key's, and not from  *)
(* a copy that lost, gained or changed a byte.                             *)
OnlyIntactUnwraps == op = "ok" => Intact

============================================================================
