--------------------------- MODULE KeyWrapProofs ----------------------------
(***************************************************************************)
(* Unwrap undoes Wrap, for data keys of every length: round by round, the  *)
(* registers of the unwrap go back through those of the wrap.              *)
(***************************************************************************)
EXTENDS KeyWrap, SequenceTheorems, TLAPS

(* Functions over 1..m, which sequences of length m are. *)
IsRow(f, m) == f = [b \in 1..m |-> f[b]]

LEMMA Product == \A m, p \in Nat : m * p \in Nat /\ m * 0 = 0
  OBVIOUS

(* Rounds have different numbers: n times the pass, plus the block. *)
LEMMA RoundNumber ==
    ASSUME NEW m \in Nat, NEW p \in Int, NEW q \in Int, NEW b \in 1..m, NEW c \in 1..m,
           m * p + b = m * q + c
    PROVE  p = q /\ b = c
<1>1. ASSUME NEW x \in Int, NEW y \in Int, x < y PROVE m * x + m <= m * y
  <2> DEFINE d == y - x - 1
  <2>1. d \in Nat /\ y = x + 1 + d
    BY <1>1
  <2>2. m * d \in Nat
    BY <2>1
  <2>3. m * y = m * x + m + m * d
    BY <2>1
  <2> HIDE DEF d
  <2>4. QED
    BY <2>2, <2>3
<1>2. m * p \in Int /\ m * q \in Int
  OBVIOUS
<1>3. ~(p < q)
  BY <1>1, <1>2
<1>4. ~(q < p)
  BY <1>1, <1>2
<1>5. QED
  BY <1>2, <1>3, <1>4

LEMMA DataKeyIsRow == \A m : IsRow(DataKey(m), m)
<1> TAKE m
<1>1. \A b \in 1..m : DataKey(m)[b] = Half([kind |-> "data", block |-> b])
  BY DEF DataKey
<1>2. QED
  BY <1>1 DEF IsRow, DataKey

LEMMA RowIsSequence ==
    ASSUME NEW m \in Nat, NEW f, IsRow(f, m)
    PROVE  f \in Seq({f[b] : b \in 1..m}) /\ Len(f) = m
<1> DEFINE S == {f[b] : b \in 1..m}
<1>1. f \in [1..m -> S]
  BY DEF IsRow
<1>2. f \in Seq(S)
  BY <1>1, SeqDef
<1>3. QED
  BY <1>1, <1>2, LenProperties

(* The first block and the others of a wrapped copy are the registers.     *)
LEMMA WrappedParts ==
    ASSUME NEW m \in Nat, NEW h, NEW f, IsRow(f, m)
    PROVE  LET c == Wrapped(<<h, f>>).blocks
           IN  Len(c) = m + 1 /\ c[1] = h /\ Tail(c) = f
<1> DEFINE S == {h} \cup {f[b] : b \in 1..m}
           c == <<h>> \o f
<1>1. f \in Seq(S) /\ Len(f) = m
  <2>1. f \in [1..m -> S]
    BY DEF IsRow
  <2>2. QED
    BY <2>1, SeqDef, RowIsSequence
<1>2. <<h>> \in Seq(S) /\ Len(<<h>>) = 1
  OBVIOUS
<1>3. c \in Seq(S) /\ Len(c) = m + 1 /\ c[1] = h
  BY <1>1, <1>2, ConcatProperties
<1>4. Tail(c) \in Seq(S) /\ Len(Tail(c)) = m /\ \A b \in 1..m : Tail(c)[b] = f[b]
  BY <1>1, <1>2, <1>3, ConcatProperties, HeadTailProperties
<1>5. Tail(c) = f
  BY <1>1, <1>4, SeqEqual
<1>6. QED
  BY <1>3, <1>5 DEF Wrapped

(* The counter is removed as it was added, and the block decrypted to what *)
(* was encrypted.                                                          *)
LEMMA RoundUndone ==
    ASSUME NEW k, NEW x, NEW y, NEW t
    PROVE  LET block == Encrypt(k, x, y)
           IN  Decrypt(k, xorCounter(xorCounter(block[1], t), t), block[2]) = <<x, y>>
<1> DEFINE h == Cipher("first", k, x, y)
           block == Encrypt(k, x, y)
<1>1. h.mask = {} /\ h = [core |-> h.core, mask |-> {}]
  BY DEF Cipher, Half
<1>2. xorCounter(h, t) = [core |-> h.core, mask |-> Bits(t)]
  BY <1>1 DEF xorCounter
<1>3. xorCounter(xorCounter(h, t), t) = h
  BY <1>1, <1>2 DEF xorCounter
<1>4. block[1] = h /\ <<block[1], block[2]>> = block
  BY DEF Encrypt
<1>5. h.core.kind = "first" /\ h.core.left = x /\ h.core.right = y
  BY DEF Cipher, Half
<1>6. QED
  BY <1>3, <1>4, <1>5 DEF Decrypt

----------------------------------------------------------------------------
(* Both sides agree on the key-encryption key. *)
K == Kek(Ephemeral, recipient)

(* Round t, on block b, under key k.                                        *)
IsRound(k, before, after, t, b) ==
    LET block == Encrypt(k, before[1], before[2][b])
    IN  /\ after[1] = xorCounter(block[1], t)
        /\ after[2] = [before[2] EXCEPT ![b] = block[2]]

(* h holds the registers after each of the first rounds of a wrap.         *)
IsHistory(h, k, m, rounds) ==
    /\ m \in Nat \ {0}
    /\ h[0][1] = aesKeyWrapIV /\ h[0][2] = DataKey(m)
    /\ \A s \in 0..rounds : h[s] = <<h[s][1], h[s][2]>> /\ IsRow(h[s][2], m)
    /\ \A t \in 1..rounds, p \in 0..5, b \in 1..m :
          t = m * p + b => IsRound(k, h[t - 1], h[t], t, b)

WrapInv ==
    op = "wrap" =>
        /\ IsHistory(was, K, N, (N * j + i) - 1)
        /\ j \in 0..6 /\ i \in 1..N /\ (j = 6 => i = 1)
        /\ kek = K
        /\ a = was[(N * j + i) - 1][1] /\ r = was[(N * j + i) - 1][2]

StoredInv ==
    /\ op \in {"stored", "delivered", "unwrap", "ok"} => IsHistory(was, K, N, 6 * N)
    /\ op = "stored" => copy = Wrapped(was[6 * N])

(* An unwrap is where the wrap was after the round about to be undone.     *)
UnwrapInv ==
    op = "unwrap" /\ Intact =>
        /\ j \in -1..5 /\ i \in 1..N /\ (j = -1 => i = N)
        /\ kek = K
        /\ a = was[N * j + i][1] /\ r = was[N * j + i][2]

EndInv ==
    /\ op = "ok" /\ Intact => r = DataKey(N)
    /\ op = "failed" /\ was # <<>> => ~Intact

TypeInv ==
    /\ op \in {"idle", "wrap", "stored", "delivered", "unwrap", "ok", "failed"}
    /\ size \in Nat
    /\ op = "idle" => was = <<>> /\ a = aesKeyWrapIV /\ j = 0 /\ i = 1

KeyWrapInv == TypeInv /\ WrapInv /\ StoredInv /\ UnwrapInv /\ EndInv

LEMMA KeyWrapInit == Init => KeyWrapInv
  BY DEF Init, KeyWrapInv, TypeInv, WrapInv, StoredInv, UnwrapInv, EndInv

LEMMA WrapStarts ==
    ASSUME KeyWrapInv, NEW pub, NEW length \in Sizes, Wrap(pub, length)
    PROVE  KeyWrapInv'
<1>1. length \in Nat
  BY SizesAssumption
<1>2. CASE pub = LowOrder \/ length = 0 \/ length % 8 # 0
  BY <1>1, <1>2
     DEF Wrap, KeyWrapInv, TypeInv, WrapInv, StoredInv, UnwrapInv, EndInv
<1>3. CASE ~(pub = LowOrder \/ length = 0 \/ length % 8 # 0)
  <2>1. /\ op' = "wrap" /\ kek' = K' /\ r' = DataKey(N') /\ size' = length
        /\ was' = [s \in 0..0 |-> <<a, r'>>] /\ a' = a /\ j' = j /\ i' = i
    BY <1>3 DEF Wrap, K, N
  <2>2. a = aesKeyWrapIV /\ j = 0 /\ i = 1
    BY DEF Wrap, KeyWrapInv, TypeInv
  <2>3. N' \in Nat \ {0}
    BY <1>1, <1>3, <2>1 DEF N
  <2>4. was'[0] = <<aesKeyWrapIV, DataKey(N')>> /\ IsRow(DataKey(N'), N')
    <3>1. was'[0] = <<aesKeyWrapIV, DataKey(N')>>
      BY <2>1, <2>2
    <3>2. QED
      BY <3>1, DataKeyIsRow
  <2>5. (N' * j' + i') - 1 = 0
    <3>1. N' * 0 = 0
      BY <2>3, Product
    <3>2. j' = 0 /\ i' = 1
      BY <2>1, <2>2
    <3>3. QED
      BY <3>1, <3>2
  <2>7. IsHistory(was', K', N', 0)
    BY <2>3, <2>4 DEF IsHistory
  <2>8. WrapInv'
    BY <2>1, <2>2, <2>3, <2>4, <2>5, <2>7 DEF WrapInv
  <2>9. QED
    BY <1>1, <2>1, <2>8 DEF KeyWrapInv, TypeInv, StoredInv, UnwrapInv, EndInv
<1>4. QED
  BY <1>2, <1>3

(* One more round recorded. *)
LEMMA HistoryGrows ==
    ASSUME NEW h, NEW g, NEW k, NEW m, NEW p \in 0..5, NEW b \in 1..m, NEW x, NEW y,
           NEW t \in Nat \ {0}, t = m * p + b, IsHistory(h, k, m, t - 1),
           g[t] = <<x, y>>, \A s \in 0..(t - 1) : g[s] = h[s],
           IsRound(k, h[t - 1], <<x, y>>, t, b)
    PROVE  IsHistory(g, k, m, t)
<1>1. /\ m \in Nat \ {0}
      /\ h[0][1] = aesKeyWrapIV /\ h[0][2] = DataKey(m)
      /\ \A s \in 0..(t - 1) : h[s] = <<h[s][1], h[s][2]>> /\ IsRow(h[s][2], m)
      /\ \A s \in 1..(t - 1), q \in 0..5, c \in 1..m :
            s = m * q + c => IsRound(k, h[s - 1], h[s], s, c)
  BY DEF IsHistory
<1>2. g[t] = <<x, y>> /\ \A s \in 0..(t - 1) : g[s] = h[s]
  OBVIOUS
<1>3. IsRow(y, m)
  <2>1. IsRow(h[t - 1][2], m)
    <3>1. t - 1 \in 0..(t - 1)
      OBVIOUS
    <3>2. QED
      BY <1>1, <3>1, Zenon
  <2>2. y = [h[t - 1][2] EXCEPT ![b] = Encrypt(k, h[t - 1][1], h[t - 1][2][b])[2]]
    BY DEF IsRound
  <2>3. QED
    BY <2>1, <2>2 DEF IsRow
<1>4. ASSUME NEW s \in 1..t, NEW q \in 0..5, NEW c \in 1..m, s = m * q + c
      PROVE  IsRound(k, g[s - 1], g[s], s, c)
  <2>1. CASE s \in 1..(t - 1)
    <3>1. g[s - 1] = h[s - 1] /\ g[s] = h[s]
      <4>1. s - 1 \in 0..(t - 1) /\ s \in 0..(t - 1)
        BY <2>1
      <4>2. QED
        BY <1>2, <4>1, Zenon
    <3>2. IsRound(k, h[s - 1], h[s], s, c)
      BY <1>1, <1>4, <2>1, Zenon
    <3>3. QED
      BY <3>1, <3>2, Zenon
  <2>2. CASE s = t
    <3>1. b = c
      BY <1>1, <1>4, <2>2, RoundNumber
    <3>2. g[t - 1] = h[t - 1]
      <4>1. t - 1 \in 0..(t - 1)
        OBVIOUS
      <4>2. QED
        BY <1>2, <4>1, Zenon
    <3>3. QED
      BY <1>2, <2>2, <3>1, <3>2, Zenon
  <2>3. QED
    BY <2>1, <2>2
<1>5. g[0][1] = aesKeyWrapIV /\ g[0][2] = DataKey(m)
  BY <1>1, <1>2
<1>6. \A s \in 0..t : g[s] = <<g[s][1], g[s][2]>> /\ IsRow(g[s][2], m)
  <2>1. \A s \in 0..t : s \in 0..(t - 1) \/ s = t
    OBVIOUS
  <2>2. QED
    BY <1>1, <1>2, <1>3, <2>1
<1>7. QED
  BY <1>1, <1>2, <1>4, <1>5, <1>6 DEF IsHistory

LEMMA WrapAdvances ==
    ASSUME KeyWrapInv, WrapRound
    PROVE  KeyWrapInv'
<1>0. PICK t : t = N * j + i
  OBVIOUS
<1>1. /\ IsHistory(was, K, N, t - 1) /\ j \in 0..5 /\ i \in 1..N /\ kek = K
      /\ a = was[t - 1][1] /\ r = was[t - 1][2]
  <2>1. WrapInv /\ op = "wrap" /\ j <= 5
    BY DEF KeyWrapInv, WrapRound
  <2>2. /\ IsHistory(was, K, N, (N * j + i) - 1) /\ j \in 0..6 /\ i \in 1..N /\ kek = K
        /\ a = was[(N * j + i) - 1][1] /\ r = was[(N * j + i) - 1][2]
    BY <2>1 DEF WrapInv
  <2>3. j \in 0..5
    BY <2>1, <2>2
  <2>4. t - 1 = (N * j + i) - 1
    BY <1>0, Zenon
  <2>5. QED
    BY <2>2, <2>3, <2>4, Zenon
<1>2. N \in Nat \ {0} /\ N * j \in Nat /\ t \in Nat \ {0} /\ t - 1 \in 0..(t - 1)
  <2>1. N \in Nat \ {0}
    BY <1>1 DEF IsHistory
  <2>2. N * j \in Nat
    BY <1>1, <2>1, Product
  <2>3. QED
    BY <1>0, <1>1, <2>1, <2>2
<1>3. IsRow(r, N)
  BY <1>1, <1>2 DEF IsHistory
<1>4. n = N /\ counter = t
  BY <1>0, <1>2, <1>3, RowIsSequence DEF n, counter
<1>5. IsRound(K, was[t - 1], <<a', r'>>, t, i)
  <2>1. a' = xorCounter(Encrypt(K, a, r[i])[1], t) /\ r' = [r EXCEPT ![i] = Encrypt(K, a, r[i])[2]]
    BY <1>1, <1>4 DEF WrapRound
  <2>2. QED
    BY <1>1, <2>1 DEF IsRound
<1>6. was' = [s \in 0..t |-> IF s = t THEN <<a', r'>> ELSE was[s]]
  BY <1>4 DEF WrapRound
<1>7. IsHistory(was', K, N, t) /\ was'[t] = <<a', r'>>
  <2>1. was'[t] = <<a', r'>> /\ \A s \in 0..(t - 1) : was'[s] = was[s]
    BY <1>2, <1>6
  <2>2. t = N * j + i /\ t \in Nat \ {0}
    BY <1>0, <1>2
  <2>3. QED
    BY <1>1, <1>5, <2>1, <2>2, HistoryGrows
<1>8. N' = N /\ K' = K /\ kek' = K
  BY <1>1 DEF WrapRound, N, K
<1>9. j' \in 0..6 /\ i' \in 1..N /\ (j' = 6 => i' = 1) /\ (N * j' + i') - 1 = t
  <2>1. CASE i < N
    <3>1. i' = i + 1 /\ j' = j
      BY <1>4, <2>1 DEF WrapRound
    <3>2. QED
      BY <1>0, <1>1, <1>2, <2>1, <3>1
  <2>2. CASE i = N
    <3>1. i' = 1 /\ j' = j + 1
      BY <1>2, <1>4, <2>2 DEF WrapRound
    <3>2. N * (j + 1) = N * j + N
      BY <1>1, <1>2
    <3>3. QED
      BY <1>0, <1>1, <1>2, <2>2, <3>1, <3>2
  <2>3. QED
    BY <1>1, <1>2, <2>1, <2>2
<1>10. IsHistory(was', K', N', (N' * j' + i') - 1)
  BY <1>7, <1>8, <1>9
<1>11. a' = was'[(N' * j' + i') - 1][1] /\ r' = was'[(N' * j' + i') - 1][2]
  BY <1>7, <1>8, <1>9
<1>12. WrapInv'
  BY <1>8, <1>9, <1>10, <1>11 DEF WrapInv
<1>13. QED
  BY <1>12 DEF WrapRound, KeyWrapInv, TypeInv, StoredInv, UnwrapInv, EndInv

LEMMA WrapEnds ==
    ASSUME KeyWrapInv, ReturnWrapped
    PROVE  KeyWrapInv'
<1>1. /\ IsHistory(was, K, N, (N * j + i) - 1) /\ j = 6 /\ i = 1
      /\ a = was[(N * j + i) - 1][1] /\ r = was[(N * j + i) - 1][2]
  BY DEF KeyWrapInv, WrapInv, ReturnWrapped
<1>2. (N * j + i) - 1 = 6 * N /\ 6 * N \in 0..(6 * N)
  BY <1>1 DEF IsHistory
<1>3. IsHistory(was, K, N, 6 * N) /\ was[6 * N] = <<a, r>>
  BY <1>1, <1>2 DEF IsHistory
<1>4. N' = N /\ K' = K /\ was' = was /\ copy' = Wrapped(<<a, r>>)
  BY DEF ReturnWrapped, N, K
<1>5. QED
  BY <1>3, <1>4 DEF ReturnWrapped, KeyWrapInv, TypeInv, WrapInv, StoredInv, UnwrapInv, EndInv

LEMMA DamageKeeps ==
    ASSUME KeyWrapInv, Damage
    PROVE  KeyWrapInv'
<1>1. IsHistory(was, K, N, 6 * N)
  BY DEF KeyWrapInv, StoredInv, Damage
<1>2. N' = N /\ K' = K /\ was' = was
  BY DEF Damage, N, K
<1>3. QED
  BY <1>1, <1>2 DEF Damage, KeyWrapInv, TypeInv, WrapInv, StoredInv, UnwrapInv, EndInv

LEMMA UnwrapStarts ==
    ASSUME KeyWrapInv, NEW priv, Unwrap(priv)
    PROVE  KeyWrapInv'
<1>1. IsHistory(was, K, N, 6 * N) /\ N \in Nat \ {0} /\ 6 * N \in 0..(6 * N)
  <2>1. IsHistory(was, K, N, 6 * N)
    BY DEF KeyWrapInv, StoredInv, Unwrap
  <2>2. N \in Nat \ {0}
    BY <2>1 DEF IsHistory
  <2>3. QED
    BY <2>1, <2>2
<1>2. N' = N /\ K' = K /\ was' = was
  BY DEF Unwrap, N, K
<1>3. LET c == Wrapped(was[6 * N])
      IN  /\ Len(c.blocks) = N + 1 /\ c.blocks[1] = was[6 * N][1]
          /\ Tail(c.blocks) = was[6 * N][2]
          /\ c.epk = Ephemeral /\ c.odd = 0
  <2>1. was[6 * N] = <<was[6 * N][1], was[6 * N][2]>> /\ IsRow(was[6 * N][2], N)
    BY <1>1 DEF IsHistory
  <2>2. QED
    BY <1>1, <2>1, WrappedParts DEF Wrapped
<1>4. CASE copy.epk = LowOrder \/ copy.odd # 0 \/ Len(copy.blocks) < 2
  <2>1. copy # Wrapped(was[6 * N])
    <3>1. ASSUME copy = Wrapped(was[6 * N]) PROVE FALSE
      <4>1. copy.epk # LowOrder
        BY <1>3, <3>1 DEF Ephemeral, LowOrder
      <4>2. copy.odd = 0 /\ Len(copy.blocks) = N + 1
        BY <1>3, <3>1
      <4>3. QED
        BY <1>1, <1>4, <4>1, <4>2
    <3>2. QED
      BY <3>1
  <2>2. copy' = copy
    BY DEF Unwrap
  <2>3. ~Intact'
    BY <1>2, <2>1, <2>2 DEF Intact
  <2>4. QED
    BY <1>2, <1>4, <2>3
       DEF Unwrap, KeyWrapInv, TypeInv, WrapInv, StoredInv, UnwrapInv, EndInv
<1>5. CASE ~(copy.epk = LowOrder \/ copy.odd # 0 \/ Len(copy.blocks) < 2)
  <2>1. ASSUME Intact'
        PROVE  /\ j' = 5 /\ i' = N /\ kek' = K
               /\ a' = was[6 * N][1] /\ r' = was[6 * N][2]
    <3>1. copy = Wrapped(was[6 * N]) /\ priv = recipient
      BY <1>2, <2>1 DEF Intact, Unwrap
    <3>2. kek' = Kek(recipient, Ephemeral)
      BY <1>3, <1>5, <3>1 DEF Unwrap
    <3>3. {recipient, Ephemeral} = {Ephemeral, recipient}
      OBVIOUS
    <3>4. kek' = K
      BY <3>2, <3>3 DEF K, Kek, ECDH
    <3>5. /\ a' = copy.blocks[1] /\ r' = Tail(copy.blocks)
          /\ j' = 5 /\ i' = Len(copy.blocks) - 1
      BY <1>5 DEF Unwrap
    <3>6. QED
      BY <1>1, <1>3, <3>1, <3>4, <3>5
  <2>2. N * 5 + N = 6 * N
    BY <1>1
  <2>3. UnwrapInv'
    BY <1>1, <1>2, <2>1, <2>2 DEF UnwrapInv
  <2>4. QED
    BY <1>2, <1>5, <2>3 DEF Unwrap, KeyWrapInv, TypeInv, WrapInv, StoredInv, EndInv
<1>6. QED
  BY <1>4, <1>5

LEMMA UnwrapAdvances ==
    ASSUME KeyWrapInv, UnwrapRound
    PROVE  KeyWrapInv'
<1>1. IsHistory(was, K, N, 6 * N) /\ N \in Nat \ {0}
  BY DEF KeyWrapInv, StoredInv, UnwrapRound, IsHistory
<1>2. N' = N /\ K' = K /\ was' = was /\ Intact' = Intact
  BY DEF UnwrapRound, K, N, Intact
<1>3. ASSUME Intact
      PROVE  /\ j' \in -1..5 /\ i' \in 1..N /\ (j' = -1 => i' = N)
             /\ a' = was[N * j' + i'][1] /\ r' = was[N * j' + i'][2] /\ kek' = K
  <2> DEFINE t == N * j + i
             before == was[t - 1]
             block == Encrypt(K, before[1], before[2][i])
  <2>1. /\ j \in 0..5 /\ i \in 1..N /\ kek = K
        /\ a = was[t][1] /\ r = was[t][2]
    BY <1>3 DEF KeyWrapInv, UnwrapInv, UnwrapRound
  <2>2. N * j \in Nat /\ t \in 1..(6 * N)
    <3>1. N * j + N <= 6 * N
      BY <1>1, <2>1
    <3>2. N * j \in Nat
      BY <1>1, <2>1
    <3>3. QED
      BY <1>1, <2>1, <3>1, <3>2
  <2>3. IsRound(K, before, was[t], t, i) /\ IsRow(before[2], N) /\ IsRow(r, N)
    <3>1. t - 1 \in 0..(6 * N) /\ t \in 0..(6 * N) /\ t <= 6 * N
      BY <1>1, <2>2
    <3>2. IsRow(was[t - 1][2], N) /\ IsRow(was[t][2], N)
      BY <1>1, <3>1 DEF IsHistory
    <3>3. IsRound(K, was[t - 1], was[t], t, i)
      BY <1>1, <2>1, <2>2 DEF IsHistory
    <3>4. QED
      BY <2>1, <3>2, <3>3
  <2>4. n = N
    BY <1>1, <2>3, RowIsSequence DEF n
  <2>5. a = xorCounter(block[1], t) /\ r = [before[2] EXCEPT ![i] = block[2]]
    BY <2>1, <2>3 DEF IsRound
  <2>6. r[i] = block[2]
    BY <2>1, <2>3, <2>5 DEF IsRow
  <2>7. Decrypt(kek, xorCounter(a, t), r[i]) = <<before[1], before[2][i]>>
    <3>1. Decrypt(K, xorCounter(xorCounter(block[1], t), t), block[2])
            = <<before[1], before[2][i]>>
      BY RoundUndone, Zenon
    <3>2. QED
      BY <2>1, <2>5, <2>6, <3>1, Zenon
  <2>8. a' = before[1] /\ r' = [r EXCEPT ![i] = before[2][i]]
    <3>1. counter = t
      BY <2>4 DEF counter
    <3>2. LET b == Decrypt(kek, xorCounter(a, t), r[i])
          IN  a' = b[1] /\ r' = [r EXCEPT ![i] = b[2]]
      BY <3>1 DEF UnwrapRound
    <3>3. LET b == <<before[1], before[2][i]>>
          IN  a' = b[1] /\ r' = [r EXCEPT ![i] = b[2]]
      BY <2>1, <2>7, <3>2 DEF UnwrapRound
    <3>4. QED
      BY <3>3
  <2>9. r' = before[2]
    BY <2>1, <2>3, <2>5, <2>8 DEF IsRow
  <2>10. /\ j' \in -1..5 /\ i' \in 1..N /\ (j' = -1 => i' = N)
         /\ N * j' + i' = t - 1
    <3>1. CASE i > 1
      <4>1. i' = i - 1 /\ j' = j
        BY <3>1 DEF UnwrapRound
      <4>2. QED
        BY <1>1, <2>1, <2>2, <3>1, <4>1
    <3>2. CASE i = 1
      <4>1. i' = N /\ j' = j - 1
        BY <2>4, <3>2 DEF UnwrapRound
      <4>2. QED
        BY <1>1, <2>1, <2>2, <3>2, <4>1
    <3>3. QED
      BY <2>1, <3>1, <3>2
  <2>11. QED
    BY <2>1, <2>8, <2>9, <2>10 DEF UnwrapRound
<1>4. QED
  BY <1>2, <1>3
     DEF UnwrapRound, KeyWrapInv, TypeInv, WrapInv, StoredInv, UnwrapInv, EndInv

LEMMA UnwrapEnds ==
    ASSUME KeyWrapInv, ReturnUnwrapped
    PROVE  KeyWrapInv'
<1>1. IsHistory(was, K, N, 6 * N) /\ N \in Nat \ {0}
  BY DEF KeyWrapInv, StoredInv, ReturnUnwrapped, IsHistory
<1>2. N' = N /\ K' = K /\ Intact' = Intact /\ was' = was /\ r' = r
  BY DEF ReturnUnwrapped, K, N, Intact
<1>3. ASSUME Intact PROVE a = aesKeyWrapIV /\ r = DataKey(N)
  <2>1. j = -1 /\ i = N /\ a = was[N * j + i][1] /\ r = was[N * j + i][2]
    BY <1>3 DEF KeyWrapInv, UnwrapInv, ReturnUnwrapped
  <2>2. N * (-1) + N = 0
    BY <1>1
  <2>3. QED
    BY <1>1, <2>1, <2>2 DEF IsHistory
<1>4. QED
  BY <1>2, <1>3
     DEF ReturnUnwrapped, KeyWrapInv, TypeInv, WrapInv, StoredInv, UnwrapInv, EndInv

LEMMA KeyWrapStep == KeyWrapInv /\ [Next]_vars => KeyWrapInv'
<1> SUFFICES ASSUME KeyWrapInv, [Next]_vars PROVE KeyWrapInv'
  OBVIOUS
<1>1. CASE UNCHANGED vars
  BY <1>1 DEF vars, KeyWrapInv, TypeInv, WrapInv, StoredInv, UnwrapInv, EndInv,
     Intact, K, N
<1>2. QED
  BY <1>1, WrapStarts, WrapAdvances, WrapEnds, DamageKeeps, UnwrapStarts,
     UnwrapAdvances, UnwrapEnds DEF Next

(* The invariant that carries the round trip. *)
THEOREM KeyWrapInvariant == Spec => []KeyWrapInv
  BY KeyWrapInit, KeyWrapStep, PTL DEF Spec

(* Whatever its length, whoever the recipient: Unwrap returns the data key *)
(* that Wrap was given, from an intact copy and with the recipient's key.  *)
THEOREM RoundTrip == Spec => []IntactUnwraps
<1>1. KeyWrapInv => IntactUnwraps
  BY DEF KeyWrapInv, EndInv, IntactUnwraps
<1>2. QED
  BY <1>1, KeyWrapInvariant, PTL

----------------------------------------------------------------------------
(* Nothing but an intact copy unwraps                                      *)

(* A value that no round of a wrap has as its first half, nor its start:   *)
(* it decrypts to noise, and noise to noise.                               *)
Lost(h) == h.core.kind \notin {"first", "iv"}

(* Rounds left to undo, were the copy a whole wrap's.                      *)
depth == 6 * N - 6 * n + counter

(* The rounds of a history are numbered without gaps, and what the last    *)
(* pass has made of a register stays.                                      *)
IsLasting(h, m, rounds) ==
    /\ \A t \in 1..rounds : \E p \in 0..5, b \in 1..m : t = m * p + b
    /\ \A b \in 1..m : m * 5 + b <= rounds => h[rounds][2][b] = h[m * 5 + b][2][b]

LastingInv ==
    /\ op = "wrap" => IsLasting(was, N, counter - 1)
    /\ op \in {"stored", "delivered", "unwrap", "ok"} => IsLasting(was, N, 6 * N)

(* The blocks a copy can hold, after any damage.                           *)
Known == {Foreign, was[6 * N][1]} \cup {was[6 * N][2][b] : b \in 1..N}

IsCopy(c) == c = [epk |-> c.epk, blocks |-> c.blocks, odd |-> c.odd]

(* What damage leaves of a copy, and what Unwrap has looked at.            *)
CopyInv ==
    /\ op \in {"wrap", "stored", "delivered", "unwrap", "ok"} => recipient \in PrivateKeys
    /\ op \in {"stored", "delivered", "unwrap", "ok"} =>
          /\ IsCopy(copy) /\ copy.blocks \in Seq(Known)
          /\ copy.epk \in {Ephemeral, LowOrder} \cup PrivateKeys
    /\ op \in {"unwrap", "ok"} =>
          key \in PrivateKeys /\ copy.epk # LowOrder /\ copy.odd = 0 /\ Len(copy.blocks) >= 2

(* A register that was passed had the wrap's block in it and has gone back *)
(* a pass; the others are as they were read.                               *)
Passed(b) ==
    IF counter < 5 * N + b
    THEN copy.blocks[b + 1] = was[6 * N][2][b] /\ r[b] = was[counter][2][b]
    ELSE r[b] = copy.blocks[b + 1]

(* The first register is the one the wrap had as many rounds before its    *)
(* end; and if there are as many registers, they follow it.                *)
OnTrack ==
    /\ depth \in Nat /\ a = was[depth][1] /\ copy.blocks[1] = was[6 * N][1]
    /\ n = N => /\ counter < 6 * N => kek = K
                /\ \A b \in 1..N : Passed(b)

TrackInv ==
    op = "unwrap" =>
        /\ n \in Nat \ {0} /\ Len(copy.blocks) = n + 1 /\ IsRow(r, n)
        /\ j \in -1..5 /\ i \in 1..n /\ (j = -1 => i = n)
        /\ kek = Kek(key, copy.epk)
        /\ Lost(a) \/ OnTrack

DamageInv == LastingInv /\ CopyInv /\ TrackInv /\ OnlyIntactUnwraps

LEMMA DamageInit == Init => DamageInv
  BY DEF Init, DamageInv, LastingInv, CopyInv, TrackInv, OnlyIntactUnwraps

(* A counter changes the mask and not the term. *)
LEMMA CoreStays == \A h, t : xorCounter(h, t).core = h.core
  BY DEF xorCounter

LEMMA DecryptsToNoise ==
    ASSUME NEW k, NEW x, NEW y, x.core.kind # "first"
    PROVE  Decrypt(k, x, y)[1] = Noise /\ Lost(Decrypt(k, x, y)[1])
  BY DEF Decrypt, Noise, Lost, Half

(* The half of an encryption decrypts to noise, or it met its other half   *)
(* under its own key.                                                      *)
LEMMA DecryptsOwn ==
    ASSUME NEW k, NEW u, NEW v, NEW q, NEW x, NEW y, x.core = Cipher("first", k, u, v).core
    PROVE  \/ Lost(Decrypt(q, x, y)[1])
           \/ /\ q = k /\ y = Cipher("second", k, u, v)
              /\ Decrypt(q, x, y) = <<u, v>>
<1>1. x.core = [kind |-> "first", key |-> k, left |-> u, right |-> v]
  BY DEF Cipher, Half
<1>2. x.core.kind = "first" /\ x.core.key = k /\ x.core.left = u /\ x.core.right = v
  BY <1>1
<1>3. CASE <<x, y>> = Encrypt(q, u, v)
  <2>1. x = Cipher("first", q, u, v) /\ y = Cipher("second", q, u, v)
    BY <1>3 DEF Encrypt
  <2>2. x.core.key = q
    BY <2>1 DEF Cipher, Half
  <2>3. Decrypt(q, x, y) = <<u, v>>
    BY <1>2, <1>3 DEF Decrypt
  <2>4. QED
    BY <1>2, <2>1, <2>2, <2>3
<1>4. CASE <<x, y>> # Encrypt(q, u, v)
  <2>1. Decrypt(q, x, y) = <<Noise, Noise>>
    BY <1>2, <1>4 DEF Decrypt
  <2>2. QED
    BY <2>1 DEF Noise, Lost, Half
<1>5. QED
  BY <1>3, <1>4

(* What round d of the wrap, on block b in pass p, made.                   *)
IsMade(h, k, m, d, p, b) ==
    /\ d = m * p + b /\ IsRow(h[d - 1][2], m)
    /\ h[d][1].core = Cipher("first", k, h[d - 1][1], h[d - 1][2][b]).core
    /\ h[d][2] = [h[d - 1][2] EXCEPT ![b] = Cipher("second", k, h[d - 1][1], h[d - 1][2][b])]

(* Every round of a history made something for an unwrap to take apart.    *)
LEMMA RoundParts ==
    ASSUME NEW h, NEW k, NEW m, NEW R, IsHistory(h, k, m, R), IsLasting(h, m, R),
           R \in Nat, NEW d \in 1..R
    PROVE  \E p \in 0..5, b \in 1..m : IsMade(h, k, m, d, p, b)
<1>1. PICK p \in 0..5, b \in 1..m : d = m * p + b
  BY DEF IsLasting
<1>2. IsRound(k, h[d - 1], h[d], d, b)
  BY <1>1 DEF IsHistory
<1>3. IsRow(h[d - 1][2], m)
  <2>1. d - 1 \in 0..R
    OBVIOUS
  <2>2. QED
    BY <2>1 DEF IsHistory
<1>4. Encrypt(k, h[d - 1][1], h[d - 1][2][b])
        = <<Cipher("first", k, h[d - 1][1], h[d - 1][2][b]),
            Cipher("second", k, h[d - 1][1], h[d - 1][2][b])>>
  BY DEF Encrypt
<1>5. /\ h[d][1] = xorCounter(Cipher("first", k, h[d - 1][1], h[d - 1][2][b]), d)
      /\ h[d][2] = [h[d - 1][2] EXCEPT ![b] =
                        Cipher("second", k, h[d - 1][1], h[d - 1][2][b])]
  BY <1>2, <1>4 DEF IsRound
<1>6. h[d][1].core = Cipher("first", k, h[d - 1][1], h[d - 1][2][b]).core
  <2>1. \A x : xorCounter(x, d).core = x.core
    BY CoreStays, Zenon
  <2>2. h[d][1] = xorCounter(Cipher("first", k, h[d - 1][1], h[d - 1][2][b]), d)
    BY <1>5, Zenon
  <2>3. QED
    BY <2>1, <2>2, Zenon
<1>7. QED
  BY <1>1, <1>3, <1>5, <1>6, Zenon DEF IsMade

(* A round of the last pass leaves the other registers alone. *)
LEMMA LastingGrows ==
    ASSUME NEW h, NEW g, NEW m \in Nat \ {0}, NEW p \in 0..5, NEW b \in 1..m, NEW z,
           NEW t \in Nat \ {0}, t = m * p + b, IsLasting(h, m, t - 1),
           \A s \in 0..(t - 1) : g[s] = h[s],
           IsRow(h[t - 1][2], m), g[t][2] = [h[t - 1][2] EXCEPT ![b] = z]
    PROVE  IsLasting(g, m, t)
<1>1. ASSUME NEW s \in 1..t PROVE \E q \in 0..5, c \in 1..m : s = m * q + c
  <2>1. CASE s = t
    BY <2>1
  <2>2. CASE s # t
    <3>1. s \in 1..(t - 1)
      BY <2>2
    <3>2. QED
      BY <3>1 DEF IsLasting
  <2>3. QED
    BY <2>1, <2>2
<1>2. ASSUME NEW c \in 1..m, m * 5 + c <= t PROVE g[t][2][c] = g[m * 5 + c][2][c]
  <2>1. CASE m * 5 + c = t
    BY <2>1
  <2>2. CASE m * 5 + c # t
    <3>1. m * 5 + c <= t - 1 /\ m * 5 + c \in 0..(t - 1) /\ t - 1 \in 0..(t - 1)
      BY <1>2, <2>2
    <3>2. c # b
      <4>1. m * p <= m * 5
        OBVIOUS
      <4>2. QED
        BY <3>1, <4>1
    <3>3. g[t][2][c] = h[t - 1][2][c]
      BY <3>2 DEF IsRow
    <3>4. h[t - 1][2][c] = h[m * 5 + c][2][c]
      BY <3>1 DEF IsLasting
    <3>5. g[m * 5 + c] = h[m * 5 + c]
      BY <3>1
    <3>6. QED
      BY <3>3, <3>4, <3>5
  <2>3. QED
    BY <2>1, <2>2
<1>3. QED
  BY <1>1, <1>2 DEF IsLasting

(* Where the wrap is, in the terms of its history. *)
LEMMA WrapAt ==
    ASSUME KeyWrapInv, op = "wrap"
    PROVE  /\ N \in Nat \ {0} /\ n = N /\ counter \in Nat \ {0} /\ IsRow(r, N)
           /\ j \in 0..6 /\ i \in 1..N /\ (j = 6 => i = 1)
           /\ counter = N * j + i /\ IsHistory(was, K, N, counter - 1)
           /\ a = was[counter - 1][1] /\ r = was[counter - 1][2]
<1>1. PICK t : t = N * j + i
  OBVIOUS
<1>2. /\ IsHistory(was, K, N, t - 1) /\ j \in 0..6 /\ i \in 1..N /\ (j = 6 => i = 1)
      /\ a = was[t - 1][1] /\ r = was[t - 1][2]
  <2>1. /\ IsHistory(was, K, N, (N * j + i) - 1) /\ j \in 0..6 /\ i \in 1..N
        /\ j = 6 => i = 1
        /\ a = was[(N * j + i) - 1][1] /\ r = was[(N * j + i) - 1][2]
    BY DEF KeyWrapInv, WrapInv
  <2>2. t - 1 = (N * j + i) - 1
    BY <1>1, Zenon
  <2>3. QED
    BY <2>1, <2>2, Zenon
<1>3. N \in Nat \ {0}
  BY <1>2 DEF IsHistory
<1>4. N * j \in Nat
  BY <1>2, <1>3, Product
<1>5. t \in Nat \ {0} /\ t - 1 \in 0..(t - 1)
  BY <1>1, <1>2, <1>3, <1>4
<1>6. IsRow(r, N)
  BY <1>2, <1>5 DEF IsHistory
<1>7. n = N /\ counter = t
  BY <1>1, <1>3, <1>6, RowIsSequence DEF n, counter
<1>8. QED
  BY <1>1, <1>2, <1>3, <1>5, <1>6, <1>7, Zenon

LEMMA WrapStartsAt ==
    ASSUME KeyWrapInv, NEW pub, NEW length \in Sizes, Wrap(pub, length), op' = "wrap"
    PROVE  N' \in Nat \ {0} /\ counter' - 1 = 0
<1>1. KeyWrapInv'
  BY WrapStarts
<1>2. (op = "wrap" => counter = N * j + i /\ N \in Nat \ {0})'
  BY <1>1, WrapAt, PTL
<1>3. j' = 0 /\ i' = 1
  BY DEF Wrap, KeyWrapInv, TypeInv
<1>4. N' \in Nat \ {0} /\ counter' = N' * j' + i'
  BY <1>2
<1>5. counter' - 1 = 0
  <2>1. N' * 0 = 0
    BY <1>4, Product
  <2>2. j' = 0 /\ i' = 1 /\ counter' = N' * j' + i'
    BY <1>3, <1>4
  <2>3. QED
    BY <2>1, <2>2
<1>6. QED
  BY <1>4, <1>5, Zenon

LEMMA WrapStartsUndamaged ==
    ASSUME KeyWrapInv, DamageInv, NEW pub \in PrivateKeys \cup {LowOrder},
           NEW length \in Sizes, Wrap(pub, length)
    PROVE  DamageInv'
<1>1. CASE op' = "failed"
  BY <1>1 DEF DamageInv, LastingInv, CopyInv, TrackInv, OnlyIntactUnwraps
<1>2. CASE op' # "failed"
  <2>1. /\ op' = "wrap" /\ pub # LowOrder /\ recipient' = pub
        /\ length # 0 /\ length % 8 = 0
    BY <1>2 DEF Wrap
  <2>3. N' \in Nat \ {0} /\ counter' - 1 = 0
    BY <2>1, WrapStartsAt
  <2>5. IsLasting(was', N', 0)
    <3>1. \A h : \A m \in Nat \ {0} : IsLasting(h, m, 0)
      <4>1. ASSUME NEW m \in Nat \ {0}, NEW b \in 1..m PROVE ~(m * 5 + b <= 0)
        OBVIOUS
      <4>2. 1..0 = {}
        OBVIOUS
      <4>3. QED
        BY <4>1, <4>2 DEF IsLasting
    <3>2. QED
      BY <2>3, <3>1
  <2>6. QED
    BY <2>1, <2>3, <2>5 DEF DamageInv, LastingInv, CopyInv, TrackInv, OnlyIntactUnwraps
<1>3. QED
  BY <1>1, <1>2

LEMMA WrapAdvancesUndamaged ==
    ASSUME KeyWrapInv, DamageInv, WrapRound
    PROVE  DamageInv'
<1>0. op = "wrap" /\ j <= 5 /\ op' = "wrap" /\ N' = N /\ recipient' = recipient
  BY DEF WrapRound, N
<1> DEFINE t == counter
<1>1. /\ N \in Nat \ {0} /\ n = N /\ t \in Nat \ {0} /\ IsRow(r, N)
      /\ j \in 0..5 /\ i \in 1..N /\ t = N * j + i
      /\ r = was[t - 1][2] /\ IsLasting(was, N, t - 1)
  BY <1>0, WrapAt DEF DamageInv, LastingInv
<1>2. PICK z : r' = [r EXCEPT ![i] = z]
  BY DEF WrapRound
<1>3. was' = [s \in 0..t |-> IF s = t THEN <<a', r'>> ELSE was[s]]
  BY DEF WrapRound
<1>4. KeyWrapInv'
  BY WrapAdvances
<1>5. counter' = N * j' + i'
  <2>1. (op = "wrap" => counter = N * j + i)'
    BY <1>4, WrapAt, PTL
  <2>2. QED
    BY <1>0, <2>1
<1>6. counter' - 1 = t
  <2>1. CASE i < N
    BY <1>1, <1>5, <2>1 DEF WrapRound
  <2>2. CASE i = N
    <3>1. i' = 1 /\ j' = j + 1
      BY <1>1, <2>2 DEF WrapRound
    <3>2. N * (j + 1) = N * j + N
      BY <1>1
    <3>3. QED
      BY <1>1, <1>5, <2>2, <3>1, <3>2
  <2>3. QED
    BY <1>1, <2>1, <2>2
<1> HIDE DEF t
<1>7. /\ \A s \in 0..(t - 1) : was'[s] = was[s]
      /\ was'[t][2] = [was[t - 1][2] EXCEPT ![i] = z]
  BY <1>1, <1>2, <1>3
<1>8. IsRow(was[t - 1][2], N)
  BY <1>1
<1>9. IsLasting(was', N, t)
  BY <1>1, <1>7, <1>8, LastingGrows
<1>10. LastingInv'
  BY <1>0, <1>6, <1>9 DEF LastingInv
<1>11. QED
  BY <1>0, <1>10 DEF DamageInv, CopyInv, TrackInv, OnlyIntactUnwraps

(* What is stored is made of known blocks. *)
LEMMA WrapEndsUndamaged ==
    ASSUME KeyWrapInv, DamageInv, ReturnWrapped
    PROVE  DamageInv'
<1>0. op = "wrap" /\ j > 5 /\ op' = "stored" /\ N' = N /\ was' = was /\ recipient' = recipient
  BY DEF ReturnWrapped, N
<1>1. /\ N \in Nat \ {0} /\ IsRow(r, N) /\ counter - 1 = 6 * N
      /\ a = was[6 * N][1] /\ r = was[6 * N][2] /\ IsLasting(was, N, 6 * N)
  <2>1. j = 6 /\ i = 1 /\ counter = N * j + i /\ N \in Nat \ {0} /\ IsRow(r, N)
    BY <1>0, WrapAt
  <2>2. counter - 1 = 6 * N
    BY <2>1
  <2>3. IsLasting(was, N, counter - 1) /\ a = was[counter - 1][1] /\ r = was[counter - 1][2]
    BY <1>0, WrapAt DEF DamageInv, LastingInv
  <2>4. QED
    BY <2>1, <2>2, <2>3
<1>2. copy' = [epk |-> Ephemeral, blocks |-> <<a>> \o r, odd |-> 0]
  BY DEF ReturnWrapped, Wrapped
<1>3. <<a>> \o r \in Seq(Known)
  <2>1. a \in Known /\ \A b \in 1..N : r[b] \in Known
    BY <1>1 DEF Known
  <2>2. r \in [1..N -> Known]
    BY <1>1, <2>1 DEF IsRow
  <2>3. r \in Seq(Known) /\ <<a>> \in Seq(Known)
    BY <1>1, <2>1, <2>2, SeqDef
  <2> HIDE DEF Known
  <2>4. QED
    BY <2>3, ConcatProperties
<1>4. Known' = Known
  BY <1>0 DEF Known
<1>5. IsCopy(copy') /\ copy'.blocks \in Seq(Known) /\ copy'.epk = Ephemeral
  BY <1>2, <1>3 DEF IsCopy
<1>6. CopyInv'
  BY <1>0, <1>4, <1>5 DEF CopyInv, DamageInv, IsCopy
<1>7. LastingInv'
  BY <1>0, <1>1 DEF LastingInv
<1>8. QED
  BY <1>0, <1>6, <1>7 DEF DamageInv, TrackInv, OnlyIntactUnwraps

(* Damage exchanges known blocks, and points. *)
LEMMA DamagedForm ==
    ASSUME NEW S, IsCopy(copy), copy.blocks \in Seq(S), 1 \in DOMAIN copy.blocks,
           Foreign \in S, Damage
    PROVE  /\ IsCopy(copy') /\ copy'.blocks \in Seq(S)
           /\ copy'.epk \in {copy.epk, LowOrder} \cup PrivateKeys
<1> DEFINE blocks == copy.blocks
<1>0. ASSUME NEW x \in Seq(S), copy' = [copy EXCEPT !.blocks = x]
      PROVE  IsCopy(copy') /\ copy'.blocks \in Seq(S) /\ copy'.epk = copy.epk
  <2>1. copy' = [epk |-> copy.epk, blocks |-> x, odd |-> copy.odd]
    BY <1>0 DEF IsCopy
  <2>2. QED
    BY <2>1 DEF IsCopy
<1>1. CASE \E m \in 0..Len(blocks) : copy' = [copy EXCEPT !.blocks = SubSeq(blocks, 1, m)]
  <2>1. \A m \in 0..Len(blocks) : SubSeq(blocks, 1, m) \in Seq(S)
    OBVIOUS
  <2>2. QED
    BY <1>0, <1>1, <2>1
<1>2. CASE \E h \in {Foreign, blocks[1]} : copy' = [copy EXCEPT !.blocks = Append(blocks, h)]
  <2>1. \A h \in {Foreign, blocks[1]} : Append(blocks, h) \in Seq(S)
    OBVIOUS
  <2>2. QED
    BY <1>0, <1>2, <2>1
<1>3. CASE \E m \in DOMAIN blocks, h \in {Foreign} \cup {blocks[l] : l \in DOMAIN blocks} :
              copy' = [copy EXCEPT !.blocks = [blocks EXCEPT ![m] = h]]
  <2>1. \A m \in DOMAIN blocks, h \in {Foreign} \cup {blocks[l] : l \in DOMAIN blocks} :
            [blocks EXCEPT ![m] = h] \in Seq(S)
    OBVIOUS
  <2>2. QED
    BY <1>0, <1>3, <2>1
<1>4. CASE \E m, l \in DOMAIN blocks :
              copy' = [copy EXCEPT !.blocks = [blocks EXCEPT ![m] = blocks[l],
                                                             ![l] = blocks[m]]]
  <2>1. \A m, l \in DOMAIN blocks :
            [blocks EXCEPT ![m] = blocks[l], ![l] = blocks[m]] \in Seq(S)
    OBVIOUS
  <2>2. QED
    BY <1>0, <1>4, <2>1
<1>5. CASE \E p \in PrivateKeys \cup {LowOrder} : copy' = [copy EXCEPT !.epk = p]
  <2>1. PICK p \in PrivateKeys \cup {LowOrder} : copy' = [copy EXCEPT !.epk = p]
    BY <1>5
  <2>2. copy' = [epk |-> p, blocks |-> copy.blocks, odd |-> copy.odd]
    BY <2>1 DEF IsCopy
  <2>3. QED
    BY <2>2 DEF IsCopy
<1>6. CASE copy' = [copy EXCEPT !.odd = 1]
  <2>1. copy' = [epk |-> copy.epk, blocks |-> copy.blocks, odd |-> 1]
    BY <1>6 DEF IsCopy
  <2>2. QED
    BY <2>1 DEF IsCopy
<1>7. QED
  BY <1>1, <1>2, <1>3, <1>4, <1>5, <1>6 DEF Damage

LEMMA DamageUndamaged ==
    ASSUME KeyWrapInv, DamageInv, Damage
    PROVE  DamageInv'
<1>0. /\ op = "stored" /\ op' = "delivered" /\ N' = N /\ was' = was
      /\ recipient' = recipient
  BY DEF Damage, N
<1>1. IsHistory(was, K, N, 6 * N) /\ N \in Nat \ {0} /\ copy = Wrapped(was[6 * N])
  BY <1>0 DEF KeyWrapInv, StoredInv, IsHistory
<1>2. IsCopy(copy) /\ copy.blocks \in Seq(Known) /\ copy.epk = Ephemeral
  BY <1>0, <1>1 DEF DamageInv, CopyInv, Wrapped
<1>3. 1 \in DOMAIN copy.blocks
  <2>1. was[6 * N] = <<was[6 * N][1], was[6 * N][2]>> /\ IsRow(was[6 * N][2], N)
    <3>1. 6 * N \in 0..(6 * N)
      BY <1>1
    <3>2. QED
      BY <1>1, <3>1 DEF IsHistory
  <2>2. Len(copy.blocks) = N + 1
    <3>1. Len(Wrapped(<<was[6 * N][1], was[6 * N][2]>>).blocks) = N + 1
      BY <1>1, <2>1, WrappedParts
    <3>2. QED
      BY <1>1, <2>1, <3>1, Zenon
  <2>3. QED
    BY <1>1, <1>2, <2>2, LenProperties
<1>4. Foreign \in Known
  BY DEF Known
<1>5. /\ IsCopy(copy') /\ copy'.blocks \in Seq(Known)
      /\ copy'.epk \in {copy.epk, LowOrder} \cup PrivateKeys
  BY <1>2, <1>3, <1>4, DamagedForm
<1>6. Known' = Known
  BY <1>0 DEF Known
<1>7. CopyInv'
  BY <1>0, <1>2, <1>5, <1>6 DEF CopyInv, DamageInv, IsCopy
<1>8. LastingInv'
  BY <1>0 DEF LastingInv, DamageInv
<1>9. QED
  BY <1>0, <1>7, <1>8 DEF DamageInv, TrackInv, OnlyIntactUnwraps

(* The registers of a whole wrap, and its last block of each. *)
LEMMA LastBlocksLost ==
    ASSUME NEW h, NEW k, NEW m \in Nat \ {0}, IsHistory(h, k, m, 6 * m),
           IsLasting(h, m, 6 * m), NEW b \in 1..m
    PROVE  Lost(h[6 * m][2][b])
<1>1. m * 5 + b \in 1..(6 * m) /\ 6 * m \in Nat
  OBVIOUS
<1>2. PICK d : d = m * 5 + b
  OBVIOUS
<1>3. d \in 1..(6 * m) /\ h[6 * m][2][b] = h[d][2][b]
  BY <1>1, <1>2 DEF IsLasting
<1>4. PICK p \in 0..5, c \in 1..m : IsMade(h, k, m, d, p, c)
  BY <1>1, <1>3, RoundParts
<1>5. b = c
  BY <1>2, <1>4, RoundNumber DEF IsMade
<1>6. h[d][2][b] = Cipher("second", k, h[d - 1][1], h[d - 1][2][c])
  BY <1>4, <1>5 DEF IsMade, IsRow
<1>7. QED
  BY <1>3, <1>6 DEF Lost, Cipher, Half

(* Every first block but the wrap's own is lost at once. *)
LEMMA UnwrapStartsUndamaged ==
    ASSUME KeyWrapInv, DamageInv, NEW priv \in PrivateKeys, Unwrap(priv)
    PROVE  DamageInv'
<1>0. /\ op \in {"stored", "delivered"} /\ N' = N /\ was' = was /\ copy' = copy
      /\ recipient' = recipient /\ key' = priv
  BY DEF Unwrap, N
<1>1. IsHistory(was, K, N, 6 * N) /\ N \in Nat \ {0} /\ IsLasting(was, N, 6 * N)
  BY <1>0 DEF KeyWrapInv, StoredInv, IsHistory, DamageInv, LastingInv
<1>2. /\ recipient \in PrivateKeys /\ IsCopy(copy) /\ copy.blocks \in Seq(Known)
      /\ copy.epk \in {Ephemeral, LowOrder} \cup PrivateKeys
  BY <1>0 DEF DamageInv, CopyInv
<1>3. Known' = Known
  BY <1>0 DEF Known
<1>4. CASE op' = "failed"
  BY <1>4 DEF DamageInv, LastingInv, CopyInv, TrackInv, OnlyIntactUnwraps
<1>5. CASE op' # "failed"
  <2>1. /\ op' = "unwrap" /\ kek' = Kek(key', copy'.epk)
        /\ copy.epk # LowOrder /\ copy.odd = 0 /\ ~(Len(copy.blocks) < 2)
        /\ a' = copy.blocks[1] /\ r' = Tail(copy.blocks)
        /\ j' = 5 /\ i' = Len(copy.blocks) - 1
    BY <1>5 DEF Unwrap
  <2>2. PICK m : m = Len(copy.blocks) - 1
    OBVIOUS
  <2>3. m \in Nat \ {0} /\ Len(copy.blocks) = m + 1 /\ copy.blocks # <<>>
    BY <1>2, <2>1, <2>2
  <2>4. Len(r') = m /\ r' \in Seq(Known) /\ \A b \in 1..m : r'[b] = copy.blocks[b + 1]
    <3> HIDE DEF Known
    <3>1. QED
      BY <1>2, <2>1, <2>3, HeadTailProperties
  <2>5. n' = m
    BY <2>4 DEF n
  <2>6. IsRow(r', n')
    <3> HIDE DEF Known
    <3>1. r' \in [1..m -> Known]
      BY <2>3, <2>4, LenProperties
    <3>2. QED
      BY <2>5, <3>1 DEF IsRow
  <2>7. counter' = 6 * m /\ depth' = 6 * N
    <3>1. counter' = m * 5 + m
      BY <2>1, <2>2, <2>5 DEF counter
    <3>2. depth' = 6 * N' - 6 * n' + counter'
      BY DEF depth
    <3>3. QED
      BY <1>0, <1>1, <2>3, <2>5, <3>1, <3>2
  <2>8. a' \in Known
    <3> HIDE DEF Known
    <3>1. QED
      BY <1>2, <2>1, <2>3
  <2>9. (Lost(a) \/ OnTrack)'
    <3>1. CASE a' = Foreign
      BY <3>1 DEF Lost, Foreign, Half
    <3>2. CASE \E b \in 1..N : a' = was[6 * N][2][b]
      BY <1>1, <3>2, LastBlocksLost DEF Lost
    <3>3. CASE a' = was[6 * N][1]
      <4>1. \A b \in 1..N' : n' = N' => Passed(b)'
        <5>1. SUFFICES ASSUME NEW b \in 1..N, m = N PROVE Passed(b)'
          BY <1>0, <2>5
        <5>2. ~(counter' < 5 * N' + b)
          BY <1>0, <1>1, <2>7, <5>1
        <5>3. r'[b] = copy'.blocks[b + 1]
          BY <1>0, <2>4, <5>1
        <5>4. QED
          BY <5>2, <5>3 DEF Passed
      <4>2. n' = N' => ~(counter' < 6 * N')
        BY <1>0, <1>1, <2>5, <2>7
      <4>3. depth' \in Nat /\ a' = was'[depth'][1] /\ copy'.blocks[1] = was'[6 * N'][1]
        BY <1>0, <1>1, <2>1, <2>7, <3>3
      <4>4. OnTrack'
        BY <4>1, <4>2, <4>3 DEF OnTrack
      <4>5. QED
        BY <4>4
    <3>4. QED
      BY <2>8, <3>1, <3>2, <3>3 DEF Known
  <2>10. TrackInv'
    <3>1. j' \in -1..5 /\ i' \in 1..n' /\ (j' = -1 => i' = n')
      BY <2>1, <2>2, <2>3, <2>5
    <3>2. QED
      BY <1>0, <2>1, <2>3, <2>5, <2>6, <2>9, <3>1 DEF TrackInv
  <2>11. CopyInv'
    <3>1. key' \in PrivateKeys /\ Len(copy'.blocks) >= 2
      BY <1>0, <2>3
    <3>2. QED
      BY <1>0, <1>2, <1>3, <2>1, <3>1 DEF CopyInv, IsCopy
  <2>12. LastingInv'
    BY <1>0, <1>1, <2>1 DEF LastingInv
  <2>13. QED
    BY <2>1, <2>10, <2>11, <2>12 DEF DamageInv, OnlyIntactUnwraps
<1>6. QED
  BY <1>4, <1>5

(* Where an unwrap is. *)
LEMMA UnwrapAt ==
    ASSUME KeyWrapInv, DamageInv, op = "unwrap"
    PROVE  /\ N \in Nat \ {0} /\ IsHistory(was, K, N, 6 * N) /\ IsLasting(was, N, 6 * N)
           /\ n \in Nat \ {0} /\ i \in 1..n /\ j \in -1..5 /\ (j = -1 => i = n)
           /\ IsRow(r, n) /\ Len(copy.blocks) = n + 1 /\ kek = Kek(key, copy.epk)
           /\ counter \in Int /\ counter <= 6 * n /\ (j >= 0 => counter > 0)
           /\ (j = -1 => counter = 0)
           /\ Lost(a) \/ OnTrack
<1>1. /\ n \in Nat \ {0} /\ i \in 1..n /\ j \in -1..5 /\ (j = -1 => i = n)
      /\ IsRow(r, n) /\ Len(copy.blocks) = n + 1 /\ kek = Kek(key, copy.epk)
      /\ Lost(a) \/ OnTrack
  BY DEF DamageInv, TrackInv
<1>2. N \in Nat \ {0} /\ IsHistory(was, K, N, 6 * N) /\ IsLasting(was, N, 6 * N)
  BY DEF KeyWrapInv, StoredInv, IsHistory, DamageInv, LastingInv
<1> DEFINE m == n
<1>3. m \in Nat \ {0} /\ i \in 1..m /\ j \in -1..5 /\ (j = -1 => i = m) /\ counter = m * j + i
  BY <1>1 DEF counter
<1> HIDE DEF m
<1>4. m * (-1) + m = 0
  BY <1>3
<1>5. m * j <= m * 5 /\ m * j \in Int /\ (j >= 0 => m * j >= 0)
  BY <1>3
<1>6. /\ counter \in Int /\ counter <= 6 * m /\ (j >= 0 => counter > 0)
      /\ (j = -1 => counter = 0)
  BY <1>3, <1>4, <1>5
<1> USE DEF m
<1>7. QED
  BY <1>1, <1>2, <1>6

(* A round on a lost register loses the next, and so does a round under    *)
(* another key, on another block or beyond the wrap's first round.         *)
LEMMA UnwrapAdvancesUndamaged ==
    ASSUME KeyWrapInv, DamageInv, UnwrapRound
    PROVE  DamageInv'
<1>0. /\ op = "unwrap" /\ op' = "unwrap" /\ j >= 0 /\ N' = N /\ was' = was /\ copy' = copy
      /\ recipient' = recipient /\ key' = key /\ kek' = kek
  BY DEF UnwrapRound, N
<1>1. /\ N \in Nat \ {0} /\ IsHistory(was, K, N, 6 * N) /\ IsLasting(was, N, 6 * N)
      /\ n \in Nat \ {0} /\ i \in 1..n /\ j \in 0..5
      /\ IsRow(r, n) /\ Len(copy.blocks) = n + 1 /\ kek = Kek(key, copy.epk)
      /\ counter \in Nat \ {0} /\ counter <= 6 * n
      /\ Lost(a) \/ OnTrack
  BY <1>0, UnwrapAt
<1> DEFINE x == xorCounter(a, counter)
           block == Decrypt(kek, x, r[i])
<1>2. x.core = a.core
  BY CoreStays, Zenon
<1>3. a' = block[1] /\ r' = [r EXCEPT ![i] = block[2]]
  BY DEF UnwrapRound
<1> HIDE DEF x, block
<1>4. IsRow(r', n) /\ n' = n
  <2>1. IsRow(r', n)
    BY <1>1, <1>3 DEF IsRow
  <2>2. Len(r') = n
    BY <1>1, <2>1, RowIsSequence
  <2>3. QED
    BY <2>1, <2>2 DEF n
<1>5. /\ j' \in -1..5 /\ i' \in 1..n /\ (j' = -1 => i' = n)
      /\ counter' = counter - 1
  <2> DEFINE m == n
  <2>0. m = n /\ counter = m * j + i /\ counter' = m * j' + i' /\ m \in Nat \ {0} /\ i \in 1..m
    BY <1>1, <1>4 DEF counter
  <2>1. IF i > 1 THEN i' = i - 1 /\ j' = j ELSE i' = m /\ j' = j - 1
    BY DEF UnwrapRound
  <2> HIDE DEF m
  <2>2. m * (j - 1) = m * j - m
    BY <1>1, <2>0
  <2>3. m * j \in Int
    BY <1>1, <2>0
  <2>4. CASE i > 1
    BY <1>1, <2>0, <2>1, <2>3, <2>4
  <2>5. CASE i = 1
    <3>1. i' = m /\ j' = j - 1
      BY <2>1, <2>5
    <3>2. counter' = m * (j - 1) + m
      BY <2>0, <3>1
    <3>3. counter' = m * j /\ counter = m * j + 1
      BY <2>0, <2>2, <2>3, <2>5, <3>2
    <3>4. QED
      BY <1>1, <2>0, <2>3, <3>1, <3>3
  <2> USE DEF m
  <2>6. QED
    BY <1>1, <2>0, <2>4, <2>5
<1>6. depth' = depth - 1
  BY <1>0, <1>1, <1>4, <1>5 DEF depth
<1>7. (Lost(a) \/ OnTrack)'
  <2>1. CASE a.core.kind # "first"
    <3>1. Lost(block[1])
      BY <1>2, <2>1, DecryptsToNoise DEF block
    <3>2. QED
      BY <1>3, <3>1 DEF Lost
  <2>2. CASE a.core.kind = "first"
    <3>1. OnTrack
      BY <1>1, <2>2 DEF Lost
    <3>2. PICK d : d = depth
      OBVIOUS
    <3>3. d \in 1..(6 * N) /\ a = was[d][1] /\ copy.blocks[1] = was[6 * N][1]
      <4>1. d \in Nat /\ a = was[d][1] /\ copy.blocks[1] = was[6 * N][1]
        BY <3>1, <3>2 DEF OnTrack
      <4>2. d <= 6 * N
        BY <1>1, <3>2 DEF depth
      <4>3. d # 0
        BY <1>1, <2>2, <4>1 DEF IsHistory, aesKeyWrapIV, Half
      <4>4. QED
        BY <1>1, <4>1, <4>2, <4>3
    <3>4. PICK p \in 0..5, b \in 1..N : IsMade(was, K, N, d, p, b)
      <4>1. 6 * N \in Nat
        BY <1>1
      <4>2. QED
        BY <1>1, <3>3, <4>1, RoundParts
    <3> DEFINE u == was[d - 1][1]
               v == was[d - 1][2][b]
    <3>5. /\ d = N * p + b /\ IsRow(was[d - 1][2], N)
          /\ was[d][1].core = Cipher("first", K, u, v).core
          /\ was[d][2] = [was[d - 1][2] EXCEPT ![b] = Cipher("second", K, u, v)]
      BY <3>4 DEF IsMade
    <3>6. CASE Lost(block[1])
      BY <1>3, <3>6 DEF Lost
    <3>7. CASE ~Lost(block[1])
      <4>1. kek = K /\ r[i] = Cipher("second", K, u, v) /\ block = <<u, v>>
        <5>1. x.core = Cipher("first", K, u, v).core
          BY <1>2, <3>3, <3>5
        <5>2. \/ Lost(Decrypt(kek, x, r[i])[1])
              \/ /\ kek = K /\ r[i] = Cipher("second", K, u, v)
                 /\ Decrypt(kek, x, r[i]) = <<u, v>>
          <6>1. PICK y : y = r[i]
            OBVIOUS
          <6>2. Lost(Decrypt(kek, x, y)[1])
                \/ /\ kek = K /\ y = Cipher("second", K, u, v)
                   /\ Decrypt(kek, x, y) = <<u, v>>
            <7> HIDE DEF u, v
            <7>1. QED
              BY <5>1, DecryptsOwn
          <6>3. QED
            BY <6>1, <6>2, Zenon
        <5>3. QED
          BY <3>7, <5>2, Zenon DEF block
      <4>2. a' = u /\ r' = [r EXCEPT ![i] = v]
        BY <1>3, <4>1
      <4>3. ASSUME n = N, NEW c \in 1..N PROVE Passed(c)'
        <5>1. counter = d /\ i = b /\ j = p
          <6>1. counter = d
            BY <1>1, <3>2, <4>3 DEF depth
          <6>2. counter = N * j + i
            BY <4>3 DEF counter
          <6>3. i \in 1..N
            BY <1>1, <4>3
          <6>4. N \in Nat /\ p \in Int /\ j \in Int /\ N * p + b = N * j + i
            BY <1>1, <3>5, <6>1, <6>2
          <6>5. QED
            BY <6>1, <6>3, <6>4, RoundNumber
        <5>2. Passed(c)
          BY <3>1, <4>3 DEF OnTrack
        <5>3. counter' = d - 1 /\ d = N * j + i /\ N * j <= N * 5 /\ N * j \in Nat
          BY <1>1, <1>5, <3>5, <5>1
        <5>4. CASE c = i
          <6>1. counter' < 5 * N + c
            BY <1>1, <4>3, <5>3, <5>4
          <6>2. r'[c] = was[d - 1][2][c]
            BY <1>1, <4>2, <4>3, <5>1, <5>4 DEF IsRow
          <6>3. copy.blocks[c + 1] = was[6 * N][2][c]
            <7>1. CASE counter < 5 * N + c
              BY <5>2, <7>1 DEF Passed
            <7>2. CASE ~(counter < 5 * N + c)
              <8>1. r[c] = copy.blocks[c + 1]
                BY <5>2, <7>2 DEF Passed
              <8>2. d = N * 5 + c
                BY <1>1, <4>3, <5>1, <5>3, <5>4, <7>2
              <8>3. was[6 * N][2][c] = was[d][2][c]
                BY <1>1, <3>3, <8>2 DEF IsLasting
              <8>4. was[d][2][c] = Cipher("second", K, u, v)
                BY <3>5, <5>1, <5>4 DEF IsRow
              <8>5. QED
                BY <4>1, <5>4, <8>1, <8>3, <8>4
            <7>3. QED
              BY <7>1, <7>2
          <6>4. QED
            BY <1>0, <5>3, <6>1, <6>2, <6>3 DEF Passed
        <5>5. CASE c # i
          <6>1. r'[c] = r[c]
            BY <1>1, <4>2, <4>3, <5>5 DEF IsRow
          <6>2. was[d][2][c] = was[d - 1][2][c]
            BY <3>5, <5>1, <5>5 DEF IsRow
          <6>3. d # N * 5 + c
            BY <1>1, <4>3, <5>3, <5>5, RoundNumber
          <6>4. CASE counter < 5 * N + c
            <7>1. counter' < 5 * N + c
              BY <1>1, <1>5, <4>3, <6>4
            <7>2. copy.blocks[c + 1] = was[6 * N][2][c] /\ r[c] = was[d][2][c]
              BY <5>1, <5>2, <6>4 DEF Passed
            <7>3. QED
              BY <1>0, <5>3, <6>1, <6>2, <7>1, <7>2 DEF Passed
          <6>5. CASE ~(counter < 5 * N + c)
            <7>1. ~(counter' < 5 * N + c)
              BY <1>1, <3>3, <4>3, <5>1, <5>3, <6>3, <6>5
            <7>2. r[c] = copy.blocks[c + 1]
              BY <5>2, <6>5 DEF Passed
            <7>3. QED
              BY <1>0, <6>1, <7>1, <7>2 DEF Passed
          <6>6. QED
            BY <6>4, <6>5
        <5>6. QED
          BY <5>4, <5>5
      <4>4. depth' = d - 1 /\ depth' \in Nat
        BY <1>6, <3>2, <3>3
      <4>5. K' = K
        BY <1>0 DEF K
      <4>6. n' = N' => /\ counter' < 6 * N' => kek' = K'
                       /\ \A c \in 1..N' : Passed(c)'
        BY <1>0, <1>4, <4>1, <4>3, <4>5
      <4>7. a' = was'[depth'][1] /\ copy'.blocks[1] = was'[6 * N'][1]
        BY <1>0, <3>3, <4>2, <4>4
      <4>8. OnTrack'
        BY <4>4, <4>6, <4>7 DEF OnTrack
      <4>9. QED
        BY <4>8
    <3>8. QED
      BY <3>6, <3>7
  <2>3. QED
    BY <2>1, <2>2
<1>8. TrackInv'
  BY <1>0, <1>1, <1>4, <1>5, <1>7 DEF TrackInv
<1>9. CopyInv'
  <2>1. Known' = Known
    BY <1>0 DEF Known
  <2>2. QED
    BY <1>0, <2>1 DEF DamageInv, CopyInv, IsCopy
<1>10. LastingInv'
  BY <1>0, <1>1 DEF LastingInv
<1>11. QED
  BY <1>0, <1>8, <1>9, <1>10 DEF DamageInv, OnlyIntactUnwraps

(* One key agreement has one pair of keys. *)
LEMMA SameKek ==
    ASSUME NEW p, NEW q, NEW x, NEW y, Kek(p, q) = Kek(x, y)
    PROVE  {p, q} = {x, y}
<1> DEFINE Z(z) == concatKDF(z, <<"ECDH-ES+A256KW", kekLenBits>>, kekLenBits)
           info == <<"ECDH-ES+A256KW", kekLenBits>>
<1>1. \A z : Z(z)[1] = <<1, z, info>>
  BY DEF concatKDF, kekLenBits
<1>2. Kek(p, q) = Z({p, q}) /\ Kek(x, y) = Z({x, y})
  BY DEF Kek, ECDH
<1> HIDE DEF Z, info
<1>3. <<1, {p, q}, info>> = <<1, {x, y}, info>>
  BY <1>1, <1>2
<1>4. QED
  BY <1>3

(* The initial value is met by those who undid every round.                *)
LEMMA UnwrapEndsUndamaged ==
    ASSUME KeyWrapInv, DamageInv, ReturnUnwrapped
    PROVE  DamageInv'
<1>0. /\ op = "unwrap" /\ j < 0 /\ N' = N /\ was' = was /\ copy' = copy
      /\ recipient' = recipient /\ key' = key
      /\ op' \in {"ok", "failed"} /\ (op' = "ok" => a = aesKeyWrapIV)
  BY DEF ReturnUnwrapped, N
<1>1. /\ N \in Nat \ {0} /\ IsHistory(was, K, N, 6 * N) /\ IsLasting(was, N, 6 * N)
      /\ n \in Nat \ {0} /\ Len(copy.blocks) = n + 1 /\ kek = Kek(key, copy.epk)
      /\ counter = 0 /\ (Lost(a) \/ OnTrack)
  <2>1. j \in -1..5
    BY <1>0, UnwrapAt
  <2>2. j = -1
    BY <1>0, <2>1
  <2>3. QED
    BY <1>0, <2>2, UnwrapAt
<1>2. /\ recipient \in PrivateKeys /\ key \in PrivateKeys /\ copy.odd = 0
      /\ IsCopy(copy) /\ copy.blocks \in Seq(Known)
      /\ copy.epk \in {Ephemeral, LowOrder} \cup PrivateKeys
  BY <1>0 DEF DamageInv, CopyInv
<1>3. ASSUME a = aesKeyWrapIV PROVE Intact
  <2>1. OnTrack
    BY <1>1, <1>3 DEF Lost, aesKeyWrapIV, Half
  <2>2. PICK d : d = depth
    OBVIOUS
  <2>3. d \in Nat /\ d = 6 * N - 6 * n /\ a = was[d][1]
    BY <1>1, <2>1, <2>2 DEF OnTrack, depth
  <2>4. d = 0
    <3>1. CASE d # 0
      <4>1. d \in 1..(6 * N) /\ 6 * N \in Nat
        BY <1>1, <2>3, <3>1
      <4>2. PICK p \in 0..5, b \in 1..N : IsMade(was, K, N, d, p, b)
        BY <1>1, <4>1, RoundParts
      <4>3. a.core.kind = "first"
        BY <2>3, <4>2 DEF IsMade, Cipher, Half
      <4>4. a.core.kind = "iv"
        BY <1>3 DEF aesKeyWrapIV, Half
      <4>5. QED
        BY <4>3, <4>4
    <3>2. QED
      BY <3>1
  <2>5. n = N
    BY <1>1, <2>3, <2>4
  <2>6. kek = K /\ \A b \in 1..N : copy.blocks[b + 1] = was[6 * N][2][b]
    <3>1. counter < 6 * N /\ \A b \in 1..N : counter < 5 * N + b
      BY <1>1
    <3>2. kek = K /\ \A b \in 1..N : Passed(b)
      BY <2>1, <2>5, <3>1 DEF OnTrack
    <3>3. QED
      BY <3>1, <3>2 DEF Passed
  <2>7. key = recipient /\ copy.epk = Ephemeral
    <3>1. {key, copy.epk} = {Ephemeral, recipient}
      <4>1. Kek(key, copy.epk) = Kek(Ephemeral, recipient)
        BY <1>1, <2>6 DEF K
      <4>2. QED
        BY <4>1, SameKek
    <3>2. key # Ephemeral /\ recipient # Ephemeral
      BY <1>2, KeysAssumption
    <3>3. QED
      BY <3>1, <3>2
  <2>8. copy.blocks = <<was[6 * N][1]>> \o was[6 * N][2]
    <3>1. /\ was[6 * N] = <<was[6 * N][1], was[6 * N][2]>> /\ IsRow(was[6 * N][2], N)
      <4>1. 6 * N \in 0..(6 * N)
        BY <1>1
      <4>2. QED
        BY <1>1, <4>1 DEF IsHistory
    <3> DEFINE f == was[6 * N][2]
               h == was[6 * N][1]
    <3>2. Len(f) = N /\ f \in Seq(Known) /\ <<h>> \in Seq(Known) /\ Len(<<h>>) = 1
      <4>1. h \in Known /\ \A b \in 1..N : f[b] \in Known
        BY DEF Known
      <4> HIDE DEF Known
      <4>2. f \in [1..N -> Known]
        BY <3>1, <4>1 DEF IsRow
      <4>3. QED
        BY <1>1, <4>1, <4>2, SeqDef, LenProperties
    <3>3. copy.blocks[1] = h
      BY <2>1 DEF OnTrack
    <3> HIDE DEF f, h, Known
    <3>4. /\ <<h>> \o f \in Seq(Known) /\ Len(<<h>> \o f) = N + 1
          /\ (<<h>> \o f)[1] = h /\ \A b \in 1..N : (<<h>> \o f)[b + 1] = f[b]
      BY <1>1, <3>2, ConcatProperties
    <3>5. \A b \in 1..(N + 1) : copy.blocks[b] = (<<h>> \o f)[b]
      <4>1. \A b \in 1..N : copy.blocks[b + 1] = f[b]
        BY <2>6 DEF f
      <4>2. SUFFICES ASSUME NEW b \in 1..(N + 1) PROVE copy.blocks[b] = (<<h>> \o f)[b]
        OBVIOUS
      <4>3. CASE b = 1
        BY <3>3, <3>4, <4>3
      <4>4. CASE b # 1
        <5>1. PICK c \in 1..N : b = c + 1
          <6>1. b - 1 \in 1..N /\ b = (b - 1) + 1
            BY <1>1, <4>4
          <6>2. QED
            BY <6>1
        <5>2. QED
          BY <3>4, <4>1, <5>1
      <4>5. QED
        BY <4>3, <4>4
    <3>6. Len(copy.blocks) = N + 1
      BY <1>1, <2>5
    <3>7. copy.blocks = <<h>> \o f
      BY <1>2, <3>4, <3>5, <3>6, SeqEqual
    <3>8. QED
      BY <3>7 DEF f, h
  <2>9. copy = [epk |-> Ephemeral, blocks |-> <<was[6 * N][1]>> \o was[6 * N][2], odd |-> 0]
    BY <1>2, <2>7, <2>8, Zenon DEF IsCopy
  <2>10. QED
    BY <2>7, <2>9 DEF Intact, Wrapped
<1>4. Intact' = Intact
  BY <1>0 DEF Intact
<1>5. CopyInv'
  <2>1. Known' = Known
    BY <1>0 DEF Known
  <2>2. QED
    BY <1>0, <2>1 DEF DamageInv, CopyInv, IsCopy
<1>6. LastingInv'
  BY <1>0, <1>1 DEF LastingInv
<1>7. QED
  BY <1>0, <1>3, <1>4, <1>5, <1>6 DEF DamageInv, TrackInv, OnlyIntactUnwraps

LEMMA DamageStep == KeyWrapInv /\ DamageInv /\ [Next]_vars => DamageInv'
<1> SUFFICES ASSUME KeyWrapInv, DamageInv, [Next]_vars PROVE DamageInv'
  OBVIOUS
<1>1. CASE UNCHANGED vars
  <2>1. /\ N' = N /\ n' = n /\ counter' = counter /\ K' = K /\ Known' = Known
        /\ Intact' = Intact
    BY <1>1 DEF vars, N, n, counter, K, Known, Intact
  <2>2. depth' = depth
    BY <2>1 DEF depth
  <2>3. LastingInv' /\ CopyInv' /\ OnlyIntactUnwraps'
    BY <1>1, <2>1 DEF vars, DamageInv, LastingInv, CopyInv, OnlyIntactUnwraps, IsCopy
  <2>4. OnTrack' = OnTrack /\ Lost(a)' = Lost(a)
    BY <1>1, <2>1, <2>2 DEF vars, OnTrack, Passed, Lost
  <2>5. TrackInv'
    BY <1>1, <2>1, <2>4 DEF vars, DamageInv, TrackInv
  <2>6. QED
    BY <2>3, <2>5 DEF DamageInv
<1>2. QED
  BY <1>1, WrapStartsUndamaged, WrapAdvancesUndamaged, WrapEndsUndamaged, DamageUndamaged,
     UnwrapStartsUndamaged, UnwrapAdvancesUndamaged, UnwrapEndsUndamaged DEF Next

(* Whatever the length of the data key and whatever was done to the stored *)
(* copy: Unwrap returns a key only from the copy Wrap made, unchanged, and *)
(* only to the private half of the key it was wrapped to.                  *)
THEOREM OnlyIntact == Spec => []OnlyIntactUnwraps
<1>1. Spec => []KeyWrapInv
  BY KeyWrapInvariant
<1>2. KeyWrapInv /\ KeyWrapInv' /\ DamageInv /\ [Next]_vars => DamageInv'
  BY DamageStep
<1>3. DamageInv => OnlyIntactUnwraps
  BY DEF DamageInv
<1>4. QED
  BY <1>1, <1>2, <1>3, DamageInit, PTL DEF Spec

----------------------------------------------------------------------------
(* The wrap is that of RFC 3394                                            *)

(* A solution of the recursion, over the first t steps. *)
IsShift(g, k, m, t) ==
    g = [s \in 0..t |-> IF s = 0 THEN <<aesKeyWrapIV, DataKey(m)>>
                                 ELSE Shifted(k, g[s - 1], s)]

(* The registers, from block c on: the shift register has the block whose  *)
(* turn it is in front.                                                    *)
Place(b, c, m) == IF b + c - 1 <= m THEN b + c - 1 ELSE b + c - 1 - m

Rotated(f, m, c) == [b \in 1..m |-> f[Place(b, c, m)]]

(* The recursion has a solution, and every solution is where the wrap is.  *)
ShiftInv ==
    /\ op = "wrap" =>
          /\ \E g : IsShift(g, kek, N, counter - 1)
          /\ \A g : IsShift(g, kek, N, 6 * N) => g[counter - 1] = <<a, Rotated(r, N, i)>>
    /\ WrapsAsRFC3394

LEMMA ShiftRegisterIsShift ==
    ASSUME NEW g, IsShift(g, kek, N, 6 * N)
    PROVE  IsShift(ShiftRegister, kek, N, 6 * N)
  BY DEF IsShift, ShiftRegister

Put(f, c, z) == [f EXCEPT ![c] = z]

Following(c, m) == IF c < m THEN c + 1 ELSE 1

(* A step of the shift register is a round on the next block. *)
LEMMA ShiftTurns ==
    ASSUME NEW m \in Nat \ {0}, NEW c \in 1..m, NEW f, IsRow(f, m), NEW z
    PROVE  /\ Head(Rotated(f, m, c)) = f[c]
           /\ Append(Tail(Rotated(f, m, c)), z) = Rotated(Put(f, c, z), m, Following(c, m))
<1> DEFINE d == Following(c, m)
           S == {f[b] : b \in 1..m} \cup {z}
           x == Rotated(f, m, c)
           g == Put(f, c, z)
           y == Rotated(g, m, d)
           w == Append(Tail(x), z)
<1>0. /\ \A b \in 1..m : Place(b, c, m) \in 1..m /\ Place(b, d, m) \in 1..m
      /\ Place(1, c, m) = c /\ Place(m, d, m) = c
      /\ \A b \in 1..(m - 1) : Place(b + 1, c, m) = Place(b, d, m) /\ Place(b, d, m) # c
  BY DEF Place, Following
<1>1. \A b \in 1..m : f[b] \in S
  OBVIOUS
<1>2. (\A b \in 1..m : x[b] = f[Place(b, c, m)]) /\ x = [b \in 1..m |-> x[b]]
  BY DEF Rotated
<1>3. (\A b \in 1..m : y[b] = g[Place(b, d, m)]) /\ y = [b \in 1..m |-> y[b]]
  BY DEF Rotated
<1>4. \A b \in 1..m : g[b] = IF b = c THEN z ELSE f[b]
  BY DEF IsRow, Put
<1> HIDE DEF d, S, x, g, y
<1>5. x \in Seq(S) /\ Len(x) = m
  <2>1. \A b \in 1..m : x[b] \in S
    BY <1>0, <1>1, <1>2
  <2>2. x \in [1..m -> S]
    BY <1>2, <2>1
  <2>3. QED
    BY <2>2, SeqDef, LenProperties
<1>6. y \in Seq(S) /\ Len(y) = m
  <2>0. z \in S
    BY DEF S
  <2>1. \A b \in 1..m : y[b] \in S
    <3>1. \A b \in 1..m : g[b] \in S
      BY <1>1, <1>4, <2>0
    <3>2. QED
      BY <1>0, <1>3, <3>1
  <2>2. y \in [1..m -> S]
    BY <1>3, <2>1
  <2>3. QED
    BY <2>2, SeqDef, LenProperties
<1>7. Head(x) = f[c]
  <2>1. 1 \in 1..m /\ x # <<>>
    BY <1>5
  <2>2. x[1] = f[c]
    BY <1>0, <1>2, <2>1
  <2>3. Head(x) = x[1]
    BY <1>5, <2>1, HeadTailProperties
  <2>4. QED
    BY <2>2, <2>3
<1>8. Tail(x) \in Seq(S) /\ Len(Tail(x)) = m - 1 /\ \A b \in 1..(m - 1) : Tail(x)[b] = x[b + 1]
  BY <1>5, HeadTailProperties
<1>9. w \in Seq(S) /\ Len(w) = m /\ w[m] = z /\ \A b \in 1..(m - 1) : w[b] = x[b + 1]
  <2>1. z \in S
    BY DEF S
  <2>2. QED
    BY <1>8, <2>1, AppendProperties
<1> HIDE DEF w
<1>10. ASSUME NEW b \in 1..m PROVE w[b] = y[b]
  <2>1. CASE b = m
    BY <1>0, <1>3, <1>4, <1>9, <2>1
  <2>2. CASE b # m
    <3>1. b \in 1..(m - 1) /\ b + 1 \in 1..m
      BY <2>2
    <3>2. w[b] = f[Place(b, d, m)]
      BY <1>0, <1>2, <1>9, <3>1
    <3>3. y[b] = f[Place(b, d, m)]
      BY <1>0, <1>3, <1>4, <3>1
    <3>4. QED
      BY <3>2, <3>3
  <2>3. QED
    BY <2>1, <2>2
<1>11. w = y
  BY <1>6, <1>9, <1>10, SeqEqual
<1>12. QED
  BY <1>7, <1>11 DEF w, x, y, g, d

LEMMA ShiftInit == Init => ShiftInv
  BY DEF Init, ShiftInv, WrapsAsRFC3394

LEMMA RotatedNot ==
    ASSUME NEW m \in Nat \ {0}, NEW f, IsRow(f, m)
    PROVE  Rotated(f, m, 1) = f
<1>1. \A b \in 1..m : Place(b, 1, m) = b
  BY DEF Place
<1>2. Rotated(f, m, 1) = [b \in 1..m |-> f[b]]
  BY <1>1 DEF Rotated
<1>3. QED
  BY <1>2 DEF IsRow

LEMMA ShiftStarts ==
    ASSUME KeyWrapInv, ShiftInv, NEW pub \in PrivateKeys \cup {LowOrder},
           NEW length \in Sizes, Wrap(pub, length)
    PROVE  ShiftInv'
<1>1. CASE op' = "failed"
  BY <1>1 DEF ShiftInv, WrapsAsRFC3394
<1>2. CASE op' # "failed"
  <2>1. op' = "wrap" /\ r' = DataKey(N') /\ i' = 1 /\ a' = aesKeyWrapIV
    BY <1>2 DEF Wrap, N, KeyWrapInv, TypeInv
  <2>2. KeyWrapInv'
    BY WrapStarts, Zenon
  <2>3. N' \in Nat \ {0} /\ counter' - 1 = 0 /\ 6 * N' \in Nat
    <3>1. N' \in Nat \ {0} /\ counter' - 1 = 0
      BY <2>1, WrapStartsAt
    <3>2. 6 * N' \in Nat
      <4>1. \A m \in Nat \ {0} : 6 * m \in Nat
        OBVIOUS
      <4>2. QED
        BY <3>1, <4>1, Zenon
    <3>3. QED
      BY <3>1, <3>2, Zenon
  <2>4. Rotated(r', N', 1) = r'
    BY <2>1, <2>3, DataKeyIsRow, RotatedNot
  <2> DEFINE start == <<aesKeyWrapIV, DataKey(N')>>
  <2>5. IsShift([s \in 0..0 |-> start], kek', N', 0)
    BY DEF IsShift
  <2>6. \A g : IsShift(g, kek', N', 6 * N') => g[0] = start
    BY <2>3 DEF IsShift
  <2>7. QED
    BY <2>1, <2>3, <2>4, <2>5, <2>6 DEF ShiftInv, WrapsAsRFC3394
<1>3. QED
  BY <1>1, <1>2

(* One more step of the recursion has a value. *)
LEMMA ShiftGrows ==
    ASSUME NEW g, NEW k, NEW m, NEW t \in Nat, IsShift(g, k, m, t)
    PROVE  \E h : IsShift(h, k, m, t + 1)
<1> DEFINE next == Shifted(k, g[t], t + 1)
           h == [s \in 0..(t + 1) |-> IF s = t + 1 THEN next ELSE g[s]]
<1>1. \A s \in 0..t : h[s] = g[s]
  OBVIOUS
<1>2. /\ \A s \in 0..t : g[s] = IF s = 0 THEN <<aesKeyWrapIV, DataKey(m)>>
                                         ELSE Shifted(k, g[s - 1], s)
  BY DEF IsShift
<1>3. h[t + 1] = Shifted(k, h[t], t + 1)
  BY <1>1
<1> HIDE DEF next
<1>4. ASSUME NEW s \in 0..(t + 1)
      PROVE  h[s] = IF s = 0 THEN <<aesKeyWrapIV, DataKey(m)>> ELSE Shifted(k, h[s - 1], s)
  <2>1. CASE s = t + 1
    BY <1>3, <2>1
  <2>2. CASE s \in 0..t
    <3>1. s # 0 => s - 1 \in 0..t
      BY <2>2
    <3>2. QED
      BY <1>1, <1>2, <2>2, <3>1
  <2>3. QED
    BY <2>1, <2>2
<1>5. h = [s \in 0..(t + 1) |-> h[s]]
  OBVIOUS
<1> HIDE DEF h
<1>6. IsShift(h, k, m, t + 1)
  BY <1>4, <1>5 DEF IsShift
<1>7. QED
  BY <1>6

LEMMA ShiftAdvances ==
    ASSUME KeyWrapInv, ShiftInv, WrapRound
    PROVE  ShiftInv'
<1>0. op = "wrap" /\ j <= 5 /\ op' = "wrap" /\ N' = N /\ kek' = kek
  BY DEF WrapRound, N
<1>1. PICK t : t = counter
  OBVIOUS
<1>2. /\ N \in Nat \ {0} /\ n = N /\ t \in Nat \ {0} /\ IsRow(r, N)
      /\ j \in 0..5 /\ i \in 1..N /\ t = N * j + i
  BY <1>0, <1>1, WrapAt
<1>3. counter' = N * j' + i'
  <2>1. KeyWrapInv'
    BY WrapAdvances
  <2>2. (op = "wrap" => counter = N * j + i)'
    BY <2>1, WrapAt, PTL
  <2>3. QED
    BY <1>0, <2>2
<1>4. counter' - 1 = t /\ t <= 6 * N /\ i' \in 1..N /\ i' = IF i < N THEN i + 1 ELSE 1
  <2>1. N * j <= N * 5 /\ N * j \in Nat /\ N * (j + 1) = N * j + N
    BY <1>2
  <2>2. i' = IF i < N THEN i + 1 ELSE 1
    BY <1>2 DEF WrapRound
  <2>3. j' = IF i < N THEN j ELSE j + 1
    BY <1>2 DEF WrapRound
  <2>4. counter' = t + 1
    <3>1. CASE i < N
      BY <1>2, <1>3, <2>1, <2>2, <2>3, <3>1
    <3>2. CASE i = N
      <4>1. counter' = N * (j + 1) + 1
        BY <1>2, <1>3, <2>2, <2>3, <3>2
      <4>2. QED
        BY <1>2, <2>1, <3>2, <4>1
    <3>3. QED
      BY <1>2, <3>1, <3>2
  <2>5. QED
    BY <1>2, <2>1, <2>2, <2>4
<1> DEFINE block == Encrypt(kek, a, r[i])
<1>5. a' = xorCounter(block[1], t) /\ r' = [r EXCEPT ![i] = block[2]]
  BY <1>1 DEF WrapRound
<1>6. /\ Head(Rotated(r, N, i)) = r[i]
      /\ Append(Tail(Rotated(r, N, i)), block[2]) = Rotated(r', N, i')
  <2> HIDE DEF block
  <2>1. PICK z : z = block[2]
    OBVIOUS
  <2>2. PICK c : c = i'
    OBVIOUS
  <2>3. /\ Head(Rotated(r, N, i)) = r[i]
        /\ Append(Tail(Rotated(r, N, i)), z) = Rotated(Put(r, i, z), N, c)
    <3>1. c = Following(i, N)
      BY <1>4, <2>2 DEF Following
    <3>2. N \in Nat \ {0} /\ i \in 1..N /\ IsRow(r, N)
      BY <1>2
    <3>3. QED
      BY <3>1, <3>2, ShiftTurns
  <2>4. QED
    BY <1>5, <2>1, <2>2, <2>3, Zenon DEF Put
<1>7. Shifted(kek, <<a, Rotated(r, N, i)>>, t) = <<a', Rotated(r', N, i')>>
  BY <1>5, <1>6 DEF Shifted
<1>8. ASSUME NEW g, IsShift(g, kek, N, 6 * N) PROVE g[t] = <<a', Rotated(r', N, i')>>
  <2>1. g[t - 1] = <<a, Rotated(r, N, i)>>
    BY <1>0, <1>1, <1>8 DEF ShiftInv
  <2>2. g[t] = Shifted(kek, g[t - 1], t)
    <3>1. t \in 0..(6 * N) /\ t # 0
      BY <1>2, <1>4
    <3>2. \A s \in 0..(6 * N) : s # 0 => g[s] = Shifted(kek, g[s - 1], s)
      BY <1>8 DEF IsShift
    <3>3. QED
      BY <3>1, <3>2
  <2>3. QED
    BY <1>7, <2>1, <2>2
<1>9. \E g : IsShift(g, kek, N, t)
  <2>1. PICK g : IsShift(g, kek, N, t - 1)
    BY <1>0, <1>1 DEF ShiftInv
  <2>2. t - 1 \in Nat /\ (t - 1) + 1 = t
    BY <1>2
  <2>3. QED
    BY <2>1, <2>2, ShiftGrows
<1>10. QED
  BY <1>0, <1>4, <1>8, <1>9 DEF ShiftInv, WrapsAsRFC3394

LEMMA ShiftEnds ==
    ASSUME KeyWrapInv, ShiftInv, ReturnWrapped
    PROVE  ShiftInv'
<1>0. op = "wrap" /\ j > 5 /\ op' = "stored" /\ copy' = Wrapped(<<a, r>>)
  BY DEF ReturnWrapped
<1>1. N \in Nat \ {0} /\ IsRow(r, N) /\ i = 1 /\ counter - 1 = 6 * N
  <2>1. j = 6 /\ i = 1 /\ counter = N * j + i /\ N \in Nat \ {0} /\ IsRow(r, N)
    BY <1>0, WrapAt
  <2>2. QED
    BY <2>1
<1>2. IsShift(ShiftRegister, kek, N, 6 * N)
  <2>1. PICK g : IsShift(g, kek, N, 6 * N)
    BY <1>0, <1>1 DEF ShiftInv
  <2>2. QED
    BY <2>1, ShiftRegisterIsShift
<1>3. ShiftRegister[6 * N] = <<a, Rotated(r, N, 1)>>
  BY <1>0, <1>1, <1>2 DEF ShiftInv
<1>4. RFC3394 = <<a, r>>
  BY <1>1, <1>3, RotatedNot DEF RFC3394
<1>5. RFC3394' = RFC3394
  BY DEF ReturnWrapped, RFC3394, ShiftRegister, N
<1>6. QED
  BY <1>0, <1>4, <1>5 DEF ShiftInv, WrapsAsRFC3394

LEMMA ShiftStep == KeyWrapInv /\ ShiftInv /\ [Next]_vars => ShiftInv'
<1> SUFFICES ASSUME KeyWrapInv, ShiftInv, [Next]_vars PROVE ShiftInv'
  OBVIOUS
<1>1. CASE UNCHANGED vars
  <2>1. N' = N /\ counter' = counter /\ RFC3394' = RFC3394
    BY <1>1 DEF vars, N, n, counter, RFC3394, ShiftRegister
  <2>2. QED
    BY <1>1, <2>1 DEF vars, ShiftInv, WrapsAsRFC3394
<1>2. CASE Damage \/ (\E priv \in PrivateKeys : Unwrap(priv)) \/ UnwrapRound \/ ReturnUnwrapped
  <2>1. op' \notin {"wrap", "stored"}
    BY <1>2 DEF Damage, Unwrap, UnwrapRound, ReturnUnwrapped
  <2>2. QED
    BY <2>1 DEF ShiftInv, WrapsAsRFC3394
<1>3. QED
  BY <1>1, <1>2, ShiftStarts, ShiftAdvances, ShiftEnds DEF Next

(* For data keys of every length, what is stored is what the shift         *)
(* register of RFC 3394 holds after its 6n steps.                          *)
THEOREM ConformsToRFC == Spec => []WrapsAsRFC3394
<1>1. Spec => []KeyWrapInv
  BY KeyWrapInvariant
<1>2. KeyWrapInv /\ ShiftInv /\ [Next]_vars => ShiftInv'
  BY ShiftStep
<1>3. ShiftInv => WrapsAsRFC3394
  BY DEF ShiftInv
<1>4. QED
  BY <1>1, <1>2, <1>3, ShiftInit, PTL DEF Spec

============================================================================
