----------------------------- MODULE JwksProofs -----------------------------
(***************************************************************************)
(* What bounds the staleness of the shell's Bearer check, for every number *)
(* of requests and keys and every TTL and timeout: JwksInv is inductive,   *)
(* and with it the three properties of what Authorize answers.             *)
(***************************************************************************)
EXTENDS Jwks, TLAPS

(* What is shown inductive: the answers are judged by it when given.       *)
Inv == JwksInv /\ OnlyRecentKeysAdmit /\ PublishedKeysAdmit

(* What the two properties ask of one answer, now. *)
SoundVerdict(token, v) ==
    LET k == token.key
    IN  /\ v \in {"authorized", "forbidden"} =>
             since[k] # Nil /\ (until[k] = Nil \/ now < until[k] + Window)
        /\ v = "unauthorized" /\ token.claims =>
             \/ since[k] = Nil
             \/ now < since[k] + Window
             \/ until[k] # Nil

(* The initial states satisfy the invariant. *)
LEMMA InitInv == Init => Inv
<1> SUFFICES ASSUME Init PROVE Inv
  OBVIOUS
<1>1. TypeOK
  BY DurationsAssumption DEF Init, TypeOK, Times, Verdicts
<1>2. RealmInv /\ CacheInv /\ \A r \in Requests : FetchInv(r)
  BY DurationsAssumption, NilAssumption
     DEF Init, RealmInv, CacheInv, FetchInv, NoBearer, Verdicts
<1>3. OnlyRecentKeysAdmit /\ PublishedKeysAdmit
  BY NilAssumption DEF Init, OnlyRecentKeysAdmit, PublishedKeysAdmit, Verdicts
<1>4. QED
  BY <1>1, <1>2, <1>3 DEF Inv, JwksInv

(* A verdict on a set no older than the window is a sound one: this is     *)
(* where the TTL and the timeout add up.                                   *)
LEMMA RecentSetJudgesWell ==
    ASSUME RealmInv, TypeOK, NEW token \in Tokens, NEW keys, NEW t \in Nat,
           TakenAt(keys, t), now < t + Window
    PROVE  /\ Judge(token, keys) \in Verdicts
           /\ SoundVerdict(token, Judge(token, keys))
<1> DEFINE k == token.key
<1>1. k \in Keys
  BY TokensAssumption
<1>2. Window \in Nat /\ now \in Nat
  BY DurationsAssumption DEF Window, TypeOK, Times
<1>3. /\ since[k] # Nil => since[k] \in Nat
      /\ until[k] # Nil => until[k] \in Nat
  BY <1>1, DurationsAssumption DEF TypeOK, Times
<1>4. CASE k \in keys
  <2>1. since[k] # Nil /\ (until[k] # Nil => t <= until[k])
    BY <1>1, <1>4 DEF TakenAt
  <2>2. until[k] = Nil \/ now < until[k] + Window
    BY <2>1, <1>2, <1>3
  <2>3. QED
    BY <1>4, <2>1, <2>2 DEF Judge, SoundVerdict, Verdicts
<1>5. CASE k \notin keys
  <2>1. since[k] = Nil \/ t <= since[k] \/ until[k] # Nil
    BY <1>1, <1>5 DEF TakenAt
  <2>2. since[k] = Nil \/ now < since[k] + Window \/ until[k] # Nil
    BY <2>1, <1>2, <1>3
  <2>3. QED
    BY <1>5, <2>2 DEF Judge, SoundVerdict, Verdicts
<1>6. QED
  BY <1>4, <1>5

(* An Authorize that returns leaves a well-typed record of itself, and the *)
(* answers given to the others stand.                                      *)
LEMMA ReturnInv ==
    ASSUME Inv, NEW r \in Requests, pc[r] # "idle",
           NEW v \in Verdicts,
           Return(r, v), UNCHANGED <<now, realm>>,
           SoundVerdict(bearer[r], v),
           CacheInv', set' \in (SUBSET Keys) \cup {Nil},
           fetchedAt' \in Times, setTakenAt' \in Times
    PROVE  Inv'
<1>1. TypeOK'
  BY DurationsAssumption DEF Inv, JwksInv, TypeOK, Return, realm, Times, Verdicts
<1>2. RealmInv'
  BY DEF Inv, JwksInv, RealmInv, realm
<1>3. ASSUME NEW q \in Requests PROVE FetchInv(q)'
  BY DEF Inv, JwksInv, TypeOK, FetchInv, TakenAt, Return, realm
<1>4. OnlyRecentKeysAdmit'
  BY DEF Inv, JwksInv, TypeOK, OnlyRecentKeysAdmit, SoundVerdict, Return, realm,
       Window
<1>5. PublishedKeysAdmit'
  BY DEF Inv, JwksInv, TypeOK, PublishedKeysAdmit, SoundVerdict, Return, realm,
       Window
<1>6. QED
  BY <1>1, <1>2, <1>3, <1>4, <1>5 DEF Inv, JwksInv

(* A call leaves the cache alone and has no answer yet, or a refusal that  *)
(* no key had a part in.                                                   *)
LEMMA CallInv ==
    ASSUME Inv, NEW r \in Requests, NEW token \in Tokens \cup {NoBearer},
           Call(r, token)
    PROVE  Inv'
<1>1. TypeOK'
  BY DEF Inv, JwksInv, TypeOK, Call, realm, cache, answer, Verdicts
<1>2. RealmInv' /\ CacheInv'
  BY DEF Inv, JwksInv, RealmInv, CacheInv, TakenAt, Call, realm, cache
<1>3. verdict'[r] \in {Nil, "unauthorized"} /\ bearer'[r] = token
      /\ (verdict'[r] # Nil => token = NoBearer)
  BY DEF Inv, JwksInv, TypeOK, Call
<1>4. ASSUME NEW q \in Requests PROVE FetchInv(q)'
  BY <1>3, NilAssumption
     DEF Inv, JwksInv, TypeOK, FetchInv, TakenAt, Call, realm, answer, Verdicts
<1>5. ASSUME NEW q \in Requests, q # r
      PROVE  verdict'[q] = verdict[q] /\ bearer'[q] = bearer[q]
  BY <1>5 DEF Inv, JwksInv, TypeOK, Call
<1>6. now' = now /\ since' = since /\ until' = until
  BY DEF Call, realm
<1>7. OnlyRecentKeysAdmit'
  BY <1>3, <1>5, <1>6, NilAssumption DEF Inv, OnlyRecentKeysAdmit, Window, Verdicts
<1>8. PublishedKeysAdmit'
  BY <1>3, <1>5, <1>6, NilAssumption
     DEF Inv, PublishedKeysAdmit, Window, Verdicts, NoBearer
<1>9. QED
  BY <1>1, <1>2, <1>4, <1>7, <1>8 DEF Inv, JwksInv

(* A fresh cache is no older than the window. *)
LEMMA ReadCacheInv ==
    ASSUME Inv, NEW r \in Requests, ReadCache(r)
    PROVE  Inv'
<1>1. CASE Fresh
  <2>1. /\ TakenAt(set, setTakenAt) /\ now < setTakenAt + Window
        /\ setTakenAt \in Nat /\ bearer[r] \in Tokens
    BY <1>1, DurationsAssumption
       DEF Inv, JwksInv, CacheInv, FetchInv, TypeOK, Times, Fresh, Window, ReadCache
  <2>2. Return(r, Judge(bearer[r], set)) /\ UNCHANGED <<now, realm, cache>>
    BY <1>1 DEF ReadCache
  <2>3. CacheInv' /\ set' \in (SUBSET Keys) \cup {Nil}
        /\ fetchedAt' \in Times /\ setTakenAt' \in Times
    BY <2>2 DEF Inv, JwksInv, CacheInv, TypeOK, TakenAt, cache, realm
  <2>4. pc[r] # "idle" /\ RealmInv /\ TypeOK
    BY DEF ReadCache, Inv, JwksInv
  <2>5. QED
    BY <2>1, <2>2, <2>3, <2>4, RecentSetJudgesWell, ReturnInv
<1>2. CASE ~Fresh
  <2>1. TypeOK'
    BY <1>2 DEF Inv, JwksInv, TypeOK, ReadCache, realm, cache, called
  <2>2. RealmInv' /\ CacheInv'
    BY <1>2 DEF Inv, JwksInv, RealmInv, CacheInv, TakenAt, ReadCache, realm, cache
  <2>3. ASSUME NEW q \in Requests PROVE FetchInv(q)'
    BY <1>2, DurationsAssumption
       DEF Inv, JwksInv, TypeOK, FetchInv, TakenAt, ReadCache, realm, called, Times
  <2>4. OnlyRecentKeysAdmit' /\ PublishedKeysAdmit'
    BY <1>2 DEF Inv, OnlyRecentKeysAdmit, PublishedKeysAdmit, ReadCache, realm,
         called, Window
  <2>5. QED
    BY <2>1, <2>2, <2>3, <2>4 DEF Inv, JwksInv
<1>3. QED
  BY <1>1, <1>2

(* What Keycloak composes shows the realm as it is. *)
LEMMA ServerAnswersInv ==
    ASSUME Inv, NEW r \in Requests, ServerAnswers(r)
    PROVE  Inv'
<1>1. TypeOK'
  <2>1. Published \in SUBSET Keys /\ Published # Nil
    BY NilAssumption DEF Published
  <2>2. QED
    BY <2>1, DurationsAssumption
       DEF Inv, JwksInv, TypeOK, ServerAnswers, realm, cache, called, Times
<1>2. RealmInv' /\ CacheInv'
  BY DEF Inv, JwksInv, RealmInv, CacheInv, TakenAt, ServerAnswers, realm, cache
<1>3. TakenAt(Published, now)
  BY DEF Inv, JwksInv, RealmInv, TakenAt, Published
<1>4. ASSUME NEW q \in Requests PROVE FetchInv(q)'
  BY <1>3, DurationsAssumption
     DEF Inv, JwksInv, TypeOK, FetchInv, TakenAt, ServerAnswers, realm, called, Times
<1>5. OnlyRecentKeysAdmit' /\ PublishedKeysAdmit'
  BY DEF Inv, OnlyRecentKeysAdmit, PublishedKeysAdmit, ServerAnswers, realm,
       called, Window
<1>6. QED
  BY <1>1, <1>2, <1>4, <1>5 DEF Inv, JwksInv

(* What is stored has been on its way for no longer than the timeout. *)
LEMMA StoreInv ==
    ASSUME Inv, NEW r \in Requests, Store(r)
    PROVE  Inv'
<1>1. /\ TakenAt(got[r], takenAt[r]) /\ takenAt[r] <= now
      /\ now <= takenAt[r] + FetchTimeout /\ now < takenAt[r] + Window
      /\ takenAt[r] \in Nat /\ takenAt[r] \in Times /\ now \in Times
      /\ bearer[r] \in Tokens
      /\ got[r] \in (SUBSET Keys) \cup {Nil}
  BY DurationsAssumption
     DEF Inv, JwksInv, FetchInv, TypeOK, Times, Window, Store
<1>2. /\ Return(r, Judge(bearer[r], got[r])) /\ UNCHANGED <<now, realm>>
      /\ set' = got[r] /\ fetchedAt' = now /\ setTakenAt' = takenAt[r]
      /\ pc[r] # "idle"
  BY DEF Store
<1>3. CacheInv'
  <2>1. TakenAt(set, setTakenAt)'
    BY <1>1, <1>2 DEF TakenAt, realm
  <2>2. /\ setTakenAt' <= fetchedAt' /\ fetchedAt' <= now'
        /\ fetchedAt' <= setTakenAt' + FetchTimeout
    BY <1>1, <1>2, DurationsAssumption DEF Times
  <2>3. QED
    BY <2>1, <2>2 DEF CacheInv
<1>4. RealmInv /\ TypeOK
  BY DEF Inv, JwksInv
<1>5. QED
  BY <1>1, <1>2, <1>3, <1>4, RecentSetJudgesWell, ReturnInv

(* A failed fetch answers without a key set and leaves the cache alone. *)
LEMMA FetchFailsInv ==
    ASSUME Inv, NEW r \in Requests, FetchFails(r)
    PROVE  Inv'
<1>1. /\ Return(r, "no_keys") /\ UNCHANGED <<now, realm, cache>>
      /\ pc[r] # "idle"
  BY DEF FetchFails
<1>2. CacheInv' /\ set' \in (SUBSET Keys) \cup {Nil}
      /\ fetchedAt' \in Times /\ setTakenAt' \in Times
  BY <1>1 DEF Inv, JwksInv, CacheInv, TypeOK, TakenAt, cache, realm
<1>3. "no_keys" \in Verdicts /\ SoundVerdict(bearer[r], "no_keys")
  BY DEF Verdicts, SoundVerdict
<1>4. QED
  BY <1>1, <1>2, <1>3, ReturnInv

(* A key published or retired now was not, or still was, at every earlier  *)
(* moment a set was taken.                                                 *)
LEMMA RealmMoves ==
    ASSUME Inv, NEW k \in Keys, Publish(k) \/ Retire(k)
    PROVE  Inv'
<1>1. TypeOK'
  BY DEF Inv, JwksInv, TypeOK, Publish, Retire, cache, called, answer
<1>2. RealmInv'
  BY DEF Inv, JwksInv, TypeOK, RealmInv, Publish, Retire, Published, Times
<1>3. ASSUME NEW keys, NEW t \in Times, t <= now, TakenAt(keys, t)
      PROVE  TakenAt(keys, t)'
  BY <1>3, DurationsAssumption
     DEF Inv, JwksInv, TypeOK, RealmInv, TakenAt, Publish, Retire, Published, Times
<1>4. CacheInv'
  <2>1. set # Nil => setTakenAt <= now
    BY DurationsAssumption DEF Inv, JwksInv, TypeOK, CacheInv, Times
  <2>2. QED
    BY <1>3, <2>1 DEF Inv, JwksInv, TypeOK, CacheInv, TakenAt, Publish, Retire, cache
<1>5. ASSUME NEW q \in Requests PROVE FetchInv(q)'
  <2>1. UNCHANGED <<now, pc, bearer, calledAt, fetchAt, got, takenAt, verdict>>
    BY DEF Publish, Retire, called, answer
  <2>2. pc[q] = "store" => TakenAt(got[q], takenAt[q])'
    <3>1. takenAt[q] \in Times /\ FetchInv(q)
      BY DEF Inv, JwksInv, TypeOK
    <3>2. pc[q] = "store" => TakenAt(got[q], takenAt[q]) /\ takenAt[q] <= now
      BY <3>1 DEF FetchInv
    <3>3. pc[q] = "store" =>
            \A x \in Keys :
                IF x \in got[q]
                THEN /\ since'[x] # Nil /\ since'[x] <= takenAt[q]
                     /\ until'[x] # Nil => takenAt[q] <= until'[x]
                ELSE \/ since'[x] = Nil \/ takenAt[q] <= since'[x]
                     \/ until'[x] # Nil /\ until'[x] <= takenAt[q]
      BY <1>3, <3>1, <3>2 DEF TakenAt
    <3>4. QED
      BY <2>1, <3>3 DEF TakenAt
  <2>3. QED
    BY <2>1, <2>2 DEF Inv, JwksInv, FetchInv
<1>6. OnlyRecentKeysAdmit'
  <2>1. now < now + Window
    BY DurationsAssumption DEF Inv, JwksInv, TypeOK, Times, Window
  <2>2. SUFFICES ASSUME NEW q \in Requests,
                        verdict[q] \in {"authorized", "forbidden"}
                 PROVE  LET x == bearer[q].key
                        IN  /\ since'[x] # Nil
                            /\ until'[x] = Nil \/ now < until'[x] + Window
    BY DEF OnlyRecentKeysAdmit, Publish, Retire, called, Window
  <2>3. bearer[q].key \in Keys
    BY <2>2, TokensAssumption DEF Inv, JwksInv, FetchInv
  <2>4. since[bearer[q].key] # Nil /\ since \in [Keys -> Times \cup {Nil}]
        /\ until \in [Keys -> Times \cup {Nil}]
        /\ (until[bearer[q].key] = Nil \/ now < until[bearer[q].key] + Window)
    BY <2>2 DEF Inv, JwksInv, TypeOK, OnlyRecentKeysAdmit
  <2>5. QED
    BY <2>1, <2>3, <2>4 DEF Publish, Retire
<1>7. PublishedKeysAdmit'
  <2>1. now < now + Window
    BY DurationsAssumption DEF Inv, JwksInv, TypeOK, Times, Window
  <2>2. SUFFICES ASSUME NEW q \in Requests,
                        verdict[q] = "unauthorized", bearer[q].claims
                 PROVE  LET x == bearer[q].key
                        IN  \/ since'[x] = Nil
                            \/ now < since'[x] + Window
                            \/ until'[x] # Nil
    BY DEF PublishedKeysAdmit, Publish, Retire, called, Window
  <2>3. bearer[q].key \in Keys
    BY <2>2, TokensAssumption DEF Inv, JwksInv, TypeOK, NoBearer
  <2>4. /\ since \in [Keys -> Times \cup {Nil}]
        /\ until \in [Keys -> Times \cup {Nil}]
        /\ \/ since[bearer[q].key] = Nil
           \/ now < since[bearer[q].key] + Window
           \/ until[bearer[q].key] # Nil
    BY <2>2 DEF Inv, JwksInv, TypeOK, PublishedKeysAdmit
  <2>5. now # Nil
    BY NilAssumption DEF Inv, JwksInv, TypeOK, Times
  <2>6. QED
    BY <2>1, <2>3, <2>4, <2>5 DEF Publish, Retire
<1>8. QED
  BY <1>1, <1>2, <1>4, <1>5, <1>6, <1>7 DEF Inv, JwksInv

(* The clock waits for who can run and for a fetch at its deadline. *)
LEMMA TickInv ==
    ASSUME Inv, Tick
    PROVE  Inv'
<1>1. now' = now + 1 /\ now \in Nat /\ now' \in Times
  BY DurationsAssumption DEF Inv, JwksInv, TypeOK, Times, Tick
<1>2. TypeOK'
  BY <1>1 DEF Inv, JwksInv, TypeOK, Tick, realm, cache, answer
<1>3. RealmInv' /\ CacheInv'
  BY <1>1, DurationsAssumption
     DEF Inv, JwksInv, TypeOK, RealmInv, CacheInv, TakenAt, Tick, realm, cache, Times
<1>4. ASSUME NEW q \in Requests PROVE FetchInv(q)'
  <2>1. pc[q] # "read"
    BY DEF Tick, CanLock, HoldingMu
  <2>2. pc[q] \in {"fetch", "store"} => now - fetchAt[q] < FetchTimeout
    BY DurationsAssumption DEF Inv, JwksInv, TypeOK, Times, Tick, Expired
  <2>3. QED
    BY <1>1, <2>1, <2>2, DurationsAssumption, NilAssumption
       DEF Inv, JwksInv, TypeOK, FetchInv, TakenAt, Tick, realm, answer, Times,
           Verdicts
<1>5. OnlyRecentKeysAdmit' /\ PublishedKeysAdmit'
  <2>1. ASSUME NEW q \in Requests PROVE verdict'[q] \notin Verdicts
    BY NilAssumption DEF Tick
  <2>2. QED
    BY <2>1 DEF OnlyRecentKeysAdmit, PublishedKeysAdmit, Verdicts
<1>6. QED
  BY <1>2, <1>3, <1>4, <1>5 DEF Inv, JwksInv

(* The invariant is inductive, whichever action is taken. *)
LEMMA StepInv == Inv /\ [Next]_vars => Inv'
<1> SUFFICES ASSUME Inv, [Next]_vars PROVE Inv'
  OBVIOUS
<1>1. CASE UNCHANGED vars
  <2>1. TypeOK' /\ RealmInv' /\ CacheInv'
    BY <1>1 DEF Inv, JwksInv, TypeOK, RealmInv, CacheInv, TakenAt, vars, realm,
         cache, called, answer
  <2>2. ASSUME NEW q \in Requests PROVE FetchInv(q)'
    BY <1>1 DEF Inv, JwksInv, FetchInv, TakenAt, vars, realm, cache, called, answer
  <2>3. OnlyRecentKeysAdmit' /\ PublishedKeysAdmit'
    BY <1>1 DEF Inv, OnlyRecentKeysAdmit, PublishedKeysAdmit, vars, realm, called,
         Window
  <2>4. QED
    BY <2>1, <2>2, <2>3 DEF Inv, JwksInv
<1>2. QED
  BY <1>1, CallInv, ReadCacheInv, ServerAnswersInv, StoreInv, FetchFailsInv,
     RealmMoves, TickInv DEF Next

(* The invariant holds in every reachable state, for any number of racing  *)
(* requests and any TTL and timeout. *)
THEOREM CacheInvariant == Spec => []JwksInv
<1>1. Spec => []Inv
  BY InitInv, StepInv, PTL DEF Spec
<1>2. Inv => JwksInv
  BY DEF Inv
<1>3. QED
  BY <1>1, <1>2, PTL

(* A withdrawn key admits nobody for longer than the TTL and one fetch. *)
THEOREM WithdrawnKeysExpire == Spec => []OnlyRecentKeysAdmit
<1>1. Spec => []Inv
  BY InitInv, StepInv, PTL DEF Spec
<1>2. Inv => OnlyRecentKeysAdmit
  BY DEF Inv
<1>3. QED
  BY <1>1, <1>2, PTL

(* A published key is refused for no longer than that, however the writes  *)
(* of racing fetches are ordered. *)
THEOREM PublishedKeysArrive == Spec => []PublishedKeysAdmit
<1>1. Spec => []Inv
  BY InitInv, StepInv, PTL DEF Spec
<1>2. Inv => PublishedKeysAdmit
  BY DEF Inv
<1>3. QED
  BY <1>1, <1>2, PTL

(* No Authorize waits for more than its own fetch. *)
THEOREM NoQueueBehindAFetch == Spec => []AnswersInTime
<1>1. JwksInv => AnswersInTime
  <2> SUFFICES ASSUME JwksInv, NEW r \in Requests, pc[r] # "idle"
               PROVE  now <= calledAt[r] + FetchTimeout
    BY DEF AnswersInTime
  <2>1. pc[r] \in {"read", "fetch", "store"} /\ now \in Nat
    BY DurationsAssumption DEF JwksInv, TypeOK, Times
  <2>2. QED
    BY <2>1, DurationsAssumption DEF JwksInv, FetchInv
<1>2. QED
  BY <1>1, CacheInvariant, PTL

============================================================================
