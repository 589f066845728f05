-------------------------------- MODULE Jwks --------------------------------
(***************************************************************************)
(* The Bearer check of the HTTP shell (internal/adapters/auth/keycloak):   *)
(* one Provider, whose cached JWKS is shared by every request's Authorize, *)
(* and the Keycloak realm whose keys it caches.                            *)
(*                                                                         *)
(* p.mu guards the two fields of the cache and is released while a set is  *)
(* fetched, so fetches overlap and their answers, which show the realm as  *)
(* it was when Keycloak composed them, are stored in any order.            *)
(*                                                                         *)
(* Time is a clock in ticks.  A goroutine that can run does so before the  *)
(* clock moves, and a fetch does not outlive its context's deadline.       *)
(***************************************************************************)
EXTENDS Naturals

CONSTANTS
    Nil,
    Requests,       \* goroutines that call Authorize, again and again
    Keys,           \* the signing keys the realm may ever publish
    Tokens,         \* the tokens callers may present
    CacheTTL,
    FetchTimeout,
    MaxTime         \* where the clock stops

(* A token, as far as jwt.Parse and hasRole look at it: the key that signed *)
(* it, whether its other claims are in order, and whether it has the role. *)
ASSUME TokensAssumption ==
    Tokens \subseteq [key : Keys, claims : BOOLEAN, role : BOOLEAN]

Verdicts == {"no_keys", "unauthorized", "forbidden", "authorized"}

ASSUME NilAssumption ==
    /\ Nil \notin Nat /\ Nil \notin Verdicts
    /\ \A keys \in SUBSET Keys : keys # Nil

ASSUME DurationsAssumption ==
    /\ CacheTTL \in Nat \ {0} /\ FetchTimeout \in Nat /\ MaxTime \in Nat

VARIABLES
    now,
    since, until,   \* when the realm began and ceased to publish a key, or Nil
    set, fetchedAt, \* the Provider's cache; set is Nil while there is none
    setTakenAt,     \* history: when Keycloak composed that set
    pc,             \* pc[r]: where r is in Authorize
    bearer,         \* bearer[r]: the token it was called with
    calledAt,       \* calledAt[r]: when
    fetchAt,        \* fetchAt[r]: when its fetch began
    got, takenAt,   \* got[r]: the set Keycloak answered r with, and when
    verdict         \* verdict[r]: what Authorize returned to r, this tick

realm  == <<since, until>>
cache  == <<set, fetchedAt, setTakenAt>>
called == <<bearer, calledAt>>
answer == <<fetchAt, got, takenAt>>
vars   == <<now, realm, cache, pc, called, answer, verdict>>

NoBearer == [key |-> Nil, claims |-> FALSE, role |-> FALSE]

Published == {k \in Keys : since[k] # Nil /\ until[k] = Nil}

Init ==
    /\ now = 0
    /\ \E k \in Keys : since = [x \in Keys |-> IF x = k THEN 0 ELSE Nil]
    /\ until = [k \in Keys |-> Nil]
    /\ set = Nil /\ fetchedAt = 0 /\ setTakenAt = 0
    /\ pc = [r \in Requests |-> "idle"]
    /\ bearer = [r \in Requests |-> NoBearer]
    /\ calledAt = [r \in Requests |-> 0]
    /\ fetchAt = [r \in Requests |-> 0]
    /\ got = [r \in Requests |-> Nil]
    /\ takenAt = [r \in Requests |-> 0]
    /\ verdict = [r \in Requests |-> Nil]

----------------------------------------------------------------------------
(* Authorize                                                               *)

(* What Authorize answers once it has a key set: ErrUnauthorized for a     *)
(* token no key of the set verifies or whose claims are out of order,      *)
(* ErrForbidden for one without the role.                                  *)
Judge(token, keys) ==
    IF token.key \notin keys \/ ~token.claims THEN "unauthorized"
    ELSE IF token.role THEN "authorized" ELSE "forbidden"

Return(r, v) ==
    /\ pc' = [pc EXCEPT ![r] = "idle"]
    /\ verdict' = [verdict EXCEPT ![r] = v]
    /\ calledAt' = [calledAt EXCEPT ![r] = 0]
    /\ fetchAt' = [fetchAt EXCEPT ![r] = 0]
    /\ got' = [got EXCEPT ![r] = Nil]
    /\ takenAt' = [takenAt EXCEPT ![r] = 0]
    /\ UNCHANGED bearer

(* Authorize is called; an empty bearer is turned away before any key.     *)
Call(r, token) ==
    /\ pc[r] = "idle"
    /\ bearer' = [bearer EXCEPT ![r] = token]
    /\ IF token = NoBearer
       THEN /\ verdict' = [verdict EXCEPT ![r] = "unauthorized"]
            /\ UNCHANGED <<pc, calledAt>>
       ELSE /\ verdict' = [verdict EXCEPT ![r] = Nil]
            /\ calledAt' = [calledAt EXCEPT ![r] = now]
            /\ pc' = [pc EXCEPT ![r] = "read"]
    /\ UNCHANGED <<now, realm, cache, answer>>

(* Mutant: p.mu is held across the fetch. *)
HoldingMuWhileFetching == {"fetch", "store"}

(* The steps at which a goroutine still holds p.mu from an earlier one:    *)
(* both critical sections are single steps, and nothing waits inside them. *)
HoldingMu == {}

(* Mutant: a set, once fetched, is good for ever. *)
FreshForever == set # Nil

Fresh == set # Nil /\ now - fetchedAt < CacheTTL

CanLock(r) == \A q \in Requests \ {r} : pc[q] \notin HoldingMu

(* The first critical section, and what follows from a fresh cache.        *)
ReadCache(r) ==
    /\ pc[r] = "read" /\ CanLock(r)
    /\ IF Fresh THEN Return(r, Judge(bearer[r], set))
       ELSE /\ pc' = [pc EXCEPT ![r] = "fetch"]
            /\ fetchAt' = [fetchAt EXCEPT ![r] = now]
            /\ UNCHANGED <<called, got, takenAt, verdict>>
    /\ UNCHANGED <<now, realm, cache>>

(* Keycloak composes its answer, which is then on its way.                 *)
ServerAnswers(r) ==
    /\ pc[r] = "fetch"
    /\ got' = [got EXCEPT ![r] = Published]
    /\ takenAt' = [takenAt EXCEPT ![r] = now]
    /\ pc' = [pc EXCEPT ![r] = "store"]
    /\ UNCHANGED <<now, realm, cache, called, fetchAt, verdict>>

(* It has arrived: the second critical section.                            *)
Store(r) ==
    /\ pc[r] = "store"
    /\ set' = got[r] /\ fetchedAt' = now /\ setTakenAt' = takenAt[r]
    /\ Return(r, Judge(bearer[r], got[r]))
    /\ UNCHANGED <<now, realm>>

(* Mutant: a failed fetch leaves an empty set in the cache. *)
FetchFailsEmptyingCache(r) ==
    /\ pc[r] \in {"fetch", "store"}
    /\ set' = {} /\ fetchedAt' = now /\ setTakenAt' = now
    /\ Return(r, "no_keys")
    /\ UNCHANGED <<now, realm>>

(* Mutant: when no new set is to be had, the old one is renewed. *)
FetchFailsServingStale(r) ==
    /\ pc[r] \in {"fetch", "store"} /\ set # Nil
    /\ fetchedAt' = now
    /\ Return(r, Judge(bearer[r], set))
    /\ UNCHANGED <<now, realm, set, setTakenAt>>

(* The endpoint fails, or the deadline passes: the cache is left alone.    *)
FetchFails(r) ==
    /\ pc[r] \in {"fetch", "store"}
    /\ Return(r, "no_keys")
    /\ UNCHANGED <<now, realm, cache>>

----------------------------------------------------------------------------
(* The realm and the clock                                                 *)

Publish(k) ==
    /\ since[k] = Nil
    /\ since' = [since EXCEPT ![k] = now]
    /\ UNCHANGED <<now, until, cache, pc, called, answer, verdict>>

Retire(k) ==
    /\ k \in Published
    /\ until' = [until EXCEPT ![k] = now]
    /\ UNCHANGED <<now, since, cache, pc, called, answer, verdict>>

Expired(r) == pc[r] \in {"fetch", "store"} /\ now - fetchAt[r] >= FetchTimeout

Tick ==
    /\ now < MaxTime
    /\ \A r \in Requests : ~Expired(r) /\ ~(pc[r] = "read" /\ CanLock(r))
    /\ now' = now + 1
    /\ verdict' = [r \in Requests |-> Nil]
    /\ bearer' = [r \in Requests |-> IF pc[r] = "idle" THEN NoBearer ELSE bearer[r]]
    /\ UNCHANGED <<realm, cache, pc, calledAt, answer>>

Next ==
    \/ \E r \in Requests :
           \/ \E token \in Tokens \cup {NoBearer} : Call(r, token)
           \/ ReadCache(r) \/ ServerAnswers(r) \/ Store(r) \/ FetchFails(r)
    \/ \E k \in Keys : Publish(k) \/ Retire(k)
    \/ Tick

Spec == Init /\ [][Next]_vars

----------------------------------------------------------------------------
(* Properties                                                              *)

Times == 0..MaxTime

(* Type invariant; a request holds an answer only while it is to store it. *)
TypeOK ==
    /\ now \in Times
    /\ since \in [Keys -> Times \cup {Nil}]
    /\ until \in [Keys -> Times \cup {Nil}]
    /\ set \in (SUBSET Keys) \cup {Nil}
    /\ fetchedAt \in Times /\ setTakenAt \in Times
    /\ pc \in [Requests -> {"idle", "read", "fetch", "store"}]
    /\ bearer \in [Requests -> Tokens \cup {NoBearer}]
    /\ calledAt \in [Requests -> Times]
    /\ fetchAt \in [Requests -> Times]
    /\ got \in [Requests -> (SUBSET Keys) \cup {Nil}]
    /\ takenAt \in [Requests -> Times]
    /\ verdict \in [Requests -> Verdicts \cup {Nil}]
    /\ \A r \in Requests : pc[r] = "store" => got[r] # Nil

(* A set Keycloak composed at time t: no key it had ceased to publish by   *)
(* then, and every key it was publishing.                                  *)
TakenAt(keys, t) ==
    \A k \in Keys :
        IF k \in keys
        THEN /\ since[k] # Nil /\ since[k] <= t
             /\ until[k] # Nil => t <= until[k]
        ELSE \/ since[k] = Nil \/ t <= since[k]
             \/ until[k] # Nil /\ until[k] <= t

(* How old the keys behind an answer can be: the set was cached for less   *)
(* than the TTL and had been on its way for no more than the timeout.      *)
Window == CacheTTL + FetchTimeout

(* The cache is as stale as its TTL says and a fetch in flight, no more,   *)
(* in whatever order the answers were stored.                              *)
CacheInv ==
    set # Nil => /\ TakenAt(set, setTakenAt)
                 /\ setTakenAt <= fetchedAt /\ fetchedAt <= now
                 /\ fetchedAt <= setTakenAt + FetchTimeout

FetchInv(r) ==
    /\ pc[r] # "idle" \/ verdict[r] \in {"authorized", "forbidden"} =>
           bearer[r] \in Tokens
    /\ pc[r] = "read" => calledAt[r] = now
    /\ pc[r] \in {"fetch", "store"} =>
           /\ calledAt[r] = fetchAt[r] /\ fetchAt[r] <= now
           /\ now <= fetchAt[r] + FetchTimeout
    /\ pc[r] = "store" => /\ TakenAt(got[r], takenAt[r])
                          /\ fetchAt[r] <= takenAt[r] /\ takenAt[r] <= now

(* The inductive invariant behind the three properties that follow.        *)
RealmInv ==
    \A k \in Keys : /\ since[k] # Nil => since[k] <= now
                    /\ until[k] # Nil => since[k] # Nil /\ until[k] <= now

JwksInv == TypeOK /\ RealmInv /\ CacheInv /\ \A r \in Requests : FetchInv(r)

(* A token is let in, or told it lacks the role, only on the word of a key *)
(* the realm publishes or has withdrawn within the window.                 *)
OnlyRecentKeysAdmit ==
    \A r \in Requests :
        verdict[r] \in {"authorized", "forbidden"} =>
            LET k == bearer[r].key
            IN  /\ since[k] # Nil
                /\ until[k] = Nil \/ now < until[k] + Window

(* A sound token is turned away by a key set only if its key is new to the *)
(* realm, by less than the window, or no longer published.                 *)
PublishedKeysAdmit ==
    \A r \in Requests :
        verdict[r] = "unauthorized" /\ bearer[r].claims =>
            LET k == bearer[r].key
            IN  \/ since[k] = Nil
                \/ now < since[k] + Window
                \/ until[k] # Nil

(* One slow answer stalls only the request that waits for it: no Authorize *)
(* takes longer than one fetch, however many others are fetching.          *)
AnswersInTime ==
    \A r \in Requests : pc[r] # "idle" => now <= calledAt[r] + FetchTimeout

(* provider.go on two racing fetches: "both fetch the same keys and the    *)
(* second write simply overwrites the first with an equivalent jwk.Set,    *)
(* which costs an extra HTTP round trip and nothing else": a write over a  *)
(* cache that is still fresh loses none of the keys the realm publishes.   *)
RaceCostsOnlyARoundTrip ==
    [][(\E r \in Requests : Store(r)) /\ Fresh =>
            set \cap Published \subseteq set']_vars

============================================================================
