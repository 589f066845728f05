----------------------------- MODULE SealProofs -----------------------------
(***************************************************************************)
(* Proofs about Seal, for every set of calls, requests, versions and keys, *)
(* any number of restarts and of amendments.                               *)
(*                                                                         *)
(* CallsInv is inductive; every safety theorem below follows from it.       *)
(***************************************************************************)
EXTENDS Seal, PackageProofs

(* A call whose own variables and whose authority do not move keeps what   *)
(* it has established. *)
LEMMA CallFrame ==
    ASSUME NEW c \in Calls, CallInv(c), version' = version,
           overtaken' = overtaken,
           pc'[c] = pc[c], req'[c] = req[c],
           constraintsHash'[c] = constraintsHash[c],
           turn'[c] = turn[c], entries'[c] = entries[c], dek'[c] = dek[c],
           result'[c] = result[c], allowedUnder'[c] = allowedUnder[c]
    PROVE  CallInv(c)'
BY DEF CallInv, AnswersInv, LoopInv, KeyInv, ResultInv, Current, CheckAudiences,
       AudienceNames

(* The initial states satisfy the invariant. *)
LEMMA InitInv == Init => CallsInv
<1>1. ASSUME Init PROVE TypeOK
  <2>1. 0 \in 0..MaxAmends /\ 0 \in 0..MaxRestarts
    BY BoundsAssumption
  <2>2. 1 \in Nat \ {0}
    OBVIOUS
  <2>3. QED
    BY <1>1, <2>1, <2>2 DEF Init, TypeOK, Steps
<1>2. ASSUME Init, NEW c \in Calls PROVE CallInv(c)
  BY <1>2 DEF Init, CallInv, AnswersInv, LoopInv, KeyInv, ResultInv,
              Allowed, Hashed, Sealing
<1>3. QED
  BY <1>1, <1>2 DEF CallsInv

(* An error return of a call in progress, whichever step it happens in. *)
LEMMA FailInv ==
    ASSUME CallsInv, NEW c \in Calls, InProgress(c), Fail(c)
    PROVE  CallsInv'
<1>1. TypeOK'
  BY DEF CallsInv, TypeOK, InProgress, Fail, env, Steps
<1>2. CallInv(c)'
  BY DEF CallsInv, TypeOK, CallInv, AnswersInv, LoopInv, KeyInv, ResultInv,
         InProgress, Fail, env, Allowed, Hashed, Sealing
<1>3. ASSUME NEW d \in Calls, d # c PROVE CallInv(d)'
  BY <1>3, CallFrame DEF CallsInv, TypeOK, Fail, env
<1>4. QED
  BY <1>1, <1>2, <1>3 DEF CallsInv

(* A successful step of call c: the other calls and the environment stay   *)
(* where they are, so only c's own part is left to show. *)
LEMMA OtherCalls ==
    ASSUME CallsInv, NEW c \in Calls, UNCHANGED <<version, overtaken>>,
           \A d \in Calls \ {c} :
               /\ pc'[d] = pc[d] /\ req'[d] = req[d]
               /\ constraintsHash'[d] = constraintsHash[d]
               /\ turn'[d] = turn[d] /\ entries'[d] = entries[d]
               /\ dek'[d] = dek[d] /\ result'[d] = result[d]
               /\ allowedUnder'[d] = allowedUnder[d],
           TypeOK', CallInv(c)'
    PROVE  CallsInv'
<1>1. ASSUME NEW d \in Calls, d # c PROVE CallInv(d)'
  BY <1>1, CallFrame DEF CallsInv
<1>2. QED
  BY <1>1 DEF CallsInv

(* A step that leaves the loop over the audiences alone. *)
LEMMA LoopFrame ==
    ASSUME NEW c \in Calls, LoopInv(c),
           req'[c] = req[c], turn'[c] = turn[c], entries'[c] = entries[c],
           pc[c] \notin {"idle", "failed"},
           pc'[c] \notin Sealing => turn[c] = 1,
           pc'[c] \in {"dek", "wrap"} => turn[c] \in DOMAIN req[c].audiences
    PROVE  LoopInv(c)'
BY DEF LoopInv, CheckAudiences, AudienceNames

(* A submitted request either passes the early checks or fails at once. *)
LEMMA SubmitInv ==
    ASSUME CallsInv, NEW c \in Calls, NEW r \in Requests, Submit(c, r)
    PROVE  CallsInv'
<1>1. TypeOK'
  BY DEF CallsInv, TypeOK, Submit, Goto, env, Steps
<1>2. /\ dek[c] = Nil /\ result[c] = Nil /\ turn[c] = 1
      /\ DOMAIN entries[c] = {}
  <2>1. pc[c] = "idle" /\ turn[c] = 1
    BY DEF CallsInv, CallInv, LoopInv, Submit, Allowed, Hashed, Sealing
  <2>2. 1..(turn[c] - 1) = {}
    BY <2>1
  <2>3. QED
    BY <2>1, <2>2 DEF CallsInv, CallInv, LoopInv, KeyInv, ResultInv
<1>3. /\ pc'[c] \in {"check", "failed"} /\ req'[c] = r
      /\ pc'[c] = "check" => r.audiences # <<>> /\ CheckAudiences(r)
      /\ dek'[c] = Nil /\ result'[c] = Nil /\ turn'[c] = 1
      /\ DOMAIN entries'[c] = {}
  BY <1>2 DEF CallsInv, TypeOK, Submit, Goto
<1>4. {req'[c].audiences[i].name : i \in 1..(turn'[c] - 1)} = {}
  <2>1. 1..(turn'[c] - 1) = {}
    BY <1>3
  <2>2. QED
    BY <2>1
<1>5. LoopInv(c)'
  BY <1>3, <1>4 DEF LoopInv, Allowed, Hashed, Sealing, CheckAudiences, AudienceNames
<1>6. CallInv(c)'
  BY <1>3, <1>5 DEF CallInv, AnswersInv, KeyInv, ResultInv, Allowed, Hashed, Sealing
<1>7. QED
  BY <1>1, <1>6, OtherCalls DEF CallsInv, TypeOK, Submit, Goto, env

(* An allowing answer is remembered; nothing has been sealed yet. *)
LEMMA CheckInv ==
    ASSUME CallsInv, NEW c \in Calls, Check(c)
    PROVE  CallsInv'
<1>1. CASE Fail(c)
  BY <1>1, FailInv DEF Check, InProgress
<1>2. CASE ~Fail(c)
  <2>1. req[c].intent_ref \in IntentRefs /\ version[req[c].intent_ref] \in Versions
    BY RequestsAssumption DEF CallsInv, TypeOK, Check
  <2>2. TypeOK'
    <3>1. allowedUnder' \in [Calls -> Versions \cup {Nil}]
      BY <1>2, <2>1 DEF CallsInv, TypeOK, Check
    <3>2. pc' \in [Calls -> Steps] /\ pc[c] # "idle"
      BY <1>2 DEF CallsInv, TypeOK, Check, Goto, Steps
    <3>3. \A d \in Calls : pc'[d] # "idle" => req'[d] \in Requests
      BY <1>2, <3>2 DEF CallsInv, TypeOK, Check, Goto
    <3>4. QED
      BY <1>2, <3>1, <3>2, <3>3 DEF CallsInv, TypeOK, Check, env
  <2>3. CallInv(c)'
    <3>1. LoopInv(c)'
      BY <1>2, <2>1, LoopFrame DEF CallsInv, TypeOK, CallInv, LoopInv, Check, Goto,
           Allowed, Hashed, Sealing
    <3>2. AnswersInv(c)' /\ KeyInv(c)' /\ ResultInv(c)'
      BY <1>2, <2>1 DEF CallsInv, TypeOK, CallInv, AnswersInv, KeyInv, ResultInv,
           Check, Goto, env, Allowed, Hashed, Sealing, Current
    <3>3. QED
      BY <3>1, <3>2 DEF CallInv
  <2>4. QED
    BY <1>2, <2>2, <2>3, OtherCalls DEF CallsInv, TypeOK, Check, Goto, env
<1>3. QED
  BY <1>1, <1>2

(* The hash is of the version Check was answered under, if none is amended. *)
LEMMA FetchConstraintsHashInv ==
    ASSUME CallsInv, NEW c \in Calls, FetchConstraintsHash(c)
    PROVE  CallsInv'
<1>1. CASE Fail(c)
  BY <1>1, FailInv DEF FetchConstraintsHash, InProgress
<1>2. CASE ~Fail(c)
  <2>1. version[req[c].intent_ref] \in Versions
    BY RequestsAssumption DEF CallsInv, TypeOK, FetchConstraintsHash
  <2>2. TypeOK'
    BY <1>2, <2>1 DEF CallsInv, TypeOK, FetchConstraintsHash, Goto, env, Steps
  <2>3. CallInv(c)'
    <3>1. LoopInv(c)'
      BY <1>2, <2>1, LoopFrame DEF CallsInv, TypeOK, CallInv, LoopInv, FetchConstraintsHash, Goto,
           Allowed, Hashed, Sealing
    <3>2. AnswersInv(c)' /\ KeyInv(c)' /\ ResultInv(c)'
      BY <1>2, <2>1 DEF CallsInv, TypeOK, CallInv, AnswersInv, KeyInv, ResultInv,
           FetchConstraintsHash, Goto, env, Allowed, Hashed, Sealing, Current
    <3>3. QED
      BY <3>1, <3>2 DEF CallInv
  <2>4. QED
    BY <1>2, <2>2, <2>3, OtherCalls
       DEF CallsInv, TypeOK, FetchConstraintsHash, Goto, env
<1>3. QED
  BY <1>1, <1>2

(* Drawing the package id starts the loop at the first audience. *)
LEMMA NewPackageIDInv ==
    ASSUME CallsInv, NEW c \in Calls, NewPackageID(c)
    PROVE  CallsInv'
<1>1. CASE Fail(c)
  BY <1>1, FailInv DEF NewPackageID, InProgress
<1>2. CASE ~Fail(c)
  <2>1. req[c] \in Requests /\ req[c].audiences # <<>>
    BY DEF CallsInv, TypeOK, CallInv, LoopInv, NewPackageID
  <2>2. 1 \in DOMAIN req[c].audiences
    BY <2>1, RequestsAssumption
  <2>3. TypeOK'
    BY <1>2 DEF CallsInv, TypeOK, NewPackageID, Goto, env, Steps
  <2>4. CallInv(c)'
    <3>1. LoopInv(c)'
      BY <1>2, <2>2, LoopFrame DEF CallsInv, TypeOK, CallInv, LoopInv, NewPackageID, Goto,
           Allowed, Hashed, Sealing
    <3>2. AnswersInv(c)' /\ KeyInv(c)' /\ ResultInv(c)'
      BY <1>2, <2>2 DEF CallsInv, TypeOK, CallInv, AnswersInv, KeyInv, ResultInv,
           NewPackageID, Goto, env, Allowed, Hashed, Sealing, Current
    <3>3. QED
      BY <3>1, <3>2 DEF CallInv
  <2>5. QED
    BY <1>2, <2>3, <2>4, OtherCalls
       DEF CallsInv, TypeOK, NewPackageID, Goto, env
<1>3. QED
  BY <1>1, <1>2

(* The data key drawn is that of the audience the loop is at. *)
LEMMA DrawDEKInv ==
    ASSUME CallsInv, NEW c \in Calls, DrawDEK(c)
    PROVE  CallsInv'
<1>1. CASE Fail(c)
  BY <1>1, FailInv DEF DrawDEK, InProgress
<1>2. CASE ~Fail(c)
  <2>1. TypeOK'
    BY <1>2 DEF CallsInv, TypeOK, DrawDEK, Goto, env, Steps
  <2>2. CallInv(c)'
    <3>1. LoopInv(c)'
      BY <1>2, LoopFrame DEF CallsInv, TypeOK, CallInv, LoopInv, DrawDEK, Goto,
           Allowed, Hashed, Sealing
    <3>2. AnswersInv(c)' /\ KeyInv(c)' /\ ResultInv(c)'
      BY <1>2 DEF CallsInv, TypeOK, CallInv, AnswersInv, KeyInv, ResultInv,
           DrawDEK, Goto, env, Allowed, Hashed, Sealing, Current
    <3>3. QED
      BY <3>1, <3>2 DEF CallInv
  <2>3. QED
    BY <1>2, <2>1, <2>2, OtherCalls DEF CallsInv, TypeOK, DrawDEK, Goto, env
<1>3. QED
  BY <1>1, <1>2

(* Sealing a segment records its audience, zeroes the key and moves on: the *)
(* entries are again those of the audiences before the loop's turn. *)
LEMMA SealSegmentInv ==
    ASSUME CallsInv, NEW c \in Calls, SealSegment(c)
    PROVE  CallsInv'
<1>1. CASE Fail(c)
  BY <1>1, FailInv DEF SealSegment, InProgress
<1>2. CASE ~Fail(c)
  <2> DEFINE names(t) == {req[c].audiences[i].name : i \in 1..(t - 1)}
  <2>1. PICK entry :
            entries' = [entries EXCEPT ![c] = Put(@, Current(c).name, entry)]
    BY <1>2 DEF SealSegment
  <2>2. DOMAIN entries'[c] = DOMAIN entries[c] \cup {Current(c).name}
    BY <2>1 DEF CallsInv, TypeOK, Put
  <2>3. /\ turn[c] \in 1..Len(req[c].audiences) /\ turn'[c] = turn[c] + 1
        /\ pc'[c] = IF turn[c] = Len(req[c].audiences) THEN "bind" ELSE "dek"
        /\ Len(req[c].audiences) \in Nat
        /\ DOMAIN req[c].audiences = 1..Len(req[c].audiences)
    BY <1>2, RequestsAssumption
       DEF CallsInv, TypeOK, CallInv, LoopInv, SealSegment, Goto
  <2>4. DOMAIN entries'[c] = names(turn'[c])
    <3>1. DOMAIN entries[c] = names(turn[c])
      BY DEF CallsInv, CallInv, LoopInv
    <3>2. 1..(turn'[c] - 1) = 1..(turn[c] - 1) \cup {turn[c]}
      BY <2>3
    <3>3. QED
      BY <2>2, <3>1, <3>2 DEF Current
  <2>5. TypeOK'
    <3>1. turn' \in [Calls -> Nat \ {0}] /\ DOMAIN entries' = Calls
          /\ DOMAIN dek' = Calls
      <4>1. turn' = [turn EXCEPT ![c] = @ + 1] /\ dek' = [dek EXCEPT ![c] = Nil]
        BY <1>2 DEF SealSegment
      <4>2. /\ turn \in [Calls -> Nat \ {0}]
            /\ DOMAIN entries = Calls /\ DOMAIN dek = Calls
        BY DEF CallsInv, TypeOK
      <4>3. QED
        BY <2>1, <4>1, <4>2
    <3>2. pc' \in [Calls -> Steps] /\ pc[c] # "idle"
      BY <1>2 DEF CallsInv, TypeOK, SealSegment, Goto, Steps
    <3>3. \A d \in Calls : pc'[d] # "idle" => req'[d] \in Requests
      BY <1>2, <3>2 DEF CallsInv, TypeOK, SealSegment, Goto
    <3>4. QED
      BY <1>2, <3>1, <3>2, <3>3 DEF CallsInv, TypeOK, SealSegment, env
  <2>6. pc'[c] = "dek" => turn'[c] \in DOMAIN req[c].audiences
    BY <2>3
  <2>7. LoopInv(c)'
    BY <1>2, <2>3, <2>4, <2>6 DEF CallsInv, CallInv, LoopInv, SealSegment,
         Allowed, Hashed, Sealing, CheckAudiences, AudienceNames
  <2>8. AnswersInv(c)' /\ KeyInv(c)' /\ ResultInv(c)'
    BY <1>2, <2>3 DEF CallsInv, TypeOK, CallInv, AnswersInv, KeyInv, ResultInv,
         SealSegment, env, Allowed, Hashed, Sealing
  <2>9. QED
    BY <1>2, <2>5, <2>7, <2>8, OtherCalls
       DEF CallsInv, TypeOK, CallInv, SealSegment, Goto, env
<1>3. QED
  BY <1>1, <1>2

(* Binding leaves the sealed segments as they are. *)
LEMMA BindInv ==
    ASSUME CallsInv, NEW c \in Calls, Bind(c)
    PROVE  CallsInv'
<1>1. CASE Fail(c)
  BY <1>1, FailInv DEF Bind, InProgress
<1>2. CASE ~Fail(c)
  <2>1. TypeOK'
    BY <1>2 DEF CallsInv, TypeOK, Bind, Goto, env, Steps
  <2>2. CallInv(c)'
    <3>1. LoopInv(c)'
      BY <1>2, LoopFrame DEF CallsInv, TypeOK, CallInv, LoopInv, Bind, Goto,
           Allowed, Hashed, Sealing
    <3>2. AnswersInv(c)' /\ KeyInv(c)' /\ ResultInv(c)'
      BY <1>2 DEF CallsInv, TypeOK, CallInv, AnswersInv, KeyInv, ResultInv,
           Bind, Goto, env, Allowed, Hashed, Sealing, Current
    <3>3. QED
      BY <3>1, <3>2 DEF CallInv
  <2>3. QED
    BY <1>2, <2>1, <2>2, OtherCalls DEF CallsInv, TypeOK, Bind, Goto, env
<1>3. QED
  BY <1>1, <1>2

(* Learning the kid leaves the sealed segments as they are. *)
LEMMA AskKidInv ==
    ASSUME CallsInv, NEW c \in Calls, AskKid(c)
    PROVE  CallsInv'
<1>1. CASE Fail(c)
  BY <1>1, FailInv DEF AskKid, InProgress
<1>2. CASE ~Fail(c)
  <2>1. TypeOK'
    BY <1>2 DEF CallsInv, TypeOK, AskKid, Goto, env, Steps
  <2>2. CallInv(c)'
    <3>1. LoopInv(c)'
      BY <1>2, LoopFrame DEF CallsInv, TypeOK, CallInv, LoopInv, AskKid, Goto,
           Allowed, Hashed, Sealing
    <3>2. AnswersInv(c)' /\ KeyInv(c)' /\ ResultInv(c)'
      BY <1>2 DEF CallsInv, TypeOK, CallInv, AnswersInv, KeyInv, ResultInv,
           AskKid, Goto, env, Allowed, Hashed, Sealing, Current
    <3>3. QED
      BY <3>1, <3>2 DEF CallInv
  <2>3. QED
    BY <1>2, <2>1, <2>2, OtherCalls DEF CallsInv, TypeOK, AskKid, Goto, env
<1>3. QED
  BY <1>1, <1>2

(* The signed package carries the call's constraints hash. *)
LEMMA AskSignatureInv ==
    ASSUME CallsInv, NEW c \in Calls, AskSignature(c)
    PROVE  CallsInv'
<1>1. CASE Fail(c)
  BY <1>1, FailInv DEF AskSignature, InProgress
<1>2. CASE ~Fail(c)
  <2>1. TypeOK'
    BY <1>2 DEF CallsInv, TypeOK, AskSignature, Goto, env, Steps
  <2>2. result'[c].intent.constraints_hash = constraintsHash[c]
    <3>1. result'[c] = SignedPackage(PackageOf(c, kid[c]), IssuerKey(signingKid))
      BY <1>2 DEF CallsInv, TypeOK, AskSignature
    <3>2. ASSUME NEW k PROVE
            SignedPackage(PackageOf(c, kid[c]), k).intent.constraints_hash
                = constraintsHash[c]
      BY DEF SignedPackage, PackageOf, UnsignedPackage
    <3>3. QED
      BY <3>1, <3>2
  <2>3. LoopInv(c)' /\ KeyInv(c)'
    BY <1>2, LoopFrame DEF CallsInv, TypeOK, CallInv, LoopInv, KeyInv,
         AskSignature, Goto, env, Allowed, Hashed, Sealing
  <2>4. AnswersInv(c)' /\ ResultInv(c)'
    BY <1>2, <2>2 DEF CallsInv, TypeOK, CallInv, AnswersInv, ResultInv,
         AskSignature, Goto, env, Allowed, Hashed, Sealing
  <2>5. QED
    BY <1>2, <2>1, <2>3, <2>4, OtherCalls
       DEF CallsInv, TypeOK, CallInv, AskSignature, Goto, env
<1>3. QED
  BY <1>1, <1>2

(* A call that an amendment comes between Check and ConstraintsHash of is  *)
(* overtaken; of every other call, AnswersInv says what it said before. *)
LEMMA AmendInv ==
    ASSUME CallsInv, NEW r \in IntentRefs, NEW v \in Versions, Amend(r, v)
    PROVE  CallsInv'
<1>1. TypeOK'
  BY BoundsAssumption DEF CallsInv, TypeOK, Amend, local
<1>2. ASSUME NEW c \in Calls PROVE CallInv(c)'
  <2>1. LoopInv(c)' /\ KeyInv(c)' /\ ResultInv(c)'
    BY DEF CallsInv, CallInv, LoopInv, KeyInv, ResultInv, Amend, local, Current,
         CheckAudiences, AudienceNames
  <2>2. ASSUME pc[c] = "hash", c \notin overtaken'
        PROVE  version'[req[c].intent_ref] = version[req[c].intent_ref]
    BY <2>2 DEF CallsInv, TypeOK, Amend
  <2>3. AnswersInv(c)'
    BY <2>2 DEF CallsInv, CallInv, AnswersInv, Amend, local
  <2>4. QED
    BY <2>1, <2>3 DEF CallInv
<1>3. QED
  BY <1>1, <1>2 DEF CallsInv

(* A restart fails the calls in progress and leaves the finished ones. *)
LEMMA RestartInv ==
    ASSUME CallsInv, NEW k \in Kids, Restart(k)
    PROVE  CallsInv'
<1>1. TypeOK'
  BY BoundsAssumption DEF CallsInv, TypeOK, Restart, Steps, InProgress
<1>2. ASSUME NEW c \in Calls, InProgress(c) PROVE CallInv(c)'
  <2>1. 1..(turn'[c] - 1) = {} /\ DOMAIN entries'[c] = {}
    BY <1>2 DEF CallsInv, TypeOK, Restart
  <2>2. {req'[c].audiences[i].name : i \in 1..(turn'[c] - 1)} = {}
    BY <2>1
  <2>3. LoopInv(c)'
    BY <1>2, <2>1, <2>2 DEF CallsInv, TypeOK, LoopInv, Restart, Allowed,
         Hashed, Sealing
  <2>4. QED
    BY <1>2, <2>3 DEF CallsInv, TypeOK, CallInv, AnswersInv, KeyInv, ResultInv,
         Restart, InProgress, Allowed, Hashed, Sealing
<1>3. ASSUME NEW c \in Calls, ~InProgress(c) PROVE CallInv(c)'
  <2>1. dek[c] = Nil
    BY <1>3 DEF CallsInv, CallInv, KeyInv, InProgress
  <2>2. QED
    BY <1>3, <2>1, CallFrame DEF CallsInv, TypeOK, Restart
<1>4. QED
  BY <1>1, <1>2, <1>3 DEF CallsInv

(* CallsInv is inductive, whichever action is taken. *)
LEMMA StepInv == CallsInv /\ [Next]_vars => CallsInv'
<1> SUFFICES ASSUME CallsInv, [Next]_vars PROVE CallsInv'
  OBVIOUS
<1>1. ASSUME NEW c \in Calls, SealStep(c) PROVE CallsInv'
  BY <1>1, CheckInv, FetchConstraintsHashInv, NewPackageIDInv, DrawDEKInv,
     SealSegmentInv, BindInv, AskKidInv, AskSignatureInv DEF SealStep
<1>2. CASE UNCHANGED vars
  <2>1. TypeOK'
    BY <1>2 DEF CallsInv, TypeOK, vars, local, env
  <2>2. ASSUME NEW c \in Calls PROVE CallInv(c)'
    BY <1>2, CallFrame DEF CallsInv, vars, local, env
  <2>3. QED
    BY <2>1, <2>2 DEF CallsInv
<1>3. QED
  BY <1>1, <1>2, SubmitInv, AmendInv, RestartInv DEF Next

(* Where every call is, and what it has asked, in every reachable state. *)
THEOREM CallsInvariant == Spec => []CallsInv
  BY InitInv, StepInv, PTL DEF Spec

(* Type correctness of the call records and the environment. *)
THEOREM TypeCorrect == Spec => []TypeOK
<1>1. CallsInv => TypeOK
  BY DEF CallsInv
<1>2. QED
  BY <1>1, CallsInvariant, PTL

(* No data key, ciphertext or package without the authority's leave, for   *)
(* any number of concurrent calls, restarts and amendments. *)
THEOREM AuthorizationFirst == Spec => []NoKeyBeforeAuthorization
<1>1. CallsInv => NoKeyBeforeAuthorization
  <2> SUFFICES ASSUME CallsInv, NEW c \in Calls,
                      dek[c] # Nil \/ DOMAIN entries[c] # {} \/ result[c] # Nil
               PROVE  pc[c] \in Allowed
    BY DEF NoKeyBeforeAuthorization, CallsInv, CallInv, AnswersInv
  <2>1. CASE pc[c] \in Sealing
    BY <2>1 DEF Sealing, Hashed
  <2>2. CASE pc[c] \notin Sealing
    <3>1. turn[c] = 1 /\ 1..(turn[c] - 1) = {}
      BY <2>2 DEF CallsInv, CallInv, LoopInv
    <3>2. DOMAIN entries[c] = {}
      BY <3>1 DEF CallsInv, CallInv, LoopInv
    <3>3. QED
      BY <3>2 DEF CallsInv, CallInv, KeyInv, ResultInv, Allowed
  <2>3. QED
    BY <2>1, <2>2
<1>2. QED
  BY <1>1, CallsInvariant, PTL

(* A data key lives only inside its own sealSegment. *)
THEOREM KeyLifetime == Spec => []NoKeyOutlivesItsSegment
<1>1. CallsInv => NoKeyOutlivesItsSegment
  <2> SUFFICES ASSUME CallsInv, NEW c \in Calls, dek[c] # Nil
               PROVE  /\ pc[c] = "wrap" /\ dek[c] = NewDEK(c, Current(c).name)
                      /\ Current(c).name \notin DOMAIN entries[c]
    BY DEF NoKeyOutlivesItsSegment
  <2>1. pc[c] = "wrap" /\ dek[c] = NewDEK(c, Current(c).name)
    BY DEF CallsInv, CallInv, KeyInv
  <2>2. /\ turn[c] \in DOMAIN req[c].audiences /\ CheckAudiences(req[c])
        /\ DOMAIN entries[c] = {req[c].audiences[i].name : i \in 1..(turn[c] - 1)}
    BY <2>1 DEF CallsInv, CallInv, LoopInv
  <2>3. turn[c] \in Nat /\ \A i \in 1..(turn[c] - 1) : i \in DOMAIN req[c].audiences
    BY <2>1, <2>2, RequestsAssumption DEF CallsInv, TypeOK
  <2>4. ASSUME NEW i \in 1..(turn[c] - 1)
        PROVE  req[c].audiences[i].name # Current(c).name
    BY <2>2, <2>3 DEF CheckAudiences, Current
  <2>5. QED
    BY <2>1, <2>2, <2>4
<1>2. QED
  BY <1>1, CallsInvariant, PTL

(* The package commits to the version that allowed it, however often the   *)
(* authority amends, unless it did between this call's two questions. *)
THEOREM CommitmentPermits == Spec => []CommitsToPermittedConstraints
<1>1. CallsInv => CommitsToPermittedConstraints
  BY DEF CommitsToPermittedConstraints, CallsInv, CallInv, AnswersInv, ResultInv,
         Allowed, Hashed
<1>2. QED
  BY <1>1, CallsInvariant, PTL

-----------------------------------------------------------------------------
(* What a call has built *)

(* A call that does not move keeps what it has built; where the process's  *)
(* signer changes, the call is not between asking for the kid and signing. *)
LEMMA WorkFrame ==
    ASSUME NEW c \in Calls, WorkInv(c),
           pc'[c] = pc[c], req'[c] = req[c],
           constraintsHash'[c] = constraintsHash[c],
           turn'[c] = turn[c], entries'[c] = entries[c], dek'[c] = dek[c],
           kid'[c] = kid[c], result'[c] = result[c],
           signingKid' = signingKid \/ pc[c] # "sign"
    PROVE  WorkInv(c)'
<1>1. /\ RootOf(c)' = RootOf(c) /\ ExtraOf(c)' = ExtraOf(c)
      /\ PackageOf(c, kid[c])' = PackageOf(c, kid[c])
  BY DEF RootOf, ExtraOf, PackageOf
<1>2. EntriesInv(c)'
  BY DEF WorkInv, EntriesInv, EntryFor, Current, Bound
<1>3. BoundInv(c)'
  BY <1>1 DEF WorkInv, BoundInv, Hashed, Allowed, Bound, Signed
<1>4. QED
  BY <1>2, <1>3 DEF WorkInv

(* A call without entries: before it is submitted and after an error.      *)
LEMMA NoEntries ==
    \A c \in Calls :
        entries[c] = <<>> /\ turn[c] = 1 /\ pc[c] \in {"idle", "failed"} => WorkInv(c)
<1> SUFFICES ASSUME NEW c \in Calls, entries[c] = <<>>, turn[c] = 1,
                    pc[c] \in {"idle", "failed"}
             PROVE  WorkInv(c)
  OBVIOUS
<1>1. <<>> = [a \in DOMAIN <<>> |-> <<>>[a]]
  OBVIOUS
<1>2. 1..(turn[c] - 1) = {}
  OBVIOUS
<1>3. EntriesInv(c)
  BY <1>1, <1>2 DEF EntriesInv, Bound
<1>4. BoundInv(c)
  BY DEF BoundInv, Hashed, Allowed, Bound, Signed
<1>5. QED
  BY <1>3, <1>4 DEF WorkInv

LEMMA NoEntriesNext ==
    \A c \in Calls :
        entries'[c] = <<>> /\ turn'[c] = 1 /\ pc'[c] \in {"idle", "failed"} => WorkInv(c)'
<1>1. (\A c \in Calls :
          entries[c] = <<>> /\ turn[c] = 1 /\ pc[c] \in {"idle", "failed"} => WorkInv(c))'
  BY NoEntries, PTL
<1>2. QED
  BY <1>1

LEMMA FailWork ==
    ASSUME CallsInv, NEW c \in Calls, Fail(c)
    PROVE  WorkInv(c)'
BY NoEntriesNext DEF CallsInv, TypeOK, Fail

(* The entries stay as they are while the call moves on.                   *)
LEMMA EntriesFrame ==
    ASSUME NEW c \in Calls, EntriesInv(c),
           entries'[c] = entries[c], turn'[c] = turn[c], req'[c] = req[c],
           pc'[c] = "wrap" => dek'[c] = NewDEK(c, Current(c).name),
           pc'[c] \in Bound \cup {"bind"} => pc[c] \in Bound \cup {"bind"}
    PROVE  EntriesInv(c)'
BY DEF EntriesInv, EntryFor, Current, Bound

LEMMA SubmitWork ==
    ASSUME SealInv, NEW c \in Calls, NEW r \in Requests, Submit(c, r)
    PROVE  WorkInv(c)'
<1>1. /\ pc'[c] \in {"check", "failed"} /\ pc[c] = "idle"
      /\ entries' = entries /\ turn' = turn
  BY DEF SealInv, CallsInv, TypeOK, Submit, Goto
<1>2. turn[c] = 1 /\ 1..(turn[c] - 1) = {}
  BY <1>1 DEF SealInv, CallsInv, CallInv, LoopInv, Sealing, Hashed, Allowed
<1>3. EntriesInv(c)'
  BY <1>1, <1>2 DEF SealInv, WorkInv, EntriesInv, Bound
<1>4. BoundInv(c)'
  BY <1>1 DEF BoundInv, Hashed, Allowed, Bound, Signed
<1>5. QED
  BY <1>3, <1>4 DEF WorkInv

(* Up to the loop, all a call gets is the constraints hash.                *)
LEMMA QuestionsWork ==
    ASSUME SealInv, NEW c \in Calls,
           Check(c) \/ FetchConstraintsHash(c) \/ NewPackageID(c) \/ DrawDEK(c)
    PROVE  WorkInv(c)'
<1>1. CASE Fail(c)
  BY <1>1, FailWork DEF SealInv
<1> SUFFICES ASSUME ~Fail(c) PROVE WorkInv(c)'
  BY <1>1
<1>2. /\ entries' = entries /\ turn' = turn /\ req' = req
      /\ pc'[c] \in {"hash", "id", "dek", "wrap"}
      /\ pc'[c] = "wrap" => dek'[c] = NewDEK(c, Current(c).name)
  BY DEF SealInv, CallsInv, TypeOK, Check, FetchConstraintsHash, NewPackageID, DrawDEK, Goto
<1>3. EntriesInv(c)'
  BY <1>2, EntriesFrame DEF SealInv, WorkInv, Bound
<1>4. ASSUME pc'[c] # "hash"
      PROVE  \E v \in Versions : constraintsHash'[c] = ConstraintsHashOf(v)
  <2>1. CASE Check(c)
    BY <1>4, <2>1 DEF SealInv, CallsInv, TypeOK, Check, Goto
  <2>2. CASE FetchConstraintsHash(c)
    <3>1. version[req[c].intent_ref] \in Versions
      BY <2>2, RequestsAssumption DEF SealInv, CallsInv, TypeOK, FetchConstraintsHash
    <3>2. QED
      BY <2>2, <3>1 DEF SealInv, CallsInv, TypeOK, FetchConstraintsHash
  <2>3. CASE NewPackageID(c) \/ DrawDEK(c)
    <3>1. pc[c] \in Hashed /\ constraintsHash' = constraintsHash
      BY <2>3 DEF NewPackageID, DrawDEK, Hashed, Allowed
    <3>2. QED
      BY <3>1 DEF SealInv, WorkInv, BoundInv
  <2>4. QED
    BY <2>1, <2>2, <2>3
<1>5. BoundInv(c)'
  BY <1>2, <1>4 DEF BoundInv, Hashed, Allowed, Bound, Signed
<1>6. QED
  BY <1>3, <1>5 DEF WorkInv

(* One more segment is sealed, with the call's own key for its audience;   *)
(* those before it have other names.                                       *)
LEMMA SealSegmentWork ==
    ASSUME SealInv, NEW c \in Calls, SealSegment(c)
    PROVE  WorkInv(c)'
<1>1. CASE Fail(c)
  BY <1>1, FailWork DEF SealInv
<1> SUFFICES ASSUME ~Fail(c) PROVE WorkInv(c)'
  BY <1>1
<1> DEFINE r == req[c]
           t == turn[c]
           aud == Current(c)
           entry == EntryFor(c, aud, NewDEK(c, aud.name))
<1>2. /\ pc[c] = "wrap" /\ t \in DOMAIN r.audiences /\ t \in Nat \ {0}
      /\ CheckAudiences(r) /\ aud = r.audiences[t]
      /\ r.audiences \in Seq(Range(r.audiences))
  <2>1. pc[c] = "wrap" /\ r \in Requests
    BY DEF SealInv, CallsInv, TypeOK, SealSegment
  <2>2. QED
    BY <2>1, RequestsAssumption
       DEF SealInv, CallsInv, TypeOK, CallInv, LoopInv, Current
<1>3. dek[c] = NewDEK(c, aud.name)
  BY <1>2 DEF SealInv, WorkInv, EntriesInv
<1>4. /\ entries'[c] = Put(entries[c], aud.name, entry)
      /\ turn'[c] = t + 1 /\ req' = req /\ constraintsHash' = constraintsHash
      /\ pc'[c] = IF t = Len(r.audiences) THEN "bind" ELSE "dek"
  BY <1>3 DEF SealInv, CallsInv, TypeOK, SealSegment, Goto
<1>5. entries'[c] = [a \in DOMAIN entries'[c] |-> entries'[c][a]]
  BY <1>4 DEF Put
<1>6. ASSUME NEW i \in 1..t
      PROVE  LET b == r.audiences[i]
             IN  entries'[c][b.name] = EntryFor(c, b, NewDEK(c, b.name))
  <2>1. CASE i = t
    BY <1>2, <1>4, <2>1 DEF Put
  <2>2. CASE i # t
    <3>1. i \in 1..(t - 1) /\ i \in DOMAIN r.audiences
      BY <1>2, <2>2
    <3>2. entries[c][r.audiences[i].name]
            = EntryFor(c, r.audiences[i], NewDEK(c, r.audiences[i].name))
      BY <3>1 DEF SealInv, WorkInv, EntriesInv
    <3>3. r.audiences[i].name # aud.name
      BY <1>2, <2>2, <3>1 DEF CheckAudiences
    <3>4. r.audiences[i].name \in DOMAIN entries[c]
      BY <1>2, <3>1 DEF SealInv, CallsInv, CallInv, LoopInv
    <3>5. QED
      BY <1>4, <3>2, <3>3, <3>4 DEF Put
  <2>3. QED
    BY <2>1, <2>2
<1>7. EntriesInv(c)'
  <2>1. turn'[c] - 1 = t /\ pc'[c] # "wrap"
    BY <1>2, <1>4
  <2>2. pc'[c] \in Bound \cup {"bind"} => turn'[c] = Len(req'[c].audiences) + 1
    BY <1>4 DEF Bound
  <2>3. ASSUME NEW i \in 1..t
        PROVE  LET b == req[c].audiences[i]
               IN  entries'[c][b.name] =
                    SegmentEntry(AADContext(PackageID(c), req[c]), b, req[c].segments[b.name],
                                 NewDEK(c, b.name), Nonce(c, b.name), Ephemeral(c, b.name))
    BY <1>6 DEF EntryFor
  <2>4. QED
    BY <1>4, <1>5, <2>1, <2>2, <2>3 DEF EntriesInv, EntryFor
<1>8. BoundInv(c)'
  BY <1>2, <1>4 DEF SealInv, WorkInv, BoundInv, Hashed, Allowed, Bound, Signed
<1>9. QED
  BY <1>7, <1>8 DEF WorkInv

(* Past Bind the root and every binding can be computed.                   *)
LEMMA BindWork ==
    ASSUME SealInv, NEW c \in Calls, Bind(c)
    PROVE  WorkInv(c)'
<1>1. CASE Fail(c)
  BY <1>1, FailWork DEF SealInv
<1> SUFFICES ASSUME ~Fail(c) PROVE WorkInv(c)'
  BY <1>1
<1>2. /\ pc[c] = "bind" /\ pc'[c] = "kid" /\ entries' = entries /\ turn' = turn
      /\ req' = req /\ constraintsHash' = constraintsHash
      /\ RootOf(c) # Nil /\ ExtraOf(c) # Nil
  BY DEF SealInv, CallsInv, TypeOK, Bind, Goto
<1>3. EntriesInv(c)'
  BY <1>2, EntriesFrame DEF SealInv, WorkInv
<1>4. RootOf(c)' = RootOf(c) /\ ExtraOf(c)' = ExtraOf(c)
  BY <1>2 DEF RootOf, ExtraOf
<1>5. BoundInv(c)'
  BY <1>2, <1>4 DEF SealInv, WorkInv, BoundInv, Hashed, Allowed, Bound, Signed
<1>6. QED
  BY <1>3, <1>5 DEF WorkInv

(* Past AskKid the view of the package that names that kid can be built.   *)
LEMMA AskKidWork ==
    ASSUME SealInv, NEW c \in Calls, AskKid(c)
    PROVE  WorkInv(c)'
<1>1. CASE Fail(c)
  BY <1>1, FailWork DEF SealInv
<1> SUFFICES ASSUME ~Fail(c) PROVE WorkInv(c)'
  BY <1>1
<1>2. /\ pc[c] = "kid" /\ pc'[c] = "sign" /\ entries' = entries /\ turn' = turn
      /\ req' = req /\ constraintsHash' = constraintsHash
      /\ kid'[c] = signingKid /\ signingKid' = signingKid /\ signingKid \in Kids
      /\ BuildSigningView(PackageOf(c, signingKid)) # Nil
  BY DEF SealInv, CallsInv, TypeOK, AskKid, Goto, env
<1>3. EntriesInv(c)'
  BY <1>2, EntriesFrame DEF SealInv, WorkInv, Bound
<1>4. /\ RootOf(c)' = RootOf(c) /\ ExtraOf(c)' = ExtraOf(c)
      /\ PackageOf(c, kid[c])' = PackageOf(c, signingKid)
  BY <1>2 DEF RootOf, ExtraOf, PackageOf
<1>5. BoundInv(c)'
  BY <1>2, <1>4 DEF SealInv, WorkInv, BoundInv, Hashed, Allowed, Bound, Signed
<1>6. QED
  BY <1>3, <1>5 DEF WorkInv

(* The signer still has the key that Kid named: a new process would have   *)
(* ended the call.                                                         *)
LEMMA AskSignatureWork ==
    ASSUME SealInv, NEW c \in Calls, AskSignature(c)
    PROVE  WorkInv(c)'
<1>1. CASE Fail(c)
  BY <1>1, FailWork DEF SealInv
<1> SUFFICES ASSUME ~Fail(c) PROVE WorkInv(c)'
  BY <1>1
<1>2. /\ pc[c] = "sign" /\ pc'[c] = "returned" /\ entries' = entries /\ turn' = turn
      /\ req' = req /\ constraintsHash' = constraintsHash /\ kid' = kid
      /\ result'[c] = SignedPackage(PackageOf(c, kid[c]), IssuerKey(signingKid))
      /\ kid[c] = signingKid
  BY DEF SealInv, CallsInv, TypeOK, WorkInv, BoundInv, AskSignature, Goto
<1>3. EntriesInv(c)'
  BY <1>2, EntriesFrame DEF SealInv, WorkInv, Bound
<1>4. /\ RootOf(c)' = RootOf(c) /\ ExtraOf(c)' = ExtraOf(c)
      /\ PackageOf(c, kid[c])' = PackageOf(c, kid[c])
  BY <1>2 DEF RootOf, ExtraOf, PackageOf
<1>5. BoundInv(c)'
  BY <1>2, <1>4 DEF SealInv, WorkInv, BoundInv, Hashed, Allowed, Bound, Signed
<1>6. QED
  BY <1>3, <1>5 DEF WorkInv

(* A step of one call does not touch what the others have.                 *)
LEMMA OtherWork ==
    ASSUME SealInv, NEW c \in Calls, NEW d \in Calls, d # c,
           SealStep(c) \/ \E r \in Requests : Submit(c, r)
    PROVE  WorkInv(d)'
<1>1. /\ pc'[d] = pc[d] /\ req'[d] = req[d] /\ constraintsHash'[d] = constraintsHash[d]
      /\ turn'[d] = turn[d] /\ entries'[d] = entries[d] /\ dek'[d] = dek[d]
      /\ kid'[d] = kid[d] /\ result'[d] = result[d] /\ signingKid' = signingKid
  <2>1. CASE Fail(c)
    BY <2>1 DEF SealInv, CallsInv, TypeOK, Fail, env
  <2>2. CASE Check(c) /\ ~Fail(c)
    BY <2>2 DEF SealInv, CallsInv, TypeOK, Check, Goto, env
  <2>3. CASE FetchConstraintsHash(c) /\ ~Fail(c)
    BY <2>3 DEF SealInv, CallsInv, TypeOK, FetchConstraintsHash, Goto, env
  <2>4. CASE (NewPackageID(c) \/ DrawDEK(c)) /\ ~Fail(c)
    BY <2>4 DEF SealInv, CallsInv, TypeOK, NewPackageID, DrawDEK, Goto, env
  <2>5. CASE SealSegment(c) /\ ~Fail(c)
    BY <2>5 DEF SealInv, CallsInv, TypeOK, SealSegment, Goto, env
  <2>6. CASE (Bind(c) \/ AskKid(c)) /\ ~Fail(c)
    BY <2>6 DEF SealInv, CallsInv, TypeOK, Bind, AskKid, Goto, env
  <2>7. CASE AskSignature(c) /\ ~Fail(c)
    BY <2>7 DEF SealInv, CallsInv, TypeOK, AskSignature, Goto, env
  <2>8. CASE \E r \in Requests : Submit(c, r)
    BY <2>8 DEF SealInv, CallsInv, TypeOK, Submit, Goto, env
  <2>9. QED
    BY <2>1, <2>2, <2>3, <2>4, <2>5, <2>6, <2>7, <2>8 DEF SealStep
<1>2. QED
  BY <1>1, WorkFrame DEF SealInv

(* The environment: an amendment is outside every call, and a new process  *)
(* has none in progress.                                                   *)
LEMMA EnvironmentWork ==
    ASSUME SealInv, NEW d \in Calls,
           \/ \E r \in IntentRefs, v \in Versions : Amend(r, v)
           \/ \E k \in Kids : Restart(k)
           \/ UNCHANGED vars
    PROVE  WorkInv(d)'
<1>1. CASE UNCHANGED <<local, signingKid>>
  BY <1>1, WorkFrame DEF SealInv, local
<1>2. CASE \E k \in Kids : Restart(k)
  <2>1. CASE InProgress(d)
    BY <1>2, <2>1, NoEntriesNext DEF SealInv, CallsInv, TypeOK, Restart
  <2>2. CASE ~InProgress(d)
    <3>1. dek[d] = Nil
      BY <2>2 DEF SealInv, CallsInv, CallInv, KeyInv, InProgress
    <3>2. QED
      BY <1>2, <2>2, <3>1, WorkFrame DEF SealInv, CallsInv, TypeOK, Restart, InProgress
  <2>3. QED
    BY <2>1, <2>2
<1>3. QED
  BY <1>1, <1>2 DEF Amend, vars, env

(* SealInv is inductive, whichever action is taken. *)
LEMMA StepWork == SealInv /\ [Next]_vars => SealInv'
<1> SUFFICES ASSUME SealInv, [Next]_vars PROVE SealInv'
  OBVIOUS
<1>1. CallsInv'
  BY StepInv DEF SealInv
<1>2. ASSUME NEW c \in Calls, SealStep(c) PROVE WorkInv(c)'
  BY <1>2, QuestionsWork, SealSegmentWork, BindWork, AskKidWork, AskSignatureWork
     DEF SealStep
<1>3. ASSUME NEW c \in Calls, NEW r \in Requests, Submit(c, r) PROVE WorkInv(c)'
  BY <1>3, SubmitWork
<1>4. \A d \in Calls : WorkInv(d)'
  BY <1>2, <1>3, OtherWork, EnvironmentWork DEF Next
<1>5. QED
  BY <1>1, <1>4 DEF SealInv

(* The inductive invariant holds in every reachable state, for any numbers *)
(* of calls, audiences, keys, amendments and restarts. *)
THEOREM SealInvariant == Spec => []SealInv
<1>1. Init => SealInv
  BY InitInv, NoEntries DEF Init, SealInv
<1>2. QED
  BY <1>1, StepWork, PTL DEF Spec

-----------------------------------------------------------------------------
(* What a returned package is worth *)

(* The loop is over: one entry per audience, whole and of the call's own   *)
(* making.                                                                 *)
LEMMA EntriesDone ==
    ASSUME SealInv, NEW c \in Calls, pc[c] \in Bound
    PROVE  /\ req[c] \in Requests /\ CheckAudiences(req[c])
           /\ req[c].audiences # <<>> /\ req[c].audiences \in Seq(Range(req[c].audiences))
           /\ AudienceNames(req[c]) # {} /\ DOMAIN entries[c] = AudienceNames(req[c])
           /\ \A i \in DOMAIN req[c].audiences :
                  entries[c][req[c].audiences[i].name]
                    = EntryFor(c, req[c].audiences[i], NewDEK(c, req[c].audiences[i].name))
<1>1. req[c] \in Requests /\ CheckAudiences(req[c]) /\ req[c].audiences # <<>>
  BY DEF SealInv, CallsInv, TypeOK, CallInv, LoopInv, Bound
<1>2. req[c].audiences \in Seq(Range(req[c].audiences))
  BY <1>1, RequestsAssumption
<1>3. turn[c] - 1 = Len(req[c].audiences)
  <2>1. turn[c] = Len(req[c].audiences) + 1
    BY DEF SealInv, WorkInv, EntriesInv
  <2>2. Len(req[c].audiences) \in Nat
    BY <1>2
  <2>3. QED
    BY <2>1, <2>2
<1>4. DOMAIN req[c].audiences = 1..(turn[c] - 1) /\ 1 \in DOMAIN req[c].audiences
  BY <1>1, <1>2, <1>3
<1>5. DOMAIN entries[c] = AudienceNames(req[c])
  BY <1>4 DEF SealInv, CallsInv, CallInv, LoopInv, AudienceNames
<1>6. AudienceNames(req[c]) # {}
  BY <1>4 DEF AudienceNames
<1>7. QED
  BY <1>1, <1>2, <1>4, <1>5, <1>6 DEF SealInv, WorkInv, EntriesInv

(* What EntryFor puts together, of any request.                            *)
LEMMA EntryForParts ==
    ASSUME NEW c, NEW aud, NEW key
    PROVE  LET e == EntryFor(c, aud, key)
               combined == Encrypt(key, Nonce(c, aud.name), req[c].segments[aud.name],
                                   AAD(AADContext(PackageID(c), req[c]), aud.name,
                                       SupportedSpecVersion))
           IN  /\ e.manifest.plain_hash = H(JCS(req[c].segments[aud.name]))
               /\ e.manifest.cipher_hash = H(combined)
               /\ e.cnf.jkt = Thumbprint(aud.key)
               /\ e.sealed.epk = EPK(Ephemeral(c, aud.name))
               /\ e.sealed.dek_wrapped = Wrap(aud.key, Ephemeral(c, aud.name), key)
               /\ e.sealed.nonce = Nonce(c, aud.name)
               /\ e.sealed.ciphertext = Body(combined) /\ e.sealed.tag = Tag(combined)
BY DEF EntryFor, SegmentEntry

LEMMA ReturnedPasses ==
    ASSUME SealInv, NEW c \in Calls, pc[c] = "returned"
    PROVE  Level1Passed(Level1Report(result[c], Trust, req[c].specs))
<1> DEFINE r == req[c]
<1>1. /\ r \in Requests /\ AudienceNames(r) # {} /\ DOMAIN entries[c] = AudienceNames(r)
      /\ \A i \in DOMAIN r.audiences :
             entries[c][r.audiences[i].name]
               = EntryFor(c, r.audiences[i], NewDEK(c, r.audiences[i].name))
  BY EntriesDone DEF Bound
<1>2. SealedEntries(entries[c])
  <2> SUFFICES ASSUME NEW a \in DOMAIN entries[c]
               PROVE  \E combined :
                        /\ entries[c][a].manifest.cipher_hash = H(combined)
                        /\ entries[c][a].sealed.ciphertext = Body(combined)
                        /\ entries[c][a].sealed.tag = Tag(combined)
    BY DEF SealedEntries
  <2>1. PICK i \in DOMAIN r.audiences : r.audiences[i].name = a
    BY <1>1 DEF AudienceNames
  <2>2. entries[c][a] = EntryFor(c, r.audiences[i], NewDEK(c, a))
    BY <1>1, <2>1
  <2>3. QED
    BY <2>2, EntryForParts
<1>3. /\ RootOf(c) # Nil /\ ExtraOf(c) # Nil
      /\ kid[c] \in Kids /\ BuildSigningView(PackageOf(c, kid[c])) # Nil
      /\ result[c] = SignedPackage(PackageOf(c, kid[c]), IssuerKey(kid[c]))
  BY DEF SealInv, WorkInv, BoundInv, Bound, Signed
<1>4. r.segment_order # <<>>
  <2>1. Range(r.segment_order) = DOMAIN entries[c]
    BY <1>3 DEF RootOf, SegmentsRoot, SameAudiences, EntryPlainHashes
  <2>2. Range(<<>>) = {}
    BY DEF Range
  <2>3. QED
    BY <1>1, <2>1, <2>2
<1>5. <<r.issuer, kid[c]>> \in DOMAIN Trust /\ Trust[<<r.issuer, kid[c]>>] = IssuerKey(kid[c])
  BY <1>1, <1>3 DEF Trust
<1>6. r.segment_order \in Seq(Range(r.segment_order)) /\ r.specs \in Seq(Range(r.specs))
  BY <1>1, ListsAssumption
<1>7. QED
  BY <1>2, <1>3, <1>4, <1>5, <1>6, BuiltPasses DEF RootOf, ExtraOf, PackageOf

(* Seal and Verify agree about every package Seal returns, for any request *)
(* whatever, however the call was interleaved with others, with amendments *)
(* and with restarts of the process. *)
THEOREM PackagesVerify == Spec => []IssuedPackageVerifies
<1>1. SealInv => IssuedPackageVerifies
  BY ReturnedPasses DEF IssuedPackageVerifies
<1>2. QED
  BY <1>1, SealInvariant, PTL

(* Where the parts of a returned package come from.                        *)
LEMMA ReturnedParts ==
    ASSUME SealInv, NEW c \in Calls, pc[c] = "returned"
    PROVE  /\ result[c].spec_version = SupportedSpecVersion
           /\ result[c].manifest.aad_context = AADContext(PackageID(c), req[c])
           /\ DOMAIN result[c].cnf = AudienceNames(req[c])
           /\ DOMAIN result[c].manifest.segments = AudienceNames(req[c])
           /\ DOMAIN result[c].segments = AudienceNames(req[c])
           /\ \A i \in DOMAIN req[c].audiences :
                  LET aud == req[c].audiences[i]
                      e   == EntryFor(c, aud, NewDEK(c, aud.name))
                  IN  /\ result[c].cnf[aud.name] = e.cnf
                      /\ result[c].manifest.segments[aud.name] = e.manifest
                      /\ result[c].segments[aud.name] = e.sealed
<1>1. result[c] = SignedPackage(PackageOf(c, kid[c]), IssuerKey(kid[c]))
  BY DEF SealInv, WorkInv, BoundInv
<1>2. /\ DOMAIN entries[c] = AudienceNames(req[c])
      /\ \A i \in DOMAIN req[c].audiences :
             /\ req[c].audiences[i].name \in AudienceNames(req[c])
             /\ entries[c][req[c].audiences[i].name]
                  = EntryFor(c, req[c].audiences[i], NewDEK(c, req[c].audiences[i].name))
  BY EntriesDone DEF Bound, AudienceNames
<1>3. /\ result[c].spec_version = SupportedSpecVersion
      /\ result[c].manifest = [segment_order |-> req[c].segment_order,
                               aad_context |-> AADContext(PackageID(c), req[c]),
                               segments |-> [a \in DOMAIN entries[c] |-> entries[c][a].manifest]]
      /\ result[c].segments = [a \in DOMAIN entries[c] |-> entries[c][a].sealed]
      /\ result[c].cnf = [a \in DOMAIN entries[c] |-> entries[c][a].cnf]
  BY <1>1 DEF SignedPackage, UnsignedPackage, PackageOf
<1>4. QED
  BY <1>2, <1>3

(* The audiences a key matches are the ones that were given it.            *)
LEMMA MatchesOfReturned ==
    ASSUME SealInv, NEW c \in Calls, pc[c] = "returned", NEW priv
    PROVE  Matches(result[c].cnf, priv)
             = {req[c].audiences[i].name :
                    i \in {j \in DOMAIN req[c].audiences :
                               req[c].audiences[j].key = PublicKey(priv)}}
<1>1. \A i \in DOMAIN req[c].audiences :
          result[c].cnf[req[c].audiences[i].name].jkt
            = Thumbprint(req[c].audiences[i].key)
  BY ReturnedParts, EntryForParts
<1>2. \A x, y : Thumbprint(x) = Thumbprint(y) => x = y
  BY DEF Thumbprint
<1>3. DOMAIN result[c].cnf = {req[c].audiences[i].name : i \in DOMAIN req[c].audiences}
  BY ReturnedParts DEF AudienceNames
<1>4. QED
  BY <1>1, <1>2, <1>3 DEF Matches

(* The one audience that holds a key gets its text with it.                *)
LEMMA OwnerOpens ==
    ASSUME SealInv, NEW c \in Calls, pc[c] = "returned", NEW priv,
           NEW i \in DOMAIN req[c].audiences, req[c].audiences[i].key = PublicKey(priv),
           Matches(result[c].cnf, priv) = {req[c].audiences[i].name}
    PROVE  OpensAs(c, priv) =
              [err |-> Nil, audience |-> req[c].audiences[i].name,
               plaintext |-> req[c].segments[req[c].audiences[i].name]]
<1> DEFINE p == result[c]
           aud == req[c].audiences[i]
           a == aud.name
           text == req[c].segments[a]
           key == NewDEK(c, a)
           e == EntryFor(c, aud, key)
           combined == Encrypt(key, Nonce(c, a), text,
                               AAD(p.manifest.aad_context, a, p.spec_version))
<1>1. /\ req[c] \in Requests /\ a \in AudienceNames(req[c]) /\ a \in DOMAIN req[c].segments
  BY EntriesDone DEF Bound, CheckAudiences, AudienceNames
<1>2. key # Nil /\ text # Nil
  BY <1>1, NilAssumption DEF Range
<1>3. /\ p.manifest.segments[a] = e.manifest /\ p.segments[a] = e.sealed
      /\ p.manifest.aad_context = AADContext(PackageID(c), req[c])
      /\ p.spec_version = SupportedSpecVersion
      /\ a \in DOMAIN p.manifest.segments \cap DOMAIN p.segments
  BY <1>1, ReturnedParts
<1>4. /\ p.segments[a].epk = EPK(Ephemeral(c, a))
      /\ p.segments[a].dek_wrapped = Wrap(PublicKey(priv), Ephemeral(c, a), key)
      /\ p.segments[a].nonce = Nonce(c, a)
      /\ p.segments[a].ciphertext = Body(combined)
      /\ p.segments[a].tag = Tag(combined)
      /\ H(JCS(text)) = p.manifest.segments[a].plain_hash
  BY <1>3, EntryForParts
<1> HIDE DEF p, text, key
<1>5. Recover(p, a, priv) = text
  BY <1>2, <1>4, RecoversOwn
<1>6. Level1Passed(Level1Report(p, Trust, req[c].specs))
  BY ReturnedPasses DEF p
<1>7. OpenPackage(p, priv, Trust, req[c].specs)
        = [err |-> Nil, audience |-> a, plaintext |-> text]
  BY <1>2, <1>3, <1>4, <1>5, <1>6, OpensTheOne DEF p
<1>8. QED
  BY <1>7 DEF OpensAs, p, text

(* Where audiences hold keys of their own, each opens its own segment with *)
(* it and nobody opens another's; a key no audience holds opens nothing.   *)
THEOREM RecipientsOpen == Spec => []RecipientsOpenTheirOwn
<1>1. ASSUME SealInv, NEW c \in Calls, pc[c] = "returned", KeysDistinct(req[c]),
             NEW priv \in PrivateKeys
      PROVE  LET mine == {i \in DOMAIN req[c].audiences :
                             req[c].audiences[i].key = PublicKey(priv)}
                 name == req[c].audiences[CHOOSE i \in mine : TRUE].name
             IN  IF mine = {} THEN OpensAs(c, priv).err # Nil
                 ELSE OpensAs(c, priv) =
                         [err |-> Nil, audience |-> name,
                          plaintext |-> req[c].segments[name]]
  <2> DEFINE mine == {i \in DOMAIN req[c].audiences :
                         req[c].audiences[i].key = PublicKey(priv)}
  <2>1. Matches(result[c].cnf, priv) = {req[c].audiences[i].name : i \in mine}
    BY <1>1, MatchesOfReturned
  <2>2. CASE mine = {}
    <3>1. Matches(result[c].cnf, priv) = {}
      BY <2>1, <2>2
    <3>2. OpensAs(c, priv) = OpenFailed("decryption_failed")
      BY <1>1, <3>1, ReturnedPasses, OpensNone DEF OpensAs
    <3>3. QED
      BY <2>2, <3>2, NilAssumption DEF OpenFailed
  <2>3. CASE mine # {}
    <3> DEFINE i == CHOOSE j \in mine : TRUE
    <3>1. i \in mine
      BY <2>3
    <3> HIDE DEF i
    <3>2. \A j \in mine : j = i
      BY <1>1, <3>1 DEF KeysDistinct
    <3>3. Matches(result[c].cnf, priv) = {req[c].audiences[i].name}
      BY <2>1, <3>1, <3>2
    <3>4. OpensAs(c, priv) = [err |-> Nil, audience |-> req[c].audiences[i].name,
                              plaintext |-> req[c].segments[req[c].audiences[i].name]]
      BY <1>1, <3>1, <3>3, OwnerOpens
    <3>5. QED
      BY <2>3, <3>4 DEF i
  <2>4. QED
    BY <2>2, <2>3
<1>2. SealInv => RecipientsOpenTheirOwn
  BY <1>1 DEF RecipientsOpenTheirOwn
<1>3. QED
  BY <1>2, SealInvariant, PTL

-----------------------------------------------------------------------------
(* Seal implements Issuance *)

(* Issuance names the operators of Package through its own instance.       *)
LEMMA AbstractTerms ==
    /\ \A x : Abstract!JCS(x) = JCS(x) /\ Abstract!H(x) = H(x)
    /\ \A f : Abstract!Range(f) = Range(f)
    /\ \A f : Abstract!IsInjective(f) <=> IsInjective(f)
    /\ \A f, S : Abstract!Restrict(f, S) = Restrict(f, S)
    /\ \A c : Abstract!PackageID(c) = PackageID(c)
    /\ \A v : Abstract!ConstraintsHashOf(v) = ConstraintsHashOf(v)
    /\ \A k : Abstract!IssuerKey(k) = IssuerKey(k)
    /\ \A key, view : Abstract!Sign(key, view) = Sign(key, view)
    /\ \A r : Abstract!AudienceNames(r) = AudienceNames(r)
    /\ \A r, a : Abstract!AudienceNamed(r, a) =
                    CHOOSE aud \in Range(r.audiences) : aud.name = a
    /\ Abstract!RequiredSignedFields = RequiredSignedFields
    /\ Abstract!CoreBindingNames = CoreBindingNames
    /\ \A s : Abstract!SpecNames(s) = SpecNames(s)
<1>1. /\ \A x : Abstract!JCS(x) = JCS(x) /\ Abstract!H(x) = H(x)
      /\ \A c : Abstract!PackageID(c) = PackageID(c)
      /\ \A k : Abstract!IssuerKey(k) = IssuerKey(k)
      /\ \A key, view : Abstract!Sign(key, view) = Sign(key, view)
  BY DEF Abstract!JCS, JCS, Abstract!H, H, Abstract!PackageID, PackageID,
         Abstract!IssuerKey, IssuerKey, Abstract!Sign, Sign
<1>2. /\ \A f : Abstract!Range(f) = Range(f)
      /\ \A f : Abstract!IsInjective(f) <=> IsInjective(f)
      /\ \A f, S : Abstract!Restrict(f, S) = Restrict(f, S)
  BY DEF Abstract!Range, Range, Abstract!IsInjective, IsInjective,
         Abstract!Restrict, Restrict
<1>3. /\ \A v : Abstract!ConstraintsHashOf(v) = ConstraintsHashOf(v)
      /\ \A r : Abstract!AudienceNames(r) = AudienceNames(r)
      /\ \A r, a : Abstract!AudienceNamed(r, a) =
                      CHOOSE aud \in Range(r.audiences) : aud.name = a
      /\ Abstract!RequiredSignedFields = RequiredSignedFields
      /\ Abstract!CoreBindingNames = CoreBindingNames
      /\ \A s : Abstract!SpecNames(s) = SpecNames(s)
  BY <1>1, <1>2 DEF Abstract!ConstraintsHashOf, ConstraintsHashOf,
         Abstract!AudienceNames, AudienceNames, Abstract!AudienceNamed,
         Abstract!RequiredSignedFields, RequiredSignedFields,
         Abstract!CoreBindingNames, CoreBindingNames, Abstract!SpecNames, SpecNames
<1>4. QED
  BY <1>1, <1>2, <1>3

LEMMA AbstractEntries ==
    ASSUME NEW c, NEW r
    PROVE  Abstract!AllEntries(c, r) = EntriesOf(c, r)
<1>1. \A a : Abstract!SegmentEntry(Abstract!AADContext(Abstract!PackageID(c), r),
                   Abstract!AudienceNamed(r, a), r.segments[a], Abstract!NewDEK(c, a),
                   Abstract!Nonce(c, a), Abstract!Ephemeral(c, a))
           = SegmentEntry(AADContext(PackageID(c), r), AudienceOf(r, a),
                   r.segments[a], NewDEK(c, a), Nonce(c, a), Ephemeral(c, a))
  BY AbstractTerms
     DEF Abstract!SegmentEntry, SegmentEntry, Abstract!AADContext, AADContext,
         AudienceOf, Abstract!NewDEK, NewDEK, Abstract!Nonce, Nonce,
         Abstract!Ephemeral, Ephemeral, Abstract!Encrypt, Encrypt, Abstract!AAD, AAD,
         Abstract!EPK, EPK, Abstract!Wrap, Wrap, Abstract!Body, Body, Abstract!Tag, Tag,
         Abstract!Thumbprint, Thumbprint
<1>2. QED
  BY <1>1, AbstractTerms DEF Abstract!AllEntries, EntriesOf

LEMMA AbstractBindings ==
    ASSUME NEW r, NEW hash, NEW es, NEW root
    PROVE  /\ Abstract!ExtraBindings(r, hash, es, root)
                = ExtraBindings(r, hash, es, root)
           /\ Abstract!SegmentsRoot(r.segment_order, Abstract!EntryPlainHashes(es))
                = SegmentsRoot(r.segment_order, EntryPlainHashes(es))
           /\ Abstract!IntentCommitment(r.intent_ref, hash, root)
                = IntentCommitment(r.intent_ref, hash, root)
<1>1. /\ Abstract!EntryPlainHashes(es) = EntryPlainHashes(es)
      /\ \A ref, h, x : Abstract!IntentCommitment(ref, h, x) = IntentCommitment(ref, h, x)
      /\ \A ph, ref, h, x : Abstract!BindingContext(ph, ref, h, x)
                                = BindingContext(ph, ref, h, x)
  BY AbstractTerms
     DEF Abstract!EntryPlainHashes, EntryPlainHashes, Abstract!IntentCommitment,
         IntentCommitment, Abstract!BindingContext, BindingContext
<1>2. \A order, ph : Abstract!SegmentsRoot(order, ph) = SegmentsRoot(order, ph)
  BY AbstractTerms
     DEF Abstract!SegmentsRoot, SegmentsRoot, Abstract!SameAudiences, SameAudiences
<1>3. \A spec, ctx : Abstract!BindingValue(spec, ctx) = BindingValue(spec, ctx)
  BY <1>1, AbstractTerms DEF Abstract!BindingValue, BindingValue
<1>4. \A specs_, n : Abstract!LastSpec(specs_, n) = LastSpec(specs_, n)
  BY DEF Abstract!LastSpec, LastSpec
<1>5. \A ctx, specs_ : Abstract!ComputeBindings(ctx, specs_) = ComputeBindings(ctx, specs_)
  BY <1>3, <1>4, AbstractTerms DEF Abstract!ComputeBindings, ComputeBindings
<1>6. QED
  BY <1>1, <1>2, <1>5 DEF Abstract!ExtraBindings, ExtraBindings

LEMMA AbstractPackages ==
    ASSUME NEW c, NEW r, NEW v, NEW k
    PROVE  Abstract!CompletePackage(c, r, v, k)
             = SignedPackage(UnsignedPackage(PackageID(c), r, ConstraintsHashOf(v),
                                             EntriesOf(c, r), k),
                             IssuerKey(k))
<1> DEFINE u == UnsignedPackage(PackageID(c), r, ConstraintsHashOf(v), EntriesOf(c, r), k)
<1>1. Abstract!UnsignedPackage(PackageID(c), r, ConstraintsHashOf(v), EntriesOf(c, r), k) = u
  BY AbstractBindings
     DEF Abstract!UnsignedPackage, UnsignedPackage, Abstract!AADContext, AADContext
<1> HIDE DEF u
<1>2. Abstract!BuildSigningView(u) = BuildSigningView(u)
  BY AbstractTerms
     DEF Abstract!BuildSigningView, BuildSigningView, Abstract!SigningView, SigningView,
         Abstract!Marshals, Marshals
<1>3. Abstract!SignedPackage(u, IssuerKey(k)) = SignedPackage(u, IssuerKey(k))
  BY <1>2, AbstractTerms DEF Abstract!SignedPackage, SignedPackage
<1>4. QED
  BY <1>1, <1>3, AbstractTerms, AbstractEntries DEF Abstract!CompletePackage, u

(* At the signature, the call's request is one that Seal can serve ...     *)
LEMMA SignedIsValid ==
    ASSUME SealInv, NEW c \in Calls, pc[c] = "sign"
    PROVE  Abstract!ValidRequest(req[c])
<1> DEFINE r == req[c]
           ctx == BindingContext(EntryPlainHashes(entries[c]), r.intent_ref,
                                 constraintsHash[c], RootOf(c))
<1>1. /\ CheckAudiences(r) /\ r.audiences # <<>> /\ DOMAIN entries[c] = AudienceNames(r)
  BY EntriesDone DEF Bound
<1>2. /\ RootOf(c) # Nil /\ ExtraOf(c) # Nil
      /\ BuildSigningView(PackageOf(c, kid[c])) # Nil
  BY DEF SealInv, WorkInv, BoundInv, Bound, Signed
<1>3. IsInjective(r.segment_order) /\ Range(r.segment_order) = AudienceNames(r)
  BY <1>1, <1>2 DEF RootOf, SegmentsRoot, SameAudiences, EntryPlainHashes
<1>4. DOMAIN ctx.plain_hash = AudienceNames(r)
  BY <1>1 DEF BindingContext, EntryPlainHashes
<1>5. /\ \A i \in DOMAIN r.specs : BindingValue(r.specs[i], ctx) # Nil
      /\ DOMAIN ExtraOf(c) = SpecNames(r.specs)
  <2> HIDE DEF ctx
  <2>1. ExtraOf(c) = ComputeBindings(ctx, r.specs)
    BY DEF ExtraOf, ExtraBindings, ctx
  <2>2. QED
    BY <1>2, <2>1 DEF ComputeBindings
<1>6. \A i \in DOMAIN r.specs : \/ r.specs[i].commits = "intent"
                                \/ r.specs[i].reads \subseteq AudienceNames(r)
  BY <1>4, <1>5 DEF BindingValue
<1>7. SpecNames(r.specs) \cap CoreBindingNames = {}
  <2>1. PackageOf(c, kid[c]).bindings.extra = ExtraOf(c)
    BY DEF PackageOf, UnsignedPackage, ExtraOf, RootOf
  <2>2. Marshals(PackageOf(c, kid[c]).bindings)
    BY <1>2 DEF BuildSigningView, SigningView
  <2>3. QED
    BY <1>5, <2>1, <2>2 DEF Marshals
<1>8. Abstract!CheckAudiences(r)
  BY <1>1, AbstractTerms DEF Abstract!CheckAudiences, CheckAudiences
<1>9. QED
  BY <1>1, <1>3, <1>6, <1>7, <1>8, AbstractTerms DEF Abstract!ValidRequest

(* ... and its entries are all of the complete package's.                  *)
LEMMA EntriesComplete ==
    ASSUME SealInv, NEW c \in Calls, pc[c] = "sign"
    PROVE  entries[c] = EntriesOf(c, req[c])
<1> DEFINE r == req[c]
<1>1. /\ CheckAudiences(r) /\ DOMAIN entries[c] = AudienceNames(r)
      /\ \A i \in DOMAIN r.audiences :
             entries[c][r.audiences[i].name]
               = EntryFor(c, r.audiences[i], NewDEK(c, r.audiences[i].name))
  BY EntriesDone DEF Bound
<1>2. ASSUME NEW a \in AudienceNames(r)
      PROVE  entries[c][a] =
                SegmentEntry(AADContext(PackageID(c), r), AudienceOf(r, a),
                             r.segments[a], NewDEK(c, a), Nonce(c, a), Ephemeral(c, a))
  <2>1. PICK i \in DOMAIN r.audiences : r.audiences[i].name = a
    BY DEF AudienceNames
  <2>2. \A aud \in Range(r.audiences) : aud.name = a => aud = r.audiences[i]
    BY <1>1, <2>1 DEF CheckAudiences, Range
  <2>3. AudienceOf(r, a) = r.audiences[i]
    BY <2>1, <2>2 DEF AudienceOf, Range
  <2>4. QED
    BY <1>1, <2>1, <2>3 DEF EntryFor
<1>3. entries[c] = [a \in DOMAIN entries[c] |-> entries[c][a]]
  BY DEF SealInv, WorkInv, EntriesInv
<1>4. QED
  BY <1>1, <1>2, <1>3 DEF EntriesOf

(* The one step that shows: a signature issues a complete package.         *)
LEMMA SignatureIssues ==
    ASSUME SealInv, NEW c \in Calls, AskSignature(c), ~Fail(c)
    PROVE  \E v, w \in Versions, k \in Kids : Abstract!IssueUnder(c, req[c], w, v, k)
<1>1. /\ pc[c] = "sign" /\ kid[c] = signingKid /\ kid[c] \in Kids
      /\ result' = [result EXCEPT ![c] =
                SignedPackage(PackageOf(c, kid[c]), IssuerKey(signingKid))]
  BY DEF SealInv, WorkInv, BoundInv, Signed, AskSignature
<1>2. result[c] = Nil
  BY <1>1 DEF SealInv, CallsInv, CallInv, ResultInv
<1>3. allowedUnder[c] \in Versions /\ Permits(allowedUnder[c], req[c].projection)
  BY <1>1 DEF SealInv, CallsInv, CallInv, AnswersInv, Allowed
<1>4. PICK v \in Versions : constraintsHash[c] = ConstraintsHashOf(v)
  BY <1>1 DEF SealInv, WorkInv, BoundInv, Hashed, Allowed
<1>5. SignedPackage(PackageOf(c, kid[c]), IssuerKey(kid[c]))
        = Abstract!CompletePackage(c, req[c], v, kid[c])
  BY <1>1, <1>4, EntriesComplete, AbstractPackages DEF PackageOf
<1>6. Abstract!IssueUnder(c, req[c], allowedUnder[c], v, kid[c])
  BY <1>1, <1>2, <1>3, <1>5, SignedIsValid DEF Abstract!IssueUnder
<1>7. QED
  BY <1>1, <1>3, <1>6

(* Every other step of a call leaves the results alone.                    *)
LEMMA StepIssues ==
    ASSUME SealInv, [Next]_vars
    PROVE  Abstract!Next \/ UNCHANGED result
<1>1. ASSUME NEW c \in Calls, SealStep(c), ~AskSignature(c) \/ Fail(c)
      PROVE  UNCHANGED result
  BY <1>1 DEF SealStep, Fail, Check, FetchConstraintsHash, NewPackageID, DrawDEK,
              SealSegment, Bind, AskKid, AskSignature
<1>2. ASSUME NEW c \in Calls, AskSignature(c), ~Fail(c)
      PROVE  Abstract!Next
  <2>1. req[c] \in Requests
    BY <1>2 DEF SealInv, CallsInv, TypeOK, AskSignature
  <2>2. QED
    BY <1>2, <2>1, SignatureIssues DEF Abstract!Next
<1>3. ASSUME \/ \E c \in Calls, r \in Requests : Submit(c, r)
             \/ \E r \in IntentRefs, v \in Versions : Amend(r, v)
             \/ \E k \in Kids : Restart(k)
             \/ UNCHANGED vars
      PROVE  UNCHANGED result
  BY <1>3 DEF Submit, Amend, Restart, vars, local
<1>4. QED
  BY <1>1, <1>2, <1>3 DEF Next

(* Seal implements Issuance: whatever the interleaving of calls, failures, *)
(* amendments and restarts, a call issues one complete package at once, of *)
(* a valid and permitted request and by the key it names, or nothing.      *)
THEOREM ImplementsIssuance == Spec => SealIssuesOrDoesNothing
<1>1. Init => Abstract!Init
  BY DEF Init, Abstract!Init
<1>2. SealInv /\ [Next]_vars => [Abstract!Next]_result
  BY StepIssues
<1>3. QED
  BY <1>1, <1>2, SealInvariant, PTL DEF Spec, SealIssuesOrDoesNothing, Abstract!Spec

============================================================================
