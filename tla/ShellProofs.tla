---------------------------- MODULE ShellProofs -----------------------------
(***************************************************************************)
(* For any number of requests, restarts, rotations and rosters.  First the *)
(* Vault signer alone: the pinned version is the one every signature was   *)
(* made with, and VaultSigner implements SignerPort under the mapping of   *)
(* key to the pinned version.  Then the shell: it runs its signer as       *)
(* VaultSigner describes it, so what is proved of that module holds in the *)
(* shell; and ShellInv, with it, carries the status codes, the grace of a  *)
(* shutdown and the exit code.  Last the logger both write to: its links,  *)
(* and what a record replayed through any number of them carries.          *)
(***************************************************************************)
EXTENDS Shell, LogHandler, SequenceTheorems, WellFoundedInduction, TLAPS

----------------------------------------------------------------------------
(* The signer                                                              *)

(* The initial states satisfy the invariant. *)
LEMMA InitInv == Init => VaultInv
  BY BoundsAssumption, NilAssumption
     DEF Init, VaultInv, TypeOK, Versions, NoReply, SigningCalls

(* The invariant is inductive. *)
LEMMA StepInv == VaultInv /\ [Next]_vars => VaultInv'
<1> SUFFICES ASSUME VaultInv, [Next]_vars PROVE VaultInv'
  OBVIOUS
<1> USE BoundsAssumption, NilAssumption DEF VaultInv, TypeOK, Versions, SigningCalls
<1>1. CASE Rotate
  BY <1>1 DEF Rotate, signer, calls
<1>2. CASE Trim
  BY <1>2 DEF Trim, signer, calls
<1>3. CASE DescribeKey
  BY <1>3 DEF DescribeKey, vault, signer, calls
<1>4. CASE StartProcess
  BY <1>4 DEF StartProcess, vault, calls
<1>5. CASE New
  BY <1>5 DEF New, vault, calls
<1>6. CASE Crash
  <2>1. TypeOK'
    BY <1>6 DEF Crash, vault, NoReply
  <2>2. ASSUME NEW c \in Calls
        PROVE  /\ pc'[c] \in {"idle", "signed", "failed"}
               /\ pc'[c] = "idle" => kid'[c] = Nil
               /\ (pc'[c] = "signed") <=> (signature'[c] # Nil)
               /\ reply'[c].label = reply'[c].key
               /\ pc'[c] = "signed" => pc[c] = "signed" /\ kid'[c] = kid[c]
    BY <1>6 DEF Crash, NoReply
  <2>3. QED
    BY <1>6, <2>1, <2>2 DEF Crash, vault
<1>7. ASSUME NEW c \in Calls, Kid(c) PROVE VaultInv'
  BY <1>7 DEF Kid, vault, signer
<1>8. ASSUME NEW c \in Calls, VaultSigns(c) PROVE VaultInv'
  <2>1. PICK v \in {version, latest} :
            /\ v \in oldest..latest
            /\ reply' = [reply EXCEPT ![c] = [label |-> v, key |-> v]]
    BY <1>8 DEF VaultSigns
  <2>2. v \in Versions
    BY <2>1
  <2>3. QED
    BY <1>8, <2>1, <2>2 DEF VaultSigns, vault, signer
<1>9. ASSUME NEW c \in Calls, Sign(c) PROVE VaultInv'
  <2>1. /\ process = "up" /\ kid[c] = version /\ reply[c].key = version
        /\ version \in Versions
    BY <1>9 DEF Sign
  <2>2. /\ signature'[c] = [kid |-> version, key |-> version]
        /\ signature'[c] # Nil
    BY <1>9, <2>1 DEF Sign
  <2>3. TypeOK'
    BY <1>9, <2>1 DEF Sign, vault, signer, NoReply
  <2>4. QED
    BY <1>9, <2>1, <2>2, <2>3 DEF Sign, vault, signer, NoReply
<1>10. ASSUME NEW c \in Calls, SignFails(c) PROVE VaultInv'
  BY <1>10 DEF SignFails, vault, signer, NoReply
<1>11. CASE UNCHANGED vars
  BY <1>11 DEF vars, vault, signer, calls
<1>12. QED
  BY <1>1, <1>2, <1>3, <1>4, <1>5, <1>6, <1>7, <1>8, <1>9, <1>10, <1>11 DEF Next

(* The pinned state and every signature agree, in every reachable state. *)
THEOREM PinnedVersion == Spec => []VaultInv
  BY InitInv, StepInv, PTL DEF Spec

(* Versions only grow: what is pinned, or about to be, is at least as new  *)
(* as everything signed before.                                            *)
AgeInv ==
    /\ process = "up" => metadata = Nil
    /\ version # Nil => version <= latest
    /\ metadata # Nil => metadata <= latest
    /\ \A c \in Calls :
           signature[c] # Nil =>
               /\ signature[c].kid <= latest
               /\ metadata # Nil => signature[c].kid <= metadata
               /\ version # Nil => signature[c].kid <= version

(* Rotations, trims, starts and signatures keep the order of versions. *)
LEMMA AgeStep == VaultInv /\ AgeInv /\ [Next]_vars => AgeInv'
<1> SUFFICES ASSUME VaultInv, AgeInv, [Next]_vars PROVE AgeInv'
  OBVIOUS
<1> USE BoundsAssumption, NilAssumption
    DEF VaultInv, AgeInv, TypeOK, Versions, SigningCalls
<1>1. CASE Rotate
  BY <1>1 DEF Rotate, signer, calls
<1>2. CASE Trim
  BY <1>2 DEF Trim, signer, calls
<1>3. CASE DescribeKey
  BY <1>3 DEF DescribeKey, vault, signer, calls
<1>4. CASE StartProcess
  BY <1>4 DEF StartProcess, vault, calls
<1>5. CASE New
  BY <1>5 DEF New, vault, calls
<1>6. CASE Crash
  BY <1>6 DEF Crash, vault
<1>7. ASSUME NEW c \in Calls, Kid(c) \/ VaultSigns(c) \/ SignFails(c) PROVE AgeInv'
  BY <1>7 DEF Kid, VaultSigns, SignFails, vault, signer
<1>8. ASSUME NEW c \in Calls, Sign(c) PROVE AgeInv'
  <2>1. process = "up" /\ kid[c] = version /\ version \in Versions /\ metadata = metadata'
    BY <1>8 DEF Sign
  <2>2. signature' = [signature EXCEPT ![c] = [kid |-> version, key |-> reply[c].key]]
    BY <1>8, <2>1 DEF Sign
  <2>3. metadata = Nil
    BY <2>1
  <2>4. QED
    BY <1>8, <2>1, <2>2, <2>3 DEF Sign, vault, signer
<1>9. CASE UNCHANGED vars
  BY <1>9 DEF vars, vault, signer, calls
<1>10. QED
  BY <1>1, <1>2, <1>3, <1>4, <1>5, <1>6, <1>7, <1>8, <1>9 DEF Next

(* A shell knows the key of every package its issuer signed, except those  *)
(* an earlier process signed under an older version. *)
THEOREM OnlyOlderRefused == Spec => []RefusesOnlyOlderPackages
<1>1. Init => AgeInv
  BY BoundsAssumption, NilAssumption DEF Init, AgeInv, Versions
<1>2. VaultInv /\ AgeInv => RefusesOnlyOlderPackages
  <2> SUFFICES ASSUME VaultInv, AgeInv, NEW c \in Calls, process = "up",
                      signature[c] # Nil,
                      IssuerKey(signature[c].kid) # signature[c].key
               PROVE  signedIn[c] < starts /\ signature[c].kid < version
    BY DEF RefusesOnlyOlderPackages
  <2>1. /\ version \in Nat /\ signature[c].kid \in Nat
        /\ signedIn[c] \in Nat /\ starts \in Nat
    BY BoundsAssumption, NilAssumption DEF VaultInv, TypeOK, Versions
  <2>2. signature[c].kid # version
    BY DEF VaultInv, IssuerKey
  <2>3. QED
    BY <2>1, <2>2, NilAssumption DEF VaultInv, AgeInv
<1>3. QED
  BY <1>1, <1>2, AgeStep, PinnedVersion, PTL DEF Spec

(* Every step of the Vault signer is a step of the port, or changes        *)
(* nothing the port shows. *)
LEMMA StepRefines == VaultInv /\ [Next]_vars => [Port!Next]_(Port!vars)
<1> SUFFICES ASSUME VaultInv, [Next]_vars PROVE [Port!Next]_(Port!vars)
  OBVIOUS
<1> USE BoundsAssumption, NilAssumption DEF VaultInv, TypeOK, Versions, SigningCalls
<1>1. CASE Rotate \/ Trim \/ DescribeKey \/ StartProcess
  BY <1>1 DEF Rotate, Trim, DescribeKey, StartProcess, signer, calls, Port!vars
<1>2. CASE New
  BY <1>2 DEF New, calls, Port!Next, Port!Start
<1>3. CASE Crash
  <2>1. kid' = [c \in Calls |-> IF signature[c] = Nil THEN Nil ELSE kid[c]]
    BY <1>3 DEF Crash
  <2>2. QED
    BY <1>3, <2>1 DEF Crash, Port!Next, Port!Stop
<1>4. ASSUME NEW c \in Calls, Kid(c) PROVE Port!Next
  BY <1>4 DEF Kid, signer, Port!Next, Port!Kid
<1>5. ASSUME NEW c \in Calls, VaultSigns(c) \/ SignFails(c)
      PROVE  UNCHANGED Port!vars
  BY <1>5 DEF VaultSigns, SignFails, signer, Port!vars
<1>6. ASSUME NEW c \in Calls, Sign(c) PROVE Port!Next
  BY <1>6 DEF Sign, signer, Port!Next, Port!Sign
<1>7. CASE UNCHANGED vars
  BY <1>7 DEF vars, signer, calls, Port!vars
<1>8. QED
  BY <1>1, <1>2, <1>3, <1>4, <1>5, <1>6, <1>7 DEF Next

(* The Vault signer implements the port Seal relies on. *)
THEOREM ImplementsSignerPort == Spec => KeepsSignerPort
<1>1. Init => Port!Init
  BY DEF Init, Port!Init
<1>2. QED
  BY <1>1, PinnedVersion, StepRefines, PTL DEF Spec, KeepsSignerPort, Port!Spec

----------------------------------------------------------------------------
(* The shell                                                               *)

(* Whatever the shell does is a step of its signer or none of its business. *)
LEMMA SignerStep == [ShellNext]_shellVars => [Next]_vars
<1> SUFFICES ASSUME [ShellNext]_shellVars PROVE [Next]_vars
  OBVIOUS
<1>1. ASSUME NEW c \in Calls, HandlerStep(c) PROVE [Next]_vars
  BY <1>1 DEF HandlerStep, Authorize, Check, ConstraintsHash, SealSegments, AskKid,
     VaultAnswers, ReturnPackage, SigningFails, Level2, Probe, Next
<1>2. ASSUME NEW c \in Calls, BodyArrives(c) \/ \E r \in Routes : Arrive(c, r)
      PROVE  UNCHANGED vars
  BY <1>2 DEF BodyArrives, Arrive
<1>3. ASSUME NEW how, End(how) PROVE Next
  BY <1>3 DEF End, Next
<1>4. CASE Start \/ PinKey \/ (Rotate \/ Trim)
  BY <1>4 DEF Start, PinKey, Next
<1>5. CASE WiringFails \/ Kill \/ ReturnServeErr \/ ShutdownReturns \/ GraceExpires
  BY <1>5, <1>3 DEF WiringFails, Kill, ReturnServeErr, ShutdownReturns, GraceExpires
<1>6. CASE \/ \E names \in Rosters : Wire(names)
           \/ Listen \/ ListenerFails \/ Signal \/ Shutdown \/ Tick
  BY <1>6 DEF Wire, Listen, ListenerFails, Signal, Shutdown, Tick
<1>7. CASE UNCHANGED shellVars
  BY <1>7 DEF shellVars
<1>8. QED
  BY <1>1, <1>2, <1>4, <1>5, <1>6, <1>7 DEF ShellNext

(* The shell implements the specification of its signer. *)
THEOREM ShellRunsSigner == ShellSpec => Spec
<1>1. ShellInit => Init
  BY DEF ShellInit
<1>2. QED
  BY <1>1, SignerStep, PTL DEF ShellSpec, Spec

(* So the pinned version, its key and every signature agree in the shell. *)
THEOREM ShellPinnedVersion == ShellSpec => []VaultInv
  BY ShellRunsSigner, PinnedVersion, PTL

(* The steps of each route, and what each presupposes, one by one. *)
LEMMA StepFacts ==
    /\ Granting("authorize") = {} /\ Granting("body") = {}
    /\ Granting("vault") = {} /\ Granting("level2") = {}
    /\ Granting("check") = {"role"} /\ Granting("hash") = {"role", "allowed"}
    /\ Granting("segments") = SealAnswers /\ Granting("kid") = SealAnswers
    /\ Granting("sign") = SealAnswers /\ Granting("authority") = {"vault"}
    /\ StepsOf("seal") = Local \cup {"authorize", "body", "check", "hash", "sign"}
    /\ StepsOf("verify") = {"body", "level2"}
    /\ StepsOf("ready") = {"vault", "authority"}
  BY DEF Granting, StepsOf, Local

(* A request on a step has the route the step belongs to. *)
LEMMA RouteOf ==
    ASSUME NEW c \in Calls, RequestInv(c), at[c] \in Active
    PROVE  /\ at[c] \in Local \cup {"authorize", "check", "hash", "sign"} =>
                  route[c] = "seal"
           /\ at[c] = "level2" => route[c] = "verify"
           /\ at[c] \in {"vault", "authority"} => route[c] = "ready"
           /\ at[c] = "body" => route[c] \in {"seal", "verify"}
<1>1. at[c] \in StepsOf(route[c])
  BY DEF RequestInv
<1>2. CASE route[c] \in Routes
  BY <1>1, <1>2, StepFacts DEF Routes, Local
<1>3. CASE route[c] \notin Routes
  BY <1>1, <1>3 DEF StepsOf, Routes
<1>4. QED
  BY <1>2, <1>3

(* A request that does not move, in a process that does not change. *)
LEMMA RequestFrame ==
    ASSUME NEW c \in Calls, RequestInv(c), GraceInv(c),
           UNCHANGED <<server, roster, starts, grace>>,
           at'[c] = at[c], route'[c] = route[c], status'[c] = status[c],
           answers'[c] = answers[c], left'[c] = left[c],
           c \in late' <=> c \in late,
           pc'[c] \in SigningCalls <=> pc[c] \in SigningCalls,
           signature'[c] = signature[c], signedIn'[c] = signedIn[c]
    PROVE  RequestInv(c)' /\ GraceInv(c)'
<1>1. SigningCalls' = SigningCalls
  BY DEF SigningCalls
<1>2. RequestInv(c)'
  BY <1>1 DEF RequestInv, AudiencesPass, RootFits, Granting, StepsOf
<1>3. GraceInv(c)'
  BY DEF GraceInv
<1>4. QED
  BY <1>2, <1>3

(* What a step of request c's handler leaves alone: the process, and every *)
(* other request. *)
Moves(c) ==
    /\ UNCHANGED <<main, process, starts>>
    /\ late' \in {late, late \cup {c}}
    /\ \A d \in Calls \ {c} :
           /\ at'[d] = at[d] /\ route'[d] = route[d] /\ status'[d] = status[d]
           /\ answers'[d] = answers[d] /\ left'[d] = left[d]
           /\ pc'[d] = pc[d]
           /\ signature'[d] = signature[d] /\ signedIn'[d] = signedIn[d]

LEMMA HandlerFrame ==
    ASSUME ShellInv, NEW c \in Calls, Moves(c), ShellTypeOK',
           RequestInv(c)', GraceInv(c)'
    PROVE  ShellInv'
<1>1. ASSUME NEW d \in Calls, d # c PROVE RequestInv(d)' /\ GraceInv(d)'
  BY <1>1, RequestFrame DEF ShellInv, Moves, main
<1>2. MainInv'
  BY DEF ShellInv, MainInv, Moves, main
<1>3. QED
  BY <1>1, <1>2 DEF ShellInv

Statuses == {0, 200, 400, 401, 403, 415, 422, 502, 503}
Grants   == SealAnswers \cup {"denied", "vault", "authority"}

(* The types of what a handler's step changes are all there is to show. *)
LEMMA TypeFrame ==
    ASSUME ShellTypeOK, UNCHANGED main, route' \in [Calls -> Routes \cup {Nil}],
           at' \in [Calls -> Active \cup {"idle", "done", "cut"}],
           status' \in [Calls -> Statuses], answers' \in [Calls -> SUBSET Grants],
           left' \in [Calls -> 0..callTimeout], late' \subseteq Calls
    PROVE  ShellTypeOK'
<1>1. /\ Active' = Active /\ Routes' = Routes /\ SealAnswers' = SealAnswers
      /\ callTimeout' = callTimeout /\ shutdownGrace' = shutdownGrace
  BY DEF Active, Remote, Local, Routes, SealAnswers, callTimeout, shutdownGrace
<1>2. QED
  BY <1>1 DEF ShellTypeOK, main, Statuses, Grants

(* An answer ends the request; whoever was asked, and what was signed, is  *)
(* left to the step that answers. *)
LEMMA ReplyInv ==
    ASSUME ShellInv, NEW c \in Calls, at[c] \in Active,
           NEW code \in {200, 400, 401, 403, 415, 422, 502, 503}, Reply(c, code),
           Moves(c), pc'[c] \notin SigningCalls,
           answers' \in [Calls -> SUBSET Grants]
    PROVE  ShellInv'
<1>1. ShellTypeOK'
  <2>1. at' \in [Calls -> Active \cup {"idle", "done", "cut"}]
    BY DEF ShellInv, ShellTypeOK, Reply
  <2>2. status' \in [Calls -> Statuses]
    BY DEF ShellInv, ShellTypeOK, Reply, Statuses
  <2>3. left' \in [Calls -> 0..callTimeout] /\ late' \subseteq Calls
    BY DEF ShellInv, ShellTypeOK, Reply, callTimeout
  <2>4. QED
    BY <2>1, <2>2, <2>3, TypeFrame DEF ShellInv, ShellTypeOK, Reply
<1>2. at'[c] = "done"
  BY DEF ShellInv, ShellTypeOK, Reply
<1>3. RequestInv(c)'
  <2>1. server \in {"serving", "draining"} /\ server' = server
    BY DEF ShellInv, RequestInv, Moves, main
  <2>2. QED
    BY <1>2, <2>1 DEF RequestInv, Active, Remote, Local, SigningCalls
<1>4. GraceInv(c)'
  BY <1>2 DEF GraceInv, Remote, Local
<1>5. QED
  BY <1>1, <1>3, <1>4, HandlerFrame

(* A turn to another step of the request's route. *)
LEMMA TurnInv ==
    ASSUME ShellInv, NEW c \in Calls, at[c] \in Active,
           NEW step \in Active, Turn(c, step), Moves(c),
           step \in StepsOf(route[c]), Granting(step) \subseteq answers'[c],
           "denied" \notin answers'[c], step # "authorize",
           step = "body" /\ route[c] = "seal" => answers'[c] = {"role"},
           step \in Local \cup {"check", "hash", "sign"} => AudiencesPass(roster),
           step \in {"kid", "sign"} => RootFits(roster),
           step = "sign" <=> pc'[c] \in SigningCalls,
           signature'[c] = Nil, step \in Local => at[c] \in Remote \cup Local,
           answers' \in [Calls -> SUBSET Grants]
    PROVE  ShellInv'
<1>1. ShellTypeOK'
  <2>1. at' \in [Calls -> Active \cup {"idle", "done", "cut"}]
    BY DEF ShellInv, ShellTypeOK, Turn
  <2>2. left' \in [Calls -> 0..callTimeout] /\ late' \subseteq Calls
    BY DEF ShellInv, ShellTypeOK, Turn, callTimeout
  <2>3. status' \in [Calls -> Statuses]
    BY DEF ShellInv, ShellTypeOK, Turn, Statuses
  <2>4. QED
    BY <2>1, <2>2, <2>3, TypeFrame DEF ShellInv, ShellTypeOK, Turn
<1>2. at'[c] = step /\ route'[c] = route[c] /\ status'[c] = 0
  BY DEF ShellInv, ShellTypeOK, Turn, RequestInv, Active, Remote, Local
<1>3. server' = server /\ roster' = roster /\ server \in {"serving", "draining"}
  BY DEF ShellInv, RequestInv, Turn, main
<1>4. RequestInv(c)'
  <2>1. StepsOf(route'[c]) = StepsOf(route[c]) /\ Granting(at'[c]) = Granting(step)
    BY <1>2
  <2>2. AudiencesPass(roster)' = AudiencesPass(roster) /\ RootFits(roster)' = RootFits(roster)
    BY <1>3 DEF AudiencesPass, RootFits
  <2>3. step # "done" /\ step # "idle"
    BY DEF Active, Remote, Local
  <2>4. QED
    BY <1>2, <1>3, <2>1, <2>2, <2>3 DEF RequestInv, SigningCalls
<1>5. GraceInv(c)'
  <2>1. CASE step \in Remote
    BY <1>2, <1>3, <2>1 DEF GraceInv, Turn, Remote, Local
  <2>2. CASE step \in Local
    BY <1>2, <1>3, <2>2 DEF ShellInv, ShellTypeOK, GraceInv, Turn, main, Remote, Local,
       callTimeout, shutdownGrace
  <2>3. CASE step = "body"
    BY <1>2, <2>3 DEF GraceInv, Remote, Local
  <2>4. QED
    BY <2>1, <2>2, <2>3 DEF Active
<1>6. QED
  BY <1>1, <1>4, <1>5, HandlerFrame

(* A grant is recorded for the request that asked, and nobody else. *)
LEMMA GrantFacts ==
    ASSUME ShellTypeOK, NEW c \in Calls, NEW what \in Grants, Granted(c, what)
    PROVE  /\ answers' \in [Calls -> SUBSET Grants]
           /\ answers'[c] = answers[c] \cup {what}
           /\ \A d \in Calls \ {c} : answers'[d] = answers[d]
  BY DEF ShellTypeOK, Granted, Grants

(* A reply or a turn moves one request only. *)
LEMMA MovesFacts ==
    ASSUME ShellTypeOK, NEW c \in Calls, UNCHANGED <<process, starts>>,
           \/ \E code : Reply(c, code)
           \/ \E step : Turn(c, step),
           \A d \in Calls \ {c} :
               /\ answers'[d] = answers[d] /\ pc'[d] = pc[d]
               /\ signature'[d] = signature[d] /\ signedIn'[d] = signedIn[d]
    PROVE  Moves(c)
  BY DEF ShellTypeOK, Moves, Reply, Turn

(* The check of the bearer's role. *)
LEMMA AuthorizeInv ==
    ASSUME ShellInv, NEW c \in Calls, Authorize(c)
    PROVE  ShellInv'
<1>1. /\ at[c] \in Active /\ route[c] = "seal" /\ answers[c] = {}
      /\ signature[c] = Nil /\ pc[c] \notin SigningCalls
  BY RouteOf DEF ShellInv, RequestInv, Authorize, Active, Remote, Local
<1>2. ASSUME NEW code \in {401, 403}, Reply(c, code), UNCHANGED answers
      PROVE  ShellInv'
  <2>1. Moves(c)
    BY <1>2, MovesFacts DEF Authorize, vars, signer, calls, ShellInv
  <2>2. QED
    BY <1>1, <1>2, <2>1, ReplyInv DEF Authorize, vars, calls, ShellInv, ShellTypeOK, Grants
<1>3. ASSUME Turn(c, "body"), Granted(c, "role") PROVE ShellInv'
  <2>1. "role" \in Grants
    BY DEF Grants, SealAnswers
  <2>2. Moves(c)
    BY <1>3, <2>1, MovesFacts, GrantFacts DEF Authorize, vars, signer, calls, ShellInv
  <2>3. "body" \in Active /\ "body" \notin Local \cup {"check", "hash", "sign", "kid"}
    BY DEF Active, Remote, Local
  <2>4. answers'[c] = {"role"} /\ answers' \in [Calls -> SUBSET Grants]
    BY <1>1, <1>3, <2>1, GrantFacts DEF ShellInv
  <2>5. QED
    BY <1>1, <1>3, <2>2, <2>3, <2>4, StepFacts, TurnInv DEF Authorize, vars, calls
<1>4. QED
  BY <1>2, <1>3 DEF Authorize

(* What is judged of a body before anybody is asked. *)
LEMMA BodyArrivesInv ==
    ASSUME ShellInv, NEW c \in Calls, BodyArrives(c)
    PROVE  ShellInv'
<1>1. /\ at[c] \in Active /\ "denied" \notin answers[c]
      /\ route[c] = "seal" => answers[c] = {"role"}
      /\ signature[c] = Nil /\ pc[c] \notin SigningCalls
  BY DEF ShellInv, RequestInv, BodyArrives, Active
<1>2. answers' = answers /\ answers \in [Calls -> SUBSET Grants]
  BY DEF BodyArrives, ShellInv, ShellTypeOK, Grants
<1>3. ASSUME NEW code \in {200, 400, 415, 422, 502}, Reply(c, code)
      PROVE  ShellInv'
  <2>1. Moves(c)
    BY <1>2, <1>3, MovesFacts DEF BodyArrives, vars, signer, calls, ShellInv
  <2>2. QED
    BY <1>1, <1>2, <1>3, <2>1, ReplyInv DEF BodyArrives, vars, calls
<1>4. ASSUME Turn(c, "check"), route[c] = "seal", AudiencesPass(roster)
      PROVE  ShellInv'
  <2>1. Moves(c)
    BY <1>2, <1>4, MovesFacts DEF BodyArrives, vars, signer, calls, ShellInv
  <2>2. "check" \in Active /\ "check" \notin Local
    BY DEF Active, Remote, Local
  <2>3. QED
    BY <1>1, <1>2, <1>4, <2>1, <2>2, StepFacts, TurnInv DEF BodyArrives, vars, calls
<1>5. ASSUME Turn(c, "level2"), route[c] = "verify" PROVE ShellInv'
  <2>1. Moves(c)
    BY <1>2, <1>5, MovesFacts DEF BodyArrives, vars, signer, calls, ShellInv
  <2>2. "level2" \in Active /\ "level2" \notin Local \cup {"check", "hash", "sign", "kid"}
    BY DEF Active, Remote, Local
  <2>3. QED
    BY <1>1, <1>2, <1>5, <2>1, <2>2, StepFacts, TurnInv DEF BodyArrives, vars, calls
<1>6. QED
  BY <1>3, <1>4, <1>5 DEF BodyArrives

(* The two questions to the authority. *)
LEMMA QuestionsInv ==
    ASSUME ShellInv, NEW c \in Calls, Check(c) \/ ConstraintsHash(c)
    PROVE  ShellInv'
<1>1. /\ at[c] \in {"check", "hash"} /\ at[c] \in Active /\ route[c] = "seal"
      /\ signature[c] = Nil /\ pc[c] \notin SigningCalls
      /\ AudiencesPass(roster) /\ "denied" \notin answers[c]
      /\ Granting(at[c]) \subseteq answers[c]
  BY RouteOf DEF ShellInv, RequestInv, Check, ConstraintsHash, Active, Remote, Local
<1>2. UNCHANGED <<process, starts, pc, signature, signedIn>>
  BY DEF Check, ConstraintsHash, vars, signer, calls
<1>3. /\ "denied" \in Grants /\ "allowed" \in Grants /\ "hash" \in Grants
      /\ ShellTypeOK /\ answers \in [Calls -> SUBSET Grants]
  BY DEF Grants, SealAnswers, ShellInv, ShellTypeOK
<1>4. ASSUME Reply(c, 502), UNCHANGED answers PROVE ShellInv'
  <2>1. Moves(c)
    BY <1>2, <1>3, <1>4, MovesFacts
  <2>2. QED
    BY <1>1, <1>2, <1>3, <1>4, <2>1, ReplyInv
<1>5. ASSUME Reply(c, 422), Granted(c, "denied") PROVE ShellInv'
  <2>1. Moves(c)
    BY <1>2, <1>3, <1>5, MovesFacts, GrantFacts
  <2>2. QED
    BY <1>1, <1>2, <1>3, <1>5, <2>1, ReplyInv, GrantFacts
<1>6. ASSUME at[c] = "check", Turn(c, "hash"), Granted(c, "allowed") PROVE ShellInv'
  <2>1. Moves(c)
    BY <1>2, <1>3, <1>6, MovesFacts, GrantFacts
  <2>2. "hash" \in Active /\ "hash" \notin Local
    BY DEF Active, Remote, Local
  <2>3. answers'[c] = answers[c] \cup {"allowed"} /\ answers' \in [Calls -> SUBSET Grants]
    BY <1>3, <1>6, GrantFacts
  <2>4. QED
    BY <1>1, <1>2, <1>6, <2>1, <2>2, <2>3, StepFacts, TurnInv
<1>7. ASSUME at[c] = "hash", Turn(c, "segments"), Granted(c, "hash") PROVE ShellInv'
  <2>1. Moves(c)
    BY <1>2, <1>3, <1>7, MovesFacts, GrantFacts
  <2>2. "segments" \in Active /\ "segments" \in Local /\ at[c] \in Remote
    BY <1>7 DEF Active, Remote, Local
  <2>3. answers'[c] = answers[c] \cup {"hash"} /\ answers' \in [Calls -> SUBSET Grants]
    BY <1>3, <1>7, GrantFacts
  <2>4. SealAnswers \subseteq answers'[c]
    BY <1>1, <1>7, <2>3, StepFacts DEF SealAnswers
  <2>5. QED
    BY <1>1, <1>2, <1>7, <2>1, <2>2, <2>3, <2>4, StepFacts, TurnInv
<1>8. QED
  BY <1>4, <1>5, <1>6, <1>7 DEF Check, ConstraintsHash

(* Sealing, and the signer's two questions. *)
LEMMA SigningInv ==
    ASSUME ShellInv, VaultInv, NEW c \in Calls,
           \/ SealSegments(c) \/ AskKid(c) \/ VaultAnswers(c)
           \/ ReturnPackage(c) \/ SigningFails(c)
    PROVE  ShellInv'
<1>1. ShellTypeOK /\ RequestInv(c) /\ TypeOK /\ answers \in [Calls -> SUBSET Grants]
  BY DEF ShellInv, VaultInv, ShellTypeOK, Grants
<1>2. CASE SealSegments(c)
  <2>1. /\ at[c] \in Active /\ at[c] \in Local /\ route[c] = "seal"
        /\ signature[c] = Nil /\ pc[c] \notin SigningCalls
        /\ AudiencesPass(roster) /\ "denied" \notin answers[c]
        /\ SealAnswers \subseteq answers[c]
    BY <1>1, <1>2, RouteOf, StepFacts DEF RequestInv, SealSegments, Active, Remote, Local
  <2>2. Moves(c)
    BY <1>1, <1>2, MovesFacts DEF SealSegments, vars, signer, calls
  <2>3. CASE Reply(c, 502)
    BY <1>1, <1>2, <2>1, <2>2, <2>3, ReplyInv DEF SealSegments, vars, calls
  <2>4. CASE RootFits(roster) /\ Turn(c, "kid")
    <3>1. "kid" \in Active /\ "kid" \in Local
      BY DEF Active, Local
    <3>2. QED
      BY <1>1, <1>2, <2>1, <2>2, <2>4, <3>1, StepFacts, TurnInv
         DEF SealSegments, vars, calls
  <2>5. QED
    BY <1>2, <2>3, <2>4 DEF SealSegments
<1>3. CASE AskKid(c)
  <2>1. /\ at[c] = "kid" /\ at[c] \in Active /\ route[c] = "seal" /\ signature[c] = Nil
        /\ AudiencesPass(roster) /\ RootFits(roster) /\ "denied" \notin answers[c]
        /\ SealAnswers \subseteq answers[c]
    BY <1>1, <1>3, RouteOf, StepFacts DEF RequestInv, AskKid, Active, Remote, Local
  <2>2. pc'[c] \in SigningCalls /\ Moves(c)
    BY <1>1, <1>3, MovesFacts DEF AskKid, Kid, TypeOK, SigningCalls, signer
  <2>3. "sign" \in Active /\ "sign" \notin Local
    BY DEF Active, Remote, Local
  <2>4. QED
    BY <1>1, <1>3, <2>1, <2>2, <2>3, StepFacts, TurnInv DEF AskKid, Kid
<1>4. CASE VaultAnswers(c)
  <2>1. pc[c] \in SigningCalls /\ pc'[c] \in SigningCalls
        /\ \A d \in Calls \ {c} : pc'[d] = pc[d]
    BY <1>1, <1>4 DEF VaultAnswers, VaultSigns, TypeOK, SigningCalls
  <2>2. ASSUME NEW d \in Calls PROVE RequestInv(d)' /\ GraceInv(d)'
    BY <1>4, <2>1, RequestFrame
       DEF ShellInv, VaultAnswers, VaultSigns, main, requests, signer
  <2>3. MainInv'
    BY <1>4 DEF ShellInv, MainInv, VaultAnswers, VaultSigns, main, signer
  <2>4. ShellTypeOK'
    BY <1>1, <1>4, TypeFrame DEF ShellTypeOK, VaultAnswers, requests, Statuses
  <2>5. QED
    BY <2>2, <2>3, <2>4 DEF ShellInv
<1>5. CASE ReturnPackage(c) \/ SigningFails(c)
  <2>1. /\ at[c] = "sign" /\ at[c] \in Active
        /\ pc'[c] \notin SigningCalls /\ Moves(c)
    BY <1>1, <1>5, MovesFacts DEF RequestInv, ReturnPackage, SigningFails, Sign, SignFails,
       TypeOK, SigningCalls, signer, Active, Remote
  <2>2. QED
    BY <1>1, <1>5, <2>1, ReplyInv DEF ReturnPackage, SigningFails
<1>6. QED
  BY <1>2, <1>3, <1>4, <1>5

(* The routes that sign nothing. *)
LEMMA ReadingInv ==
    ASSUME ShellInv, NEW c \in Calls, Level2(c) \/ Probe(c)
    PROVE  ShellInv'
<1>1. /\ at[c] \in Active /\ "denied" \notin answers[c]
      /\ at[c] \in {"vault", "authority"} => route[c] = "ready"
      /\ signature[c] = Nil /\ pc[c] \notin SigningCalls
  BY RouteOf DEF ShellInv, RequestInv, Level2, Probe, Active, Remote
<1>2. UNCHANGED <<process, starts, pc, signature, signedIn>>
  BY DEF Level2, Probe, vars, signer, calls
<1>3. /\ "vault" \in Grants /\ "authority" \in Grants
      /\ ShellTypeOK /\ answers \in [Calls -> SUBSET Grants]
  BY DEF Grants, ShellInv, ShellTypeOK
<1>4. ASSUME NEW code \in {200, 503}, Reply(c, code),
             UNCHANGED answers \/ Granted(c, "authority")
      PROVE  ShellInv'
  <2>1. Moves(c) /\ answers' \in [Calls -> SUBSET Grants]
    BY <1>2, <1>3, <1>4, MovesFacts, GrantFacts
  <2>2. QED
    BY <1>1, <1>2, <1>4, <2>1, ReplyInv
<1>5. ASSUME at[c] = "vault", Turn(c, "authority"), Granted(c, "vault") PROVE ShellInv'
  <2>1. Moves(c)
    BY <1>2, <1>3, <1>5, MovesFacts, GrantFacts
  <2>2. /\ "authority" \in Active
        /\ "authority" \notin Local \cup {"check", "hash", "sign", "kid", "body"}
    BY DEF Active, Remote, Local
  <2>3. answers'[c] = answers[c] \cup {"vault"} /\ answers' \in [Calls -> SUBSET Grants]
    BY <1>3, <1>5, GrantFacts
  <2>4. QED
    BY <1>1, <1>2, <1>5, <2>1, <2>2, <2>3, StepFacts, TurnInv
<1>6. QED
  BY <1>4, <1>5 DEF Level2, Probe

(* A request comes in. *)
LEMMA ArriveInv ==
    ASSUME ShellInv, NEW c \in Calls, NEW r \in Routes, Arrive(c, r)
    PROVE  ShellInv'
<1>1. /\ at[c] = "idle" /\ answers[c] = {} /\ signature[c] = Nil /\ status[c] = 0
      /\ pc[c] \notin SigningCalls /\ server = "serving" /\ ShellTypeOK
  BY DEF ShellInv, RequestInv, Arrive
<1>2. PICK step \in {"authorize", "body", "vault"} :
         /\ at' = [at EXCEPT ![c] = step] /\ step \in StepsOf(r)
         /\ Granting(step) = {} /\ (step = "body" => r = "verify")
         /\ step \in Active /\ step # "done"
         /\ step \notin Local \cup {"check", "hash", "sign", "kid"}
  BY StepFacts DEF Arrive, Routes, Active, Remote, Local
<1>3. ShellTypeOK'
  <2>1. at' \in [Calls -> Active \cup {"idle", "done", "cut"}]
    BY <1>1, <1>2 DEF ShellTypeOK
  <2>2. left' \in [Calls -> 0..callTimeout] /\ route' \in [Calls -> Routes \cup {Nil}]
    BY <1>1 DEF ShellTypeOK, Arrive, callTimeout
  <2>3. QED
    BY <1>1, <2>1, <2>2, TypeFrame DEF ShellTypeOK, Arrive, Statuses, Grants
<1>4. /\ at'[c] = step /\ route'[c] = r
      /\ \A d \in Calls \ {c} : at'[d] = at[d] /\ route'[d] = route[d] /\ left'[d] = left[d]
  <2>1. at'[c] = step /\ \A d \in Calls \ {c} : at'[d] = at[d]
    BY <1>1, <1>2 DEF ShellTypeOK
  <2>2. route'[c] = r /\ \A d \in Calls \ {c} : route'[d] = route[d]
    BY <1>1 DEF ShellTypeOK, Arrive
  <2>3. \A d \in Calls \ {c} : left'[d] = left[d]
    BY <1>1 DEF ShellTypeOK, Arrive
  <2>4. QED
    BY <2>1, <2>2, <2>3
<1>5. UNCHANGED <<main, process, starts, status, answers, late, pc, signature, signedIn>>
  BY DEF Arrive, vars, signer, calls
<1>6. RequestInv(c)'
  <2>1. StepsOf(route'[c]) = StepsOf(r) /\ Granting(at'[c]) = Granting(step)
    BY <1>4
  <2>2. QED
    BY <1>1, <1>2, <1>4, <1>5, <2>1 DEF RequestInv, main, SigningCalls
<1>7. GraceInv(c)'
  BY <1>1, <1>5 DEF GraceInv, main
<1>8. Moves(c)
  BY <1>4, <1>5 DEF Moves
<1>9. QED
  BY <1>3, <1>6, <1>7, <1>8, HandlerFrame

(* The process ends: its requests are cut, its signing calls have failed. *)
LEMMA EndInv ==
    ASSUME ShellInv, VaultInv, NEW how, End(how)
    PROVE  ShellInv'
<1>1. ShellTypeOK /\ TypeOK
  BY DEF ShellInv, VaultInv
<1>2. ShellTypeOK'
  <2>1. at' \in [Calls -> Active \cup {"idle", "done", "cut"}]
    BY <1>1 DEF ShellTypeOK, End
  <2>2. left' \in [Calls -> 0..callTimeout] /\ grace' \in 0..shutdownGrace
    BY DEF End, callTimeout, shutdownGrace
  <2>3. /\ Active' = Active /\ Routes' = Routes /\ SealAnswers' = SealAnswers
        /\ callTimeout' = callTimeout /\ shutdownGrace' = shutdownGrace
    BY DEF Active, Remote, Local, Routes, SealAnswers, callTimeout, shutdownGrace
  <2>4. /\ server' = "off" /\ serveErr' = Nil /\ signalled' = FALSE /\ late' = {}
        /\ route' = route /\ status' = status /\ answers' = answers
    BY DEF End
  <2>5. /\ route \in [Calls -> Routes \cup {Nil}]
        /\ status \in [Calls -> {0, 200, 400, 401, 403, 415, 422, 502, 503}]
        /\ answers \in [Calls -> SUBSET (SealAnswers \cup {"denied", "vault", "authority"})]
    BY <1>1 DEF ShellTypeOK
  <2>6. QED
    BY <2>1, <2>2, <2>3, <2>4, <2>5 DEF ShellTypeOK
<1>3. MainInv'
  BY DEF MainInv, End, Crash
<1>4. ASSUME NEW c \in Calls PROVE RequestInv(c)' /\ GraceInv(c)'
  <2>1. pc'[c] \notin SigningCalls /\ signature'[c] = signature[c]
    BY <1>1 DEF End, Crash, TypeOK, SigningCalls
  <2>2. at'[c] = IF at[c] \in Active THEN "cut" ELSE at[c]
    BY DEF End
  <2>3. at'[c] \notin Active /\ (at[c] = "done" => at'[c] = "done")
        /\ (at'[c] = "done" => at[c] = "done") /\ (at'[c] = "idle" => at[c] = "idle")
    BY <2>2 DEF Active, Remote, Local
  <2>4. QED
    BY <2>1, <2>3 DEF ShellInv, RequestInv, GraceInv, End, Active, Remote, Local,
       SigningCalls
<1>5. QED
  BY <1>2, <1>3, <1>4 DEF ShellInv

(* Starting and wiring, while no request is there to notice. *)
LEMMA WiringInv ==
    ASSUME ShellInv, VaultInv, Start \/ PinKey \/ \E names \in Rosters : Wire(names)
    PROVE  ShellInv'
<1>1. server \in {"off", "wiring"} \/ PinKey
  BY DEF ShellInv, MainInv, Start, StartProcess, Wire
<1>2. ShellTypeOK'
  BY TypeFrame DEF ShellInv, ShellTypeOK, Start, PinKey, Wire, main, requests, Active,
     Remote, Local, Routes, SealAnswers, callTimeout, shutdownGrace
<1>3. MainInv'
  <2>1. CASE Start
    BY <2>1 DEF ShellInv, MainInv, Start, StartProcess
  <2>2. CASE PinKey
    BY <2>2 DEF ShellInv, MainInv, PinKey, DescribeKey, New, main, signer
  <2>3. CASE \E names \in Rosters : Wire(names)
    BY <2>3 DEF ShellInv, MainInv, Wire, vars, signer
  <2>4. QED
    BY <2>1, <2>2, <2>3
<1>4. ASSUME NEW c \in Calls PROVE RequestInv(c)' /\ GraceInv(c)'
  <2>1. CASE PinKey
    BY <2>1, RequestFrame DEF ShellInv, PinKey, DescribeKey, New, main, requests, signer,
       calls
  <2>2. CASE ~PinKey
    <3>1. at[c] \notin Active /\ at' = at
      BY <1>1, <2>2 DEF ShellInv, RequestInv, Start, Wire, requests
    <3>2. signature'[c] # Nil /\ server' = "wiring" => signedIn'[c] < starts'
      BY <2>2 DEF Start, StartProcess, Wire, VaultInv, TypeOK, calls
    <3>3. pc' = pc /\ signature' = signature /\ answers' = answers /\ status' = status
      BY <2>2 DEF Start, StartProcess, Wire, vars, calls, requests
    <3>4. QED
      BY <1>1, <2>2, <3>1, <3>2, <3>3 DEF ShellInv, RequestInv, GraceInv, Start, Wire,
         Active, Remote, Local, SigningCalls
  <2>3. QED
    BY <2>1, <2>2
<1>5. QED
  BY <1>2, <1>3, <1>4 DEF ShellInv

(* The listener and the signal, and what the environment does to Vault. *)
LEMMA ServingInv ==
    ASSUME ShellInv, VaultInv, 
           \/ Listen \/ ListenerFails \/ Signal
           \/ (Rotate \/ Trim) /\ UNCHANGED <<main, requests>>
           \/ UNCHANGED shellVars
    PROVE  ShellInv'
<1>1. /\ UNCHANGED <<requests, pc, signature, signedIn, process, starts, server, roster, grace>>
      /\ serveErr' \in {serveErr, "error"}
      /\ signalled' \in BOOLEAN /\ (signalled => signalled')
  BY DEF Listen, ListenerFails, Signal, Rotate, Trim, main, shellVars, vars, signer, calls,
     ShellInv, ShellTypeOK
<1>2. ShellTypeOK'
  <2>1. /\ Active' = Active /\ Routes' = Routes /\ SealAnswers' = SealAnswers
        /\ callTimeout' = callTimeout /\ shutdownGrace' = shutdownGrace
    BY DEF Active, Remote, Local, Routes, SealAnswers, callTimeout, shutdownGrace
  <2>2. QED
    BY <1>1, <2>1 DEF ShellInv, ShellTypeOK, requests
<1>3. MainInv'
  <2>1. /\ server' = "off" <=> process' = "down"
        /\ server' \in {"serving", "draining"} => process' = "up"
        /\ server' # "draining" => serveErr' \in {Nil, "error"}
    BY <1>1 DEF ShellInv, MainInv
  <2>2. server' = "draining" => signalled'
    BY <1>1 DEF ShellInv, MainInv
  <2>3. QED
    BY <2>1, <2>2 DEF MainInv
<1>4. ASSUME NEW c \in Calls PROVE RequestInv(c)' /\ GraceInv(c)'
  BY <1>1, RequestFrame DEF ShellInv, requests
<1>5. QED
  BY <1>2, <1>3, <1>4 DEF ShellInv

(* A shutdown gives the calls it finds at least the time they have left,   *)
(* and each tick takes as much from them as from the shutdown. *)
LEMMA DrainingInv ==
    ASSUME ShellInv, Shutdown \/ Tick
    PROVE  ShellInv'
<1>1. /\ UNCHANGED <<vars, roster, exit, signalled, route, at, status, answers, late>>
      /\ server' = "draining" /\ server \in {"serving", "draining"}
      /\ server = "serving" => signalled
  BY DEF Shutdown, Tick
<1>2. ShellTypeOK /\ signalled
  BY <1>1 DEF ShellInv, MainInv
<1>3. /\ left' \in [Calls -> 0..callTimeout] /\ grace' \in 0..shutdownGrace
      /\ serveErr' \in {Nil, "closed", "error"}
  <2>1. CASE Shutdown
    BY <1>2, <2>1 DEF Shutdown, shutdownGrace, ShellTypeOK
  <2>2. CASE Tick
    BY <1>2, <2>2 DEF Tick, shutdownGrace, callTimeout, ShellTypeOK
  <2>3. QED
    BY <2>1, <2>2
<1>4. ShellTypeOK'
  <2>1. /\ Active' = Active /\ Routes' = Routes /\ SealAnswers' = SealAnswers
        /\ callTimeout' = callTimeout /\ shutdownGrace' = shutdownGrace
    BY DEF Active, Remote, Local, Routes, SealAnswers, callTimeout, shutdownGrace
  <2>2. QED
    BY <1>1, <1>2, <1>3, <2>1 DEF ShellTypeOK
<1>5. MainInv'
  BY <1>1, <1>2 DEF ShellInv, MainInv, vars, signer
<1>6. ASSUME NEW c \in Calls PROVE RequestInv(c)' /\ GraceInv(c)'
  <2>1. RequestInv(c)'
    <3>1. UNCHANGED <<pc, signature, signedIn, starts>>
      BY <1>1 DEF vars, signer, calls
    <3>2. QED
      BY <1>1, <3>1 DEF ShellInv, RequestInv, AudiencesPass, RootFits, Granting, StepsOf,
         SigningCalls, Active, Remote, Local, SealAnswers
  <2>2. CASE Shutdown
    <3>1. grace' = 2 /\ (at[c] \in Remote => left'[c] < 2) /\ at' = at
      BY <2>2 DEF Shutdown, shutdownGrace, callTimeout
    <3>2. at[c] \in Remote <=> at'[c] \in Remote'
      BY <3>1 DEF Remote
    <3>3. GraceInv(c)'
      BY <3>1, <3>2 DEF GraceInv
    <3>4. QED
      BY <2>1, <3>3
  <2>3. CASE Tick
    <3>1. left'[c] = IF at[c] \in Remote THEN left[c] - 1 ELSE 0
      BY <2>3 DEF Tick
    <3>2. at[c] \notin Local /\ grace' = grace - 1 /\ server = "draining"
          /\ left[c] \in Nat /\ grace \in Nat
      BY <1>2, <2>3 DEF Tick, ShellTypeOK, callTimeout, shutdownGrace
    <3>3. GraceInv(c)
      BY DEF ShellInv
    <3>4. QED
      <4>1. /\ at[c] \in Remote <=> at'[c] \in Remote'
            /\ at'[c] \notin Local' /\ (c \in late <=> c \in late')
        BY <1>1, <3>2 DEF Remote, Local
      <4>2. GraceInv(c)'
        BY <3>1, <3>2, <3>3, <4>1 DEF GraceInv
      <4>3. QED
        BY <2>1, <4>2
  <2>4. QED
    BY <2>1, <2>2, <2>3
<1>7. QED
  BY <1>4, <1>5, <1>6 DEF ShellInv

(* ShellInv is inductive, with what the signer keeps. *)
LEMMA ShellStepInv == ShellInv /\ VaultInv /\ [ShellNext]_shellVars => ShellInv'
<1> SUFFICES ASSUME ShellInv, VaultInv, [ShellNext]_shellVars PROVE ShellInv'
  OBVIOUS
<1>1. ASSUME NEW c \in Calls, HandlerStep(c) PROVE ShellInv'
  BY <1>1, AuthorizeInv, QuestionsInv, SigningInv, ReadingInv DEF HandlerStep
<1>2. CASE WiringFails \/ Kill \/ ReturnServeErr \/ ShutdownReturns \/ GraceExpires
  BY <1>2, EndInv DEF WiringFails, Kill, ReturnServeErr, ShutdownReturns, GraceExpires
<1>3. QED
  BY <1>1, <1>2, BodyArrivesInv, ArriveInv, WiringInv, ServingInv, DrainingInv
     DEF ShellNext

(* Requests, answers, signatures and the process agree, in every state. *)
THEOREM ShellInvariant == ShellSpec => []ShellInv
<1>1. ASSUME ShellInit PROVE ShellInv
  <2>1. ShellTypeOK
    <3>1. 0 \in 0..callTimeout /\ 0 \in 0..shutdownGrace /\ "idle" \notin Active
      BY DEF callTimeout, shutdownGrace, Active, Remote, Local
    <3>2. /\ at \in [Calls -> Active \cup {"idle", "done", "cut"}]
          /\ left \in [Calls -> 0..callTimeout] /\ grace \in 0..shutdownGrace
          /\ route \in [Calls -> Routes \cup {Nil}]
      BY <1>1, <3>1 DEF ShellInit
    <3>3. /\ status \in [Calls -> {0, 200, 400, 401, 403, 415, 422, 502, 503}]
          /\ answers \in [Calls -> SUBSET (SealAnswers \cup {"denied", "vault", "authority"})]
      <4>1. status = [c \in Calls |-> 0] /\ answers = [c \in Calls |-> {}]
        BY <1>1 DEF ShellInit
      <4>2. QED
        BY <4>1
    <3>4. /\ server = "off" /\ serveErr = Nil /\ signalled = FALSE /\ late = {}
      BY <1>1 DEF ShellInit
    <3>5. QED
      BY <3>2, <3>3, <3>4 DEF ShellTypeOK
  <2>2. MainInv
    BY <1>1 DEF ShellInit, Init, MainInv
  <2>3. ASSUME NEW c \in Calls PROVE RequestInv(c) /\ GraceInv(c)
    BY <1>1 DEF ShellInit, Init, RequestInv, GraceInv, Active, Remote, Local, SigningCalls
  <2>4. QED
    BY <2>1, <2>2, <2>3 DEF ShellInv
<1>2. QED
  BY <1>1, ShellStepInv, ShellPinnedVersion, PTL DEF ShellSpec

(* A request that has neither a status nor a signature claims nothing. *)
LEMMA UnearnedYet ==
    ASSUME NEW c \in Calls, at'[c] # "done", signature'[c] = Nil
    PROVE  Earned(c)'
  BY DEF Earned

(* A finished request keeps what it earned while its process lives on. *)
LEMMA EarnedFrame ==
    ASSUME NEW c \in Calls, Earned(c), UNCHANGED <<roster, process, starts>>,
           at'[c] = at[c], route'[c] = route[c], status'[c] = status[c],
           answers'[c] = answers[c], signature'[c] = signature[c],
           signedIn'[c] = signedIn[c]
    PROVE  Earned(c)'
  BY DEF Earned, AudiencesPass, RootFits, SealAnswers

(* What the step of a handler makes of its own request. *)
LEMMA EarnedByStep ==
    ASSUME ShellInv, ShellInv', VaultInv, NEW c \in Calls,
           HandlerStep(c) \/ BodyArrives(c)
    PROVE  Earned(c)'
<1>1. ShellTypeOK /\ RequestInv(c) /\ RequestInv(c)' /\ TypeOK /\ ShellTypeOK'
  BY DEF ShellInv, VaultInv
<1>2. CASE at'[c] # "done"
  BY <1>1, <1>2, UnearnedYet DEF RequestInv
<1>3. CASE at'[c] = "done"
  <2>1. /\ at[c] # "done" /\ at[c] \in Active /\ signature[c] = Nil
        /\ "denied" \notin answers[c] /\ Granting(at[c]) \subseteq answers[c]
    BY <1>1 DEF RequestInv, HandlerStep, BodyArrives, Authorize, Check, ConstraintsHash,
       SealSegments, AskKid, VaultAnswers, VaultSigns, ReturnPackage, Sign, SigningFails,
       SignFails, Level2, Probe, Active, Remote, Local, SigningCalls
  <2>2. CASE Authorize(c)
    <3>1. signature'[c] = Nil /\ route'[c] = route[c] /\ route[c] = "seal"
          /\ answers'[c] = {} /\ status'[c] \in {401, 403}
      BY <1>1, <1>3, <2>1, <2>2, RouteOf
         DEF Authorize, Reply, Turn, RequestInv, vars, calls, ShellTypeOK
    <3>2. QED
      BY <3>1 DEF Earned
  <2>3. CASE BodyArrives(c)
    <3>1. /\ signature'[c] = Nil /\ route'[c] = route[c] /\ answers'[c] = answers[c]
          /\ route[c] \in {"seal", "verify"}
          /\ route[c] = "seal" => answers[c] = {"role"} /\ status'[c] \in {400, 415, 502}
      <4>1. /\ signature'[c] = Nil /\ route'[c] = route[c] /\ answers'[c] = answers[c]
            /\ route[c] \in {"seal", "verify"} /\ (route[c] = "seal" => answers[c] = {"role"})
        BY <1>1, <2>1, <2>3, RouteOf DEF BodyArrives, Reply, Turn, RequestInv, vars, calls
      <4>2. route[c] = "seal" => status'[c] \in {400, 415, 502}
        BY <1>1, <1>3, <2>1, <2>3 DEF BodyArrives, Reply, Turn, ShellTypeOK
      <4>3. QED
        BY <4>1, <4>2
    <3>2. QED
      BY <3>1 DEF Earned
  <2>4. CASE Check(c) \/ ConstraintsHash(c) \/ SealSegments(c)
    <3>1. /\ signature'[c] = Nil /\ route'[c] = route[c] /\ route[c] = "seal"
          /\ "role" \in answers[c] /\ answers[c] \subseteq answers'[c]
      BY <1>1, <2>1, <2>4, RouteOf, StepFacts
         DEF Check, ConstraintsHash, SealSegments, Reply, Turn, Granted, vars, calls,
             ShellTypeOK, SealAnswers, Local
    <3>2. status'[c] \in {422, 502} /\ (status'[c] = 422 <=> "denied" \in answers'[c])
      BY <1>1, <1>3, <2>1, <2>4
         DEF Check, ConstraintsHash, SealSegments, Reply, Turn, Granted, ShellTypeOK
    <3>3. QED
      BY <3>1, <3>2 DEF Earned
  <2>5. CASE ReturnPackage(c)
    <3>1. /\ at[c] = "sign" /\ route[c] = "seal" /\ SealAnswers \subseteq answers[c]
          /\ AudiencesPass(roster) /\ RootFits(roster)
      BY <1>1, <2>1, <2>5, RouteOf, StepFacts
         DEF RequestInv, ReturnPackage, Sign, SigningCalls
    <3>2. /\ roster' = roster /\ route'[c] = route[c] /\ answers'[c] = answers[c]
          /\ status'[c] = 200
      BY <1>1, <2>5 DEF ReturnPackage, Reply, main, ShellTypeOK
    <3>3. signature'[c] = [kid |-> kid[c], key |-> reply[c].key]
      BY <1>1, <2>5 DEF ReturnPackage, Sign, TypeOK
    <3>4. signature'[c] # Nil
      <4>1. pc'[c] = "signed"
        BY <1>1, <2>5 DEF ReturnPackage, Sign, TypeOK
      <4>2. VaultInv'
        BY <2>5, StepInv DEF ReturnPackage, Next
      <4>3. QED
        BY <4>1, <4>2 DEF VaultInv
    <3>5. SealAnswers' = SealAnswers /\ AudiencesPass(roster)' /\ RootFits(roster)'
      BY <3>1, <3>2 DEF SealAnswers, AudiencesPass, RootFits
    <3>6. answers'[c] # {} /\ answers'[c] # {"role"}
      BY <3>1, <3>2 DEF SealAnswers
    <3>7. QED
      BY <2>1, <3>1, <3>2, <3>4, <3>5, <3>6 DEF Earned
  <2>6. CASE SigningFails(c)
    <3>1. /\ signature'[c] = Nil /\ route'[c] = route[c] /\ route[c] = "seal"
          /\ "role" \in answers[c] /\ answers'[c] = answers[c] /\ status'[c] = 502
      BY <1>1, <2>1, <2>6, RouteOf, StepFacts
         DEF RequestInv, SigningFails, SignFails, Reply, SealAnswers, ShellTypeOK, TypeOK,
             SigningCalls
    <3>2. QED
      BY <2>1, <3>1 DEF Earned
  <2>7. CASE Level2(c)
    <3>1. route'[c] = "verify" /\ signature'[c] = Nil
      BY <1>1, <2>1, <2>7, RouteOf DEF Level2, Reply, vars, calls
    <3>2. QED
      BY <3>1 DEF Earned
  <2>8. CASE Probe(c)
    <3>1. /\ route'[c] = "ready" /\ signature'[c] = Nil
          /\ status'[c] = 200 => {"vault", "authority"} \subseteq answers'[c]
      BY <1>1, <1>3, <2>1, <2>8, RouteOf, StepFacts
         DEF Probe, Reply, Turn, Granted, vars, calls, ShellTypeOK
    <3>2. QED
      BY <3>1 DEF Earned
  <2>9. CASE AskKid(c) \/ VaultAnswers(c)
    BY <1>1, <1>3, <2>1, <2>9 DEF AskKid, VaultAnswers, Turn, requests, ShellTypeOK
  <2>10. QED
    BY <2>2, <2>3, <2>4, <2>5, <2>6, <2>7, <2>8, <2>9 DEF HandlerStep
<1>4. QED
  BY <1>2, <1>3

(* A handler's step is nobody else's. *)
LEMMA OthersKeep ==
    ASSUME ShellInv, VaultInv, NEW c \in Calls, NEW d \in Calls, d # c,
           HandlerStep(c) \/ BodyArrives(c) \/ \E r \in Routes : Arrive(c, r)
    PROVE  /\ UNCHANGED <<roster, process, starts>>
           /\ at'[d] = at[d] /\ route'[d] = route[d] /\ status'[d] = status[d]
           /\ answers'[d] = answers[d]
           /\ signature'[d] = signature[d] /\ signedIn'[d] = signedIn[d]
<1>1. ShellTypeOK /\ TypeOK
  BY DEF ShellInv, VaultInv
<1>2. \/ UNCHANGED requests
      \/ \E code : Reply(c, code)
      \/ \E step : Turn(c, step)
      \/ \E r \in Routes : Arrive(c, r)
  BY DEF HandlerStep, BodyArrives, Authorize, Check, ConstraintsHash, SealSegments, AskKid,
     VaultAnswers, ReturnPackage, SigningFails, Level2, Probe
<1>3. /\ at'[d] = at[d] /\ route'[d] = route[d] /\ status'[d] = status[d]
  BY <1>1, <1>2 DEF Reply, Turn, Arrive, requests, ShellTypeOK
<1>4. answers'[d] = answers[d]
  BY <1>1 DEF HandlerStep, BodyArrives, Arrive, Authorize, Check, ConstraintsHash,
     SealSegments, AskKid, VaultAnswers, ReturnPackage, SigningFails, Level2, Probe,
     Granted, requests, ShellTypeOK
<1>5. roster' = roster
  BY DEF HandlerStep, BodyArrives, Arrive, Authorize, Check, ConstraintsHash, SealSegments,
     AskKid, VaultAnswers, ReturnPackage, SigningFails, Level2, Probe, Reply, Turn, main
<1>6. /\ UNCHANGED <<process, starts>>
      /\ signature'[d] = signature[d] /\ signedIn'[d] = signedIn[d]
  BY <1>1 DEF HandlerStep, BodyArrives, Arrive, Authorize, Check, ConstraintsHash,
     SealSegments, AskKid, VaultAnswers, ReturnPackage, SigningFails, Level2, Probe,
     Kid, VaultSigns, Sign, SignFails, vars, signer, calls, TypeOK
<1>7. QED
  BY <1>3, <1>4, <1>5, <1>6

(* Main's steps give no request a status and sign nothing; a new process   *)
(* and a new roster find only signatures of earlier ones. *)
LEMMA MainKeepsEarned ==
    ASSUME ShellInv, VaultInv, NEW c \in Calls, Earned(c), [ShellNext]_shellVars,
           ~(\E d \in Calls : HandlerStep(d) \/ BodyArrives(d) \/ \E r \in Routes : Arrive(d, r))
    PROVE  Earned(c)'
<1>1. RequestInv(c) /\ TypeOK /\ MainInv
  BY DEF ShellInv, VaultInv
<1>2. CASE WiringFails \/ Kill \/ ReturnServeErr \/ ShutdownReturns \/ GraceExpires
  <2>1. PICK how : End(how)
    BY <1>2 DEF WiringFails, Kill, ReturnServeErr, ShutdownReturns, GraceExpires
  <2>2. /\ process' = "down" /\ route' = route /\ status' = status /\ answers' = answers
        /\ signature' = signature /\ at'[c] = IF at[c] \in Active THEN "cut" ELSE at[c]
    BY <2>1 DEF End, Crash
  <2>3. at'[c] = "done" => at[c] = "done"
    BY <2>2
  <2>4. QED
    BY <2>2, <2>3 DEF Earned, SealAnswers
<1>3. CASE Start \/ PinKey \/ \E names \in Rosters : Wire(names)
  <2>1. /\ at' = at /\ route' = route /\ status' = status /\ answers' = answers
        /\ signature' = signature /\ signedIn' = signedIn
    BY <1>3 DEF Start, StartProcess, PinKey, DescribeKey, New, Wire, vars, calls, requests
  <2>2. CASE PinKey /\ process' = process
    BY <2>1, <2>2, EarnedFrame DEF PinKey, DescribeKey, New, main, signer
  <2>3. CASE ~(PinKey /\ process' = process)
    <3>1. signature[c] # Nil /\ process' = "up" => signedIn[c] < starts /\ starts' = starts
      BY <1>1, <1>3, <2>3 DEF Start, StartProcess, PinKey, DescribeKey, New, Wire, main,
         vars, signer, MainInv, RequestInv, VaultInv
    <3>2. signature[c] # Nil /\ process' = "up" => signedIn'[c] # starts'
      BY <1>1, <2>1, <3>1, BoundsAssumption DEF TypeOK
    <3>3. QED
      BY <2>1, <3>2 DEF Earned, SealAnswers
  <2>4. QED
    BY <2>2, <2>3
<1>4. CASE \/ Listen \/ ListenerFails \/ Signal \/ Shutdown \/ Tick
           \/ (Rotate \/ Trim) /\ UNCHANGED <<main, requests>>
           \/ UNCHANGED shellVars
  BY <1>4, EarnedFrame DEF Listen, ListenerFails, Signal, Shutdown, Tick, Rotate, Trim,
     main, requests, shellVars, vars, signer, calls
<1>5. QED
  BY <1>2, <1>3, <1>4 DEF ShellNext

(* No status claims what was not earned, and no signature either. *)
THEOREM StatusEarned == ShellSpec => []StatusIsEarned
<1>1. ShellInit => StatusIsEarned
  <2>1. ASSUME ShellInit, NEW c \in Calls PROVE Earned(c)
    <3>1. signature[c] = Nil /\ at[c] = "idle"
      BY <2>1 DEF ShellInit, Init
    <3>2. QED
      BY <3>1 DEF Earned
  <2>2. QED
    BY <2>1 DEF StatusIsEarned
<1>2. /\ StatusIsEarned /\ ShellInv /\ ShellInv' /\ VaultInv /\ [ShellNext]_shellVars
      => StatusIsEarned'
  <2> SUFFICES ASSUME StatusIsEarned, ShellInv, ShellInv', VaultInv,
                      [ShellNext]_shellVars, NEW d \in Calls
               PROVE  Earned(d)'
    BY DEF StatusIsEarned
  <2>1. CASE \E c \in Calls : HandlerStep(c) \/ BodyArrives(c) \/ \E r \in Routes : Arrive(c, r)
    <3>1. PICK c \in Calls : HandlerStep(c) \/ BodyArrives(c) \/ \E r \in Routes : Arrive(c, r)
      BY <2>1
    <3>2. CASE d # c
      BY <3>1, <3>2, OthersKeep, EarnedFrame DEF StatusIsEarned
    <3>3. CASE d = c /\ (HandlerStep(c) \/ BodyArrives(c))
      BY <3>3, EarnedByStep
    <3>4. CASE d = c /\ \E r \in Routes : Arrive(c, r)
      <4>1. at'[d] # "done"
        BY <3>4 DEF ShellInv, ShellTypeOK, Arrive, Routes
      <4>2. QED
        BY <4>1, UnearnedYet DEF ShellInv, RequestInv
    <3>5. QED
      BY <3>1, <3>2, <3>3, <3>4
  <2>2. QED
    BY <2>1, MainKeepsEarned DEF StatusIsEarned
<1>3. QED
  BY <1>1, <1>2, ShellInvariant, ShellPinnedVersion, PTL DEF ShellSpec

(* Only the steps that end the process cut a request, each with its exit. *)
LEMMA CutBy ==
    ASSUME [ShellNext]_shellVars, server # "off", server' = "off"
    PROVE  WiringFails \/ Kill \/ ReturnServeErr \/ ShutdownReturns \/ GraceExpires
<1>1. ASSUME NEW c \in Calls,
             HandlerStep(c) \/ BodyArrives(c) \/ \E r \in Routes : Arrive(c, r)
      PROVE  server' = server
  BY <1>1 DEF HandlerStep, BodyArrives, Arrive, Authorize, Check, ConstraintsHash,
     SealSegments, AskKid, VaultAnswers, ReturnPackage, SigningFails, Level2, Probe,
     Reply, Turn, main
<1>2. ~(Start \/ PinKey \/ \E names \in Rosters : Wire(names))
  BY DEF Start, PinKey, Wire, main
<1>3. ~(\/ Listen \/ ListenerFails \/ Signal \/ Shutdown \/ Tick
        \/ (Rotate \/ Trim) /\ UNCHANGED <<main, requests>>
        \/ UNCHANGED shellVars)
  BY DEF Listen, ListenerFails, Signal, Shutdown, Tick, main, shellVars
<1>4. QED
  BY <1>1, <1>2, <1>3 DEF ShellNext

(* The grace outlasts every call a shutdown finds under way. *)
THEOREM GraceSuffices == ShellSpec => GraceIsEnough
<1>1. ASSUME ShellInv, ShellInv', [ShellNext]_shellVars, NEW c \in Calls,
             at[c] \in Active, at'[c] = "cut"
      PROVE  \/ exit' = "killed"
             \/ server = "serving" /\ serveErr = "error"
             \/ server = "draining" /\ (c \in late \/ at[c] = "body")
  <2>1. server \in {"serving", "draining"} /\ ShellTypeOK
    BY <1>1 DEF ShellInv, RequestInv
  <2>2. CASE server' = "off"
    <3>1. CASE ReturnServeErr
      BY <1>1, <3>1 DEF ShellInv, MainInv, ReturnServeErr
    <3>2. CASE GraceExpires
      <4>1. server = "draining" /\ grace = 0 /\ GraceInv(c)
        BY <1>1, <3>2 DEF GraceExpires, ShellInv
      <4>2. left[c] \in Nat
        BY <2>1 DEF ShellTypeOK, callTimeout
      <4>3. QED
        BY <1>1, <4>1, <4>2 DEF GraceInv, Active
    <3>3. CASE Kill
      BY <3>3 DEF Kill, End
    <3>4. CASE ShutdownReturns \/ WiringFails
      BY <1>1, <2>1, <3>4 DEF ShutdownReturns, WiringFails
    <3>5. QED
      BY <1>1, <2>1, <2>2, <3>1, <3>2, <3>3, <3>4, CutBy
  <2>3. CASE server' # "off"
    <3>1. ASSUME NEW d \in Calls,
                 HandlerStep(d) \/ BodyArrives(d) \/ \E r \in Routes : Arrive(d, r)
          PROVE  at'[c] # "cut"
      <4>1. \/ UNCHANGED requests
            \/ \E code : Reply(d, code)
            \/ \E step \in Active : Turn(d, step)
            \/ \E r \in Routes : Arrive(d, r)
        BY <3>1 DEF HandlerStep, BodyArrives, Authorize, Check, ConstraintsHash, SealSegments,
           AskKid, VaultAnswers, ReturnPackage, SigningFails, Level2, Probe, Active, Remote,
           Local
      <4>2. at[c] # "cut"
        BY <1>1 DEF Active, Remote, Local
      <4>3. QED
        BY <2>1, <4>1, <4>2
           DEF Reply, Turn, Arrive, requests, ShellTypeOK, Active, Remote, Local, Routes
    <3>2. ASSUME Start \/ PinKey \/ \E names \in Rosters : Wire(names) PROVE at' = at
      BY <3>2 DEF Start, PinKey, Wire, requests
    <3>3. ASSUME \/ Listen \/ ListenerFails \/ Signal \/ Shutdown \/ Tick
                 \/ (Rotate \/ Trim) /\ UNCHANGED <<main, requests>>
                 \/ UNCHANGED shellVars
          PROVE  at' = at
      BY <3>3 DEF Listen, ListenerFails, Signal, Shutdown, Tick, shellVars, requests
    <3>4. at[c] # "cut"
      BY <1>1 DEF Active, Remote, Local
    <3>5. ~(WiringFails \/ Kill \/ ReturnServeErr \/ ShutdownReturns \/ GraceExpires)
      BY <2>3 DEF WiringFails, Kill, ReturnServeErr, ShutdownReturns, GraceExpires, End
    <3>6. QED
      BY <1>1, <3>1, <3>2, <3>3, <3>4, <3>5 DEF ShellNext
  <2>4. QED
    BY <2>2, <2>3
<1>2. ShellInv /\ ShellInv' /\ [ShellNext]_shellVars =>
      [\A c \in Calls :
          at[c] \in Active /\ at'[c] = "cut" =>
              \/ exit' = "killed"
              \/ server = "serving" /\ serveErr = "error"
              \/ server = "draining" /\ (c \in late \/ at[c] = "body")]_shellVars
  BY <1>1
<1>3. QED
  BY <1>2, ShellInvariant, PTL DEF ShellSpec, GraceIsEnough

(* Exit code 0 hides neither a cut request nor a failed listener. *)
THEOREM CleanExit == ShellSpec => CleanExitHidesNothing
<1>1. ASSUME ShellInv, [ShellNext]_shellVars,
             server # "off", server' = "off", exit' = "clean"
      PROVE  /\ signalled /\ serveErr # "error"
             /\ \A c \in Calls : at[c] \notin Active
  <2>1. ShutdownReturns
    BY <1>1, CutBy DEF WiringFails, Kill, ReturnServeErr, GraceExpires, End
  <2>2. serveErr = "closed"
    BY <1>1, <2>1 DEF ShutdownReturns, End
  <2>3. QED
    BY <1>1, <2>1, <2>2 DEF ShutdownReturns, ShellInv, MainInv
<1>2. ShellInv /\ [ShellNext]_shellVars =>
      [server # "off" /\ server' = "off" /\ exit' = "clean" =>
          /\ signalled /\ serveErr # "error"
          /\ \A c \in Calls : at[c] \notin Active]_shellVars
  BY <1>1
<1>3. QED
  BY <1>2, ShellInvariant, PTL DEF ShellSpec, CleanExitHidesNothing

----------------------------------------------------------------------------
(* Sequences of sequences: what FlattenSeq returns                         *)

(* Induction over the naturals: what fails somewhere first fails somewhere. *)
LEMMA LeastNat ==
    ASSUME NEW T, T \subseteq Nat, T # {}
    PROVE  \E x \in T : \A y \in T : x <= y
<1> DEFINE R == {ss \in Nat \X Nat : ss[1] < ss[2]}
<1>1. IsWellFoundedOn(R, Nat)
  BY NatLessThanWellFounded DEF OpToRel
<1>2. PICK x \in T : \A y \in T : ~ (<<y, x>> \in R)
  <2> HIDE DEF R
  <2> QED BY <1>1, WFMin
<1>3. \A y \in T : ~(y < x)
  BY <1>2
<1> QED BY <1>3

(* The inner sequences of a sequence of sequences, by a name of their own. *)
Row(S) == Seq(S)

(* The recursion inside FlattenSeq, solved for the first m sequences. *)
Flattens(f, ss, m) ==
    f = [i \in 1..m |-> IF i = 1 THEN ss[i] ELSE f[i - 1] \o ss[i]]

Follows(f, ss, m) == \A i \in 1..m : f[i] = IF i = 1 THEN ss[i] ELSE f[i - 1] \o ss[i]

LEMMA FlatteningUnique ==
    ASSUME NEW ss, NEW m \in Nat,
           NEW f, Follows(f, ss, m), NEW g, Follows(g, ss, m)
    PROVE  \A i \in 1..m : f[i] = g[i]
<1> DEFINE T == {i \in 1..m : f[i] # g[i]}
<1> SUFFICES ASSUME T # {} PROVE FALSE
  OBVIOUS
<1>1. T \subseteq Nat
  OBVIOUS
<1>2. PICK x \in T : \A y \in T : x <= y
  <2> HIDE DEF T
  <2> QED BY <1>1, LeastNat
<1>3. x \in 1..m
  OBVIOUS
<1>4. /\ f[x] = IF x = 1 THEN ss[x] ELSE f[x - 1] \o ss[x]
      /\ g[x] = IF x = 1 THEN ss[x] ELSE g[x - 1] \o ss[x]
  BY <1>3 DEF Follows
<1>5. x # 1
  BY <1>4
<1>6. x - 1 \in 1..m /\ ~(x <= x - 1)
  BY <1>3, <1>5
<1>7. f[x - 1] = g[x - 1]
  BY <1>2, <1>6
<1> QED BY <1>4, <1>5, <1>7

LEMMA FlatteningExists ==
    ASSUME NEW S, NEW ss \in Seq(Row(S))
    PROVE  \A m \in 0..Len(ss) : \E f \in [1..m -> Row(S)] : Flattens(f, ss, m)
<1> DEFINE T == {m \in 0..Len(ss) : ~ \E f \in [1..m -> Row(S)] : Flattens(f, ss, m)}
<1> SUFFICES ASSUME T # {} PROVE FALSE
  OBVIOUS
<1>1. T \subseteq Nat
  OBVIOUS
<1>2. PICK x \in T : \A y \in T : x <= y
  <2> HIDE DEF T
  <2> QED BY <1>1, LeastNat
<1>3. x \in 0..Len(ss)
  OBVIOUS
<1>4. CASE x = 0
  <2> DEFINE f == [i \in 1..0 |-> <<>>]
  <2>1. f \in [1..0 -> Row(S)] /\ Flattens(f, ss, 0)
    BY DEF Flattens
  <2> QED BY <1>4, <2>1
<1>5. CASE x # 0
  <2>1. x - 1 \in 0..Len(ss) /\ ~(x <= x - 1) /\ x \in 1..Len(ss) /\ x - 1 \in Nat /\ x \in Nat
    BY <1>3, <1>5
  <2>2. PICK f \in [1..x - 1 -> Row(S)] : Flattens(f, ss, x - 1)
    BY <1>2, <2>1
  <2>3. \A i \in 1..x - 1 : f[i] = IF i = 1 THEN ss[i] ELSE f[i - 1] \o ss[i]
    BY <2>2 DEF Flattens
  <2> DEFINE g == [i \in 1..x |-> IF i < x THEN f[i]
                                  ELSE IF i = 1 THEN ss[i] ELSE f[i - 1] \o ss[i]]
  <2>4. \A i \in 1..x : g[i] \in Row(S)
    <3> TAKE i \in 1..x
    <3>1. CASE i < x
      <4>1. i \in 1..x - 1
        BY <2>1, <3>1
      <4> QED BY <3>1, <4>1
    <3>2. CASE ~(i < x) /\ i = 1
      BY <2>1, <3>2
    <3>3. CASE ~(i < x) /\ i # 1
      <4>1. i - 1 \in 1..x - 1 /\ i \in 1..Len(ss)
        BY <2>1, <3>3
      <4>2. f[i - 1] \in Row(S) /\ ss[i] \in Row(S)
        BY <4>1
      <4> QED BY <3>3, <4>2 DEF Row
    <3> QED BY <3>1, <3>2, <3>3
  <2>5. \A i \in 1..x : g[i] = IF i = 1 THEN ss[i] ELSE g[i - 1] \o ss[i]
    <3> TAKE i \in 1..x
    <3>1. CASE i = 1
      <4>1. CASE i < x
        <5>1. i \in 1..x - 1
          BY <2>1, <4>1
        <5> QED BY <2>3, <3>1, <4>1, <5>1
      <4> QED BY <3>1, <4>1
    <3>2. CASE i # 1
      <4>1. i - 1 \in 1..x /\ i - 1 < x
        BY <2>1, <3>2
      <4>2. g[i - 1] = f[i - 1]
        BY <4>1
      <4>3. CASE i < x
        <5>1. i \in 1..x - 1
          BY <2>1, <4>3
        <5> QED BY <2>3, <3>2, <4>2, <4>3, <5>1
      <4> QED BY <3>2, <4>2, <4>3
    <3> QED BY <3>1, <3>2
  <2>6. g \in [1..x -> Row(S)]
    BY <2>4
  <2>7. g = [i \in 1..x |-> g[i]]
    OBVIOUS
  <2>8. Flattens(g, ss, x)
    <3> HIDE DEF g
    <3> QED BY <2>5, <2>7 DEF Flattens
  <2> QED BY <2>6, <2>8
<1> QED BY <1>4, <1>5

(* FlattenSeq satisfies its defining equation. *)
LEMMA FlattenIs ==
    ASSUME NEW S, NEW ss \in Seq(Row(S)), Len(ss) # 0
    PROVE  \E f \in [1..Len(ss) -> Row(S)] :
              Flattens(f, ss, Len(ss)) /\ FlattenSeq(ss) = f[Len(ss)]
<1> DEFINE f[i \in 1..Len(ss)] == IF i = 1 THEN ss[i] ELSE f[i - 1] \o ss[i]
<1>0. Len(ss) \in Nat
  OBVIOUS
<1>1. PICK g \in [1..Len(ss) -> Row(S)] : Flattens(g, ss, Len(ss))
  BY <1>0, FlatteningExists
<1>2. f = [i \in 1..Len(ss) |-> IF i = 1 THEN ss[i] ELSE f[i - 1] \o ss[i]]
  BY <1>1, Zenon DEF Flattens
<1>3. FlattenSeq(ss) = f[Len(ss)]
  BY Zenon DEF FlattenSeq
<1>4. Flattens(f, ss, Len(ss))
  <2> HIDE DEF f
  <2> QED BY <1>2, Zenon DEF Flattens
<1>5. \A i \in 1..Len(ss) : f[i] = g[i]
  <2> HIDE DEF f
  <2>1. Follows(f, ss, Len(ss)) /\ Follows(g, ss, Len(ss))
    BY <1>1, <1>4 DEF Flattens, Follows
  <2> QED BY <1>0, <2>1, FlatteningUnique
<1>6. FlattenSeq(ss) = g[Len(ss)]
  <2> HIDE DEF f
  <2> QED BY <1>0, <1>3, <1>5
<1> QED BY <1>1, <1>6

LEMMA RowsAssociate ==
    ASSUME NEW S
    PROVE  \A a, b, c \in Row(S) : (a \o b) \o c = a \o (b \o c)
  BY ConcatAssociative DEF Row

LEMMA ConcatAppend ==
    ASSUME NEW S, NEW a \in Seq(S), NEW b \in Seq(S), NEW e \in S
    PROVE  a \o b \in Seq(S) /\ a \o Append(b, e) = Append(a \o b, e)
<1>1. <<e>> \in Seq(S) /\ a \o b \in Seq(S)
  OBVIOUS
<1>2. Append(b, e) = b \o <<e>> /\ Append(a \o b, e) = (a \o b) \o <<e>>
  BY <1>1, AppendIsConcat
<1> QED BY <1>1, <1>2, ConcatAssociative

LEMMA FlattenEmpty == FlattenSeq(<<>>) = <<>>
<1>1. Len(<<>>) = 0
  OBVIOUS
<1> QED BY <1>1, Zenon DEF FlattenSeq

LEMMA FlattenType ==
    ASSUME NEW S, NEW ss \in Seq(Row(S))
    PROVE  FlattenSeq(ss) \in Row(S)
<1>1. CASE Len(ss) = 0
  <2>1. ss = <<>> /\ <<>> \in Row(S)
    BY <1>1 DEF Row
  <2> QED BY <2>1, FlattenEmpty, Zenon
<1>2. CASE Len(ss) # 0
  <2>1. PICK f \in [1..Len(ss) -> Row(S)] : FlattenSeq(ss) = f[Len(ss)]
    BY <1>2, FlattenIs, Zenon
  <2>2. Len(ss) \in 1..Len(ss)
    BY <1>2
  <2> QED BY <2>1, <2>2, Zenon
<1> QED BY <1>1, <1>2

LEMMA FlattenAppend ==
    ASSUME NEW S, NEW ss \in Seq(Row(S)), NEW s \in Row(S)
    PROVE  FlattenSeq(Append(ss, s)) = FlattenSeq(ss) \o s
<1> DEFINE tt == Append(ss, s)
<1>1. /\ tt \in Seq(Row(S)) /\ Len(tt) = Len(ss) + 1 /\ Len(ss) \in Nat
      /\ tt[Len(ss) + 1] = s
      /\ \A i \in 1..Len(ss) : ss[i] = tt[i]
  OBVIOUS
<1> HIDE DEF tt
<1>2. PICK g \in [1..Len(tt) -> Row(S)] :
        Flattens(g, tt, Len(tt)) /\ FlattenSeq(tt) = g[Len(tt)]
  <2>1. Len(tt) # 0
    BY <1>1
  <2> QED BY <1>1, <2>1, FlattenIs, Zenon
<1>3. g[Len(tt)] = IF Len(tt) = 1 THEN s ELSE g[Len(ss)] \o s
  <2>1. Len(tt) \in 1..Len(tt) /\ Len(tt) - 1 = Len(ss)
    BY <1>1
  <2> QED BY <1>1, <1>2, <2>1 DEF Flattens
<1>4. CASE Len(ss) = 0
  <2>1. ss = <<>>
    BY <1>4
  <2>2. FlattenSeq(ss) \o s = s
    BY <2>1, FlattenEmpty DEF Row
  <2> QED BY <1>1, <1>2, <1>3, <1>4, <2>2 DEF tt
<1>5. CASE Len(ss) # 0
  <2>1. PICK f \in [1..Len(ss) -> Row(S)] :
          Flattens(f, ss, Len(ss)) /\ FlattenSeq(ss) = f[Len(ss)]
    BY <1>5, FlattenIs
  <2>2. Len(ss) <= Len(tt) /\ Len(tt) \in Nat /\ Len(ss) \in 1..Len(ss)
    BY <1>1, <1>5
  <2>3. \A i \in 1..Len(ss) : f[i] = g[i]
    <3>1. Follows(f, ss, Len(ss))
      BY <2>1 DEF Flattens, Follows
    <3>2. \A i \in 1..Len(ss) : i \in 1..Len(tt)
      BY <2>2
    <3>3. Follows(g, ss, Len(ss))
      BY <1>1, <1>2, <3>2 DEF Flattens, Follows
    <3> QED BY <1>1, <3>1, <3>3, FlatteningUnique
  <2>4. f[Len(ss)] = g[Len(ss)]
    BY <2>2, <2>3
  <2>5. Len(tt) # 1
    BY <1>1, <1>5
  <2> QED BY <1>2, <1>3, <2>1, <2>4, <2>5 DEF tt
<1> QED BY <1>4, <1>5

LEMMA FlattenOne ==
    ASSUME NEW S, NEW s \in Row(S)
    PROVE  FlattenSeq(<<s>>) = s
<1>1. <<>> \in Seq(Row(S)) /\ Append(<<>>, s) = <<s>> /\ <<>> \o s = s
  BY DEF Row
<1> QED BY <1>1, FlattenEmpty, FlattenAppend

LEMMA FlattenConcat ==
    ASSUME NEW S, NEW ss \in Seq(Row(S)), NEW tt \in Seq(Row(S))
    PROVE  FlattenSeq(ss \o tt) = FlattenSeq(ss) \o FlattenSeq(tt)
<1> DEFINE Fails(m) == \E uu \in Seq(Row(S)) :
                          Len(uu) = m /\ FlattenSeq(ss \o uu) # FlattenSeq(ss) \o FlattenSeq(uu)
           T == {m \in Nat : Fails(m)}
<1> SUFFICES ASSUME T # {} PROVE FALSE
  <2>1. Len(tt) \in Nat
    OBVIOUS
  <2> QED BY <2>1
<1>1. PICK m \in T : \A y \in T : m <= y
  <2>1. T \subseteq Nat
    OBVIOUS
  <2> HIDE DEF T, Fails
  <2> QED BY <2>1, LeastNat
<1>2. PICK uu \in Seq(Row(S)) :
        Len(uu) = m /\ FlattenSeq(ss \o uu) # FlattenSeq(ss) \o FlattenSeq(uu)
  OBVIOUS
<1>3. FlattenSeq(ss) \in Row(S)
  BY FlattenType
<1>4. uu # <<>>
  <2>1. ss \o <<>> = ss /\ FlattenSeq(ss) \o <<>> = FlattenSeq(ss)
    BY <1>3 DEF Row
  <2> QED BY <1>2, <2>1, FlattenEmpty
<1>5. PICK vv \in Seq(Row(S)), v \in Row(S) : uu = Append(vv, v)
  BY <1>4, SequenceEmptyOrAppend
<1>6. Len(vv) \in Nat /\ Len(uu) = Len(vv) + 1
  BY <1>5
<1>7. ~ Fails(Len(vv))
  <2>1. ~(m <= Len(vv)) /\ Len(vv) \in Nat
    BY <1>2, <1>6
  <2>2. Len(vv) \notin T
    BY <1>1, <2>1, Zenon
  <2> QED BY <2>1, <2>2, Zenon
<1>8. FlattenSeq(ss \o vv) = FlattenSeq(ss) \o FlattenSeq(vv)
  BY <1>7
<1>9. /\ ss \o uu = Append(ss \o vv, v)
      /\ ss \o vv \in Seq(Row(S))
  <2>1. ss \in Seq(Row(S)) /\ vv \in Seq(Row(S)) /\ v \in Row(S) /\ uu = Append(vv, v)
    BY <1>5
  <2> QED BY ONLY <2>1, ConcatAppend
<1>10. FlattenSeq(ss \o uu) = (FlattenSeq(ss) \o FlattenSeq(vv)) \o v
  <2>1. FlattenSeq(Append(ss \o vv, v)) = FlattenSeq(ss \o vv) \o v
    BY <1>9, FlattenAppend, Zenon
  <2> QED BY <1>8, <1>9, <2>1, Zenon
<1>11. FlattenSeq(uu) = FlattenSeq(vv) \o v
  BY <1>5, FlattenAppend
<1>12. FlattenSeq(vv) \in Row(S)
  BY FlattenType
<1>13. (FlattenSeq(ss) \o FlattenSeq(vv)) \o v = FlattenSeq(ss) \o (FlattenSeq(vv) \o v)
  <2> DEFINE fs == FlattenSeq(ss)
             fv == FlattenSeq(vv)
  <2>1. fs \in Row(S) /\ fv \in Row(S) /\ v \in Row(S)
    BY <1>3, <1>12
  <2> HIDE DEF T, Fails, fs, fv
  <2>2. (fs \o fv) \o v = fs \o (fv \o v)
    BY ONLY <2>1, RowsAssociate, SMTT(30)
  <2> QED BY <2>2 DEF fs, fv
<1> QED BY <1>2, <1>10, <1>11, <1>13

----------------------------------------------------------------------------
(* Fields, attributes and what encloses them.                              *)

LEMMA OneIsSeq == \A S : \A e \in S : <<e>> \in Seq(S)
  OBVIOUS

LEMMA AttributeParts ==
    ASSUME NEW x \in Attribute
    PROVE  /\ x.key \in STRING /\ x.fields \in Row(Field)
           /\ \A n \in 1..Len(x.fields) :
                 /\ x.fields[n] \in Field
                 /\ x.key = "" \/ x.key = Append(x.fields[n].path, x.fields[n].key)[1]
<1>1. x.key \in STRING /\ x.fields \in Seq(Field)
  BY DEF Attribute
<1>2. DOMAIN x.fields = 1..Len(x.fields)
  BY <1>1
<1>3. \A n \in DOMAIN x.fields :
        x.key \in {"", Append(x.fields[n].path, x.fields[n].key)[1]}
  BY Zenon DEF Attribute
<1>4. \A n \in 1..Len(x.fields) : x.fields[n] \in Field
  BY <1>1
<1> QED BY <1>1, <1>2, <1>3, <1>4 DEF Row

LEMMA AttributeMade ==
    ASSUME NEW k \in STRING, NEW fields \in Row(Field),
           \A n \in 1..Len(fields) :
                k = "" \/ k = Append(fields[n].path, fields[n].key)[1]
    PROVE  [key |-> k, fields |-> fields] \in Attribute
<1> DEFINE x == [key |-> k, fields |-> fields]
<1>1. x \in [key: STRING, fields: Seq(Field)]
  BY DEF Row
<1>2. x.key = k /\ x.fields = fields
  OBVIOUS
<1>3. DOMAIN fields = 1..Len(fields)
  <2>1. fields \in Seq(Field)
    BY DEF Row
  <2> QED BY <2>1, LenProperties, Zenon
<1>4. \A n \in DOMAIN x.fields : x.key \in {"", Append(x.fields[n].path, x.fields[n].key)[1]}
  <2> HIDE DEF x
  <2> QED BY <1>2, <1>3
<1> QED
  <2> HIDE DEF x
  <2>1. x \in Attribute
    BY <1>1, <1>4, Zenon DEF Attribute
  <2> QED BY <2>1 DEF x

LEMMA UnderType ==
    ASSUME NEW path \in Seq(STRING), NEW fields \in Seq(Field)
    PROVE  /\ Under(path, fields) \in Row(Field)
           /\ Len(Under(path, fields)) = Len(fields)
           /\ \A n \in 1..Len(fields) :
                 /\ Under(path, fields)[n].path = path \o fields[n].path
                 /\ Under(path, fields)[n].key = fields[n].key
                 /\ Under(path, fields)[n].value = fields[n].value
<1>1. DOMAIN fields = 1..Len(fields) /\ Len(fields) \in Nat
  OBVIOUS
<1>2. ASSUME NEW n \in 1..Len(fields)
      PROVE  LET f == [fields[n] EXCEPT !.path = path \o @]
             IN  /\ f \in Field
                 /\ f.path = path \o fields[n].path
                 /\ f.key = fields[n].key
                 /\ f.value = fields[n].value
  <2>1. fields[n] \in Field
    OBVIOUS
  <2>2. path \o fields[n].path \in Seq(STRING)
    BY <2>1 DEF Field
  <2> QED BY <2>1, <2>2 DEF Field
<1> DEFINE u == [n \in 1..Len(fields) |-> [fields[n] EXCEPT !.path = path \o @]]
<1>3. u \in Seq(Field) /\ Len(u) = Len(fields)
  BY <1>1, <1>2
<1>4. Under(path, fields) = u
  BY <1>1, Zenon DEF Under
<1> QED BY <1>2, <1>3, <1>4 DEF Row

(* The fields of each attribute of a list. *)
FieldsOf(attrs) == [k \in DOMAIN attrs |-> attrs[k].fields]

LEMMA FieldsOfType ==
    ASSUME NEW attrs \in Seq(Attribute)
    PROVE  FieldsOf(attrs) \in Seq(Row(Field)) /\ Len(FieldsOf(attrs)) = Len(attrs)
<1>1. DOMAIN attrs = 1..Len(attrs) /\ Len(attrs) \in Nat
  OBVIOUS
<1>2. \A k \in 1..Len(attrs) : attrs[k].fields \in Row(Field)
  <2> TAKE k \in 1..Len(attrs)
  <2>1. attrs[k] \in Attribute
    OBVIOUS
  <2> QED BY <2>1 DEF Attribute, Row
<1> QED BY <1>1, <1>2, IsASeq DEF FieldsOf

LEMMA WrittenIs == \A attrs : Written(attrs) = FlattenSeq(FieldsOf(attrs))
  BY Zenon DEF Written, FieldsOf

LEMMA WrittenType ==
    ASSUME NEW attrs \in Seq(Attribute) PROVE Written(attrs) \in Row(Field)
  BY FieldsOfType, FlattenType, WrittenIs

LEMMA WrittenConcat ==
    ASSUME NEW a \in Seq(Attribute), NEW b \in Seq(Attribute)
    PROVE  Written(a \o b) = Written(a) \o Written(b)
<1>1. FieldsOf(a \o b) = FieldsOf(a) \o FieldsOf(b)
  <2>1. /\ a \o b \in Seq(Attribute) /\ Len(a \o b) = Len(a) + Len(b)
        /\ FieldsOf(a) \in Seq(Row(Field)) /\ Len(FieldsOf(a)) = Len(a)
        /\ FieldsOf(b) \in Seq(Row(Field)) /\ Len(FieldsOf(b)) = Len(b)
    BY FieldsOfType
  <2>2. FieldsOf(a \o b) \in Seq(Row(Field)) /\ Len(FieldsOf(a \o b)) = Len(a \o b)
    BY <2>1, FieldsOfType
  <2>3. FieldsOf(a) \o FieldsOf(b) \in Seq(Row(Field))
    BY <2>1, ConcatProperties, Zenon
  <2>4. Len(FieldsOf(a) \o FieldsOf(b)) = Len(a) + Len(b)
    <3>1. Len(FieldsOf(a) \o FieldsOf(b)) = Len(FieldsOf(a)) + Len(FieldsOf(b))
      BY <2>1, ConcatProperties, Zenon
    <3> QED BY <2>1, <3>1, Zenon
  <2>5. ASSUME NEW i \in 1..Len(a) + Len(b)
        PROVE  FieldsOf(a \o b)[i] = (FieldsOf(a) \o FieldsOf(b))[i]
    <3>1. FieldsOf(a \o b)[i] = (a \o b)[i].fields
      BY <2>1 DEF FieldsOf
    <3>2. CASE i <= Len(a)
      <4>1. i \in DOMAIN a /\ (a \o b)[i] = a[i]
        BY <3>2
      <4>2. (FieldsOf(a) \o FieldsOf(b))[i] = FieldsOf(a)[i]
        BY <2>1, <3>2
      <4> QED BY <3>1, <4>1, <4>2 DEF FieldsOf
    <3>3. CASE ~(i <= Len(a))
      <4>1. i - Len(a) \in DOMAIN b /\ (a \o b)[i] = b[i - Len(a)]
        BY <3>3
      <4>2. (FieldsOf(a) \o FieldsOf(b))[i] = FieldsOf(b)[i - Len(a)]
        BY <2>1, <3>3
      <4> QED BY <3>1, <4>1, <4>2 DEF FieldsOf
    <3> QED BY <3>2, <3>3
  <2> QED BY <2>1, <2>2, <2>3, <2>4, <2>5, SeqEqual
<1> QED BY <1>1, FieldsOfType, FlattenConcat, WrittenIs

LEMMA WrittenEmpty == Written(<<>>) = <<>>
<1>1. FieldsOf(<<>>) = <<>>
  BY DEF FieldsOf
<1> QED BY <1>1, WrittenIs, FlattenEmpty

LEMMA WrittenOne ==
    ASSUME NEW x \in Attribute PROVE Written(<<x>>) = x.fields
<1>1. FieldsOf(<<x>>) = <<x.fields>>
  BY DEF FieldsOf
<1>2. x.fields \in Row(Field)
  BY AttributeParts
<1> QED BY <1>1, <1>2, WrittenIs, FlattenOne

LEMMA PlainType ==
    ASSUME NEW k \in STRING, NEW v \in STRING PROVE Plain(k, v) \in Attribute
<1> DEFINE f == [path |-> <<>>, key |-> k, value |-> v]
<1>1. f \in Field /\ Append(f.path, f.key)[1] = k
  BY DEF Field
<1>2. Plain(k, v) = [key |-> k, fields |-> <<f>>]
  BY DEF Plain
<1> DEFINE s == <<f>>
<1>3. s \in Row(Field) /\ \A n \in 1..Len(s) : s[n] = f
  <2> HIDE DEF f
  <2> QED BY <1>1 DEF Row
<1>4. Plain(k, v) = [key |-> k, fields |-> s]
  BY <1>2
<1>5. \A n \in 1..Len(s) : k = Append(s[n].path, s[n].key)[1]
  <2> HIDE DEF f, s
  <2> QED BY <1>1, <1>3
<1> HIDE DEF f, s
<1> QED BY <1>3, <1>4, <1>5, AttributeMade

(* What a list says inside a group. *)
Inside(list) == IF list = <<>> THEN Plain("", "").fields ELSE Written(list)
Named(k) == IF k = "" THEN <<>> ELSE <<k>>

LEMMA GroupOfType ==
    ASSUME NEW k \in STRING, NEW list \in Seq(Attribute)
    PROVE  /\ GroupOf(k, list) \in Attribute
           /\ GroupOf(k, list).key = k
           /\ GroupOf(k, list).fields = Under(Named(k), Inside(list))
           /\ Inside(list) \in Row(Field)
           /\ Named(k) \in Seq(STRING)
<1>1. Inside(list) \in Seq(Field)
  <2>1. Plain("", "").fields \in Seq(Field)
    <3>1. "" \in STRING
      BY NamesAssumption DEF NoId
    <3>2. Plain("", "") \in Attribute
      BY <3>1, PlainType
    <3> QED BY <3>2, AttributeParts DEF Row
  <2>2. Written(list) \in Seq(Field)
    BY WrittenType DEF Row
  <2> QED BY <2>1, <2>2 DEF Inside
<1>2. Named(k) \in Seq(STRING)
  <2>1. <<k>> \in Seq(STRING) /\ <<>> \in Seq(STRING)
    BY OneIsSeq, EmptySeq
  <2> QED BY <2>1 DEF Named
<1> DEFINE u == Under(Named(k), Inside(list))
<1>3. GroupOf(k, list) = [key |-> k, fields |-> u]
  BY DEF GroupOf, Inside, Named
<1>4. u \in Seq(Field) /\ DOMAIN u = 1..Len(Inside(list))
  BY <1>1, <1>2, UnderType DEF Row
<1>5. ASSUME NEW n \in DOMAIN u, k # "" PROVE Append(u[n].path, u[n].key)[1] = k
  <2>1. n \in 1..Len(Inside(list))
    BY <1>4
  <2>2. u[n].path = <<k>> \o Inside(list)[n].path
    BY <1>1, <1>2, <1>5, <2>1, UnderType DEF Named
  <2>3. Inside(list)[n] \in Field
    <3> DEFINE f == Inside(list)
    <3>1. f \in Seq(Field) /\ n \in 1..Len(f)
      BY <1>1, <2>1
    <3> HIDE DEF f
    <3>2. f[n] \in Field
      BY <3>1
    <3> QED BY <3>2 DEF f
  <2>4. Inside(list)[n].path \in Seq(STRING)
    BY <2>3 DEF Field
  <2> QED BY <2>2, <2>4
<1> HIDE DEF u
<1>6. GroupOf(k, list) \in Attribute
  <2>1. u \in Row(Field) /\ DOMAIN u = 1..Len(u)
    BY <1>4 DEF Row
  <2>2. \A n \in 1..Len(u) : k = "" \/ k = Append(u[n].path, u[n].key)[1]
    BY <1>5, <2>1
  <2> QED BY <1>3, <2>1, <2>2, AttributeMade
<1> QED BY <1>1, <1>2, <1>3, <1>6 DEF u, Row

(* Exactly one of a link's group and attributes is set. *)
Link == {goa \in [group: STRING, attrs: Seq(Attribute)] : goa.group = "" \/ goa.attrs = <<>>}

LEMMA EncloseType ==
    ASSUME NEW goa \in Link, NEW inner \in Seq(Attribute)
    PROVE  Enclose(goa, inner) \in Seq(Attribute)
<1>1. goa.attrs \in Seq(Attribute) /\ goa.group \in STRING
  BY DEF Link
<1>2. <<GroupOf(goa.group, inner)>> \in Seq(Attribute)
  BY <1>1, GroupOfType, OneIsSeq
<1>3. goa.attrs \o inner \in Seq(Attribute) /\ <<>> \in Seq(Attribute)
  BY <1>1
<1> QED BY <1>2, <1>3 DEF Enclose

----------------------------------------------------------------------------
(* The loop of Handle                                                      *)

Replays(f, links, attrs) ==
    f = [i \in 1..Len(links) + 1 |->
            IF i > Len(links) THEN attrs ELSE Enclose(links[i], f[i + 1])]

(* The loop has handled one link more than the loop over all but the last, *)
(* started with what the last makes of the attributes.                     *)
LEMMA ReplaysLast ==
    ASSUME NEW links \in Seq(Link), NEW goa \in Link, NEW attrs, NEW f,
           Replays(f, links, Enclose(goa, attrs))
    PROVE  \E g : Replays(g, Append(links, goa), attrs) /\ g[1] = f[1]
<1> DEFINE n == Len(links)
           long == Append(links, goa)
           g == [i \in 1..n + 2 |-> IF i > n + 1 THEN attrs ELSE f[i]]
<1>1. n \in Nat /\ Len(long) = n + 1 /\ long[n + 1] = goa
      /\ \A i \in 1..n : long[i] = links[i]
  OBVIOUS
<1>2. \A i \in 1..n + 1 : f[i] = IF i > n THEN Enclose(goa, attrs) ELSE Enclose(links[i], f[i + 1])
  BY DEF Replays
<1> HIDE DEF n, long
<1>3. ASSUME NEW i \in 1..n + 2
      PROVE  g[i] = IF i > n + 1 THEN attrs ELSE Enclose(long[i], g[i + 1])
  <2>1. CASE i > n + 1
    BY <2>1
  <2>2. CASE i = n + 1
    <3>1. g[i] = Enclose(goa, attrs) /\ g[i + 1] = attrs
      BY <1>1, <1>2, <2>2
    <3> QED BY <1>1, <2>2, <3>1
  <2>3. CASE i <= n
    <3>1. i \in 1..n /\ i + 1 \in 1..n + 1 /\ i \in 1..n + 1
      BY <1>1, <2>3
    <3>2. g[i] = f[i] /\ g[i + 1] = f[i + 1]
      BY <1>1, <3>1
    <3>3. f[i] = Enclose(links[i], f[i + 1])
      BY <1>1, <1>2, <3>1
    <3>4. long[i] = links[i] /\ ~(i > n + 1)
      BY <1>1, <3>1
    <3> QED BY <3>2, <3>3, <3>4
  <2> QED BY <1>1, <2>1, <2>2, <2>3
<1>4. g = [i \in 1..n + 2 |-> g[i]] /\ g[1] = f[1]
  BY <1>1
<1>5. g = [i \in 1..Len(long) + 1 |->
             IF i > Len(long) THEN attrs ELSE Enclose(long[i], g[i + 1])]
  <2>1. Len(long) + 1 = n + 2
    BY <1>1
  <2> HIDE DEF g
  <2> QED BY <1>1, <1>3, <1>4, <2>1
<1>6. Replays(g, long, attrs)
  <2> HIDE DEF g
  <2> QED BY <1>5, Zenon DEF Replays
<1> QED
  <2> HIDE DEF g
  <2> QED BY <1>4, <1>6, Zenon DEF long

(* Conversely. *)
LEMMA ReplaysButLast ==
    ASSUME NEW links \in Seq(Link), NEW goa \in Link, NEW attrs, NEW g,
           Replays(g, Append(links, goa), attrs)
    PROVE  \E f : Replays(f, links, Enclose(goa, attrs)) /\ f[1] = g[1]
<1> DEFINE n == Len(links)
           long == Append(links, goa)
           f == [i \in 1..n + 1 |-> g[i]]
<1>1. n \in Nat /\ Len(long) = n + 1 /\ long[n + 1] = goa
      /\ \A i \in 1..n : long[i] = links[i]
  OBVIOUS
<1>2. \A i \in 1..n + 2 : g[i] = IF i > n + 1 THEN attrs ELSE Enclose(long[i], g[i + 1])
  <2> HIDE DEF n
  <2>1. Len(long) + 1 = n + 2
    BY <1>1
  <2> HIDE DEF long
  <2>2. Replays(g, long, attrs)
    BY DEF long
  <2> QED BY <1>1, <2>1, <2>2 DEF Replays
<1> HIDE DEF n, long
<1>3. ASSUME NEW i \in 1..n + 1
      PROVE  f[i] = IF i > n THEN Enclose(goa, attrs) ELSE Enclose(links[i], f[i + 1])
  <2>1. CASE i > n
    <3>1. i = n + 1 /\ n + 1 \in 1..n + 2 /\ n + 2 \in 1..n + 2 /\ n + 1 + 1 = n + 2
          /\ n + 2 > n + 1 /\ ~(n + 1 > n + 1)
      BY <1>1, <2>1
    <3>2. g[n + 2] = attrs
      BY <1>2, <3>1
    <3>3. g[n + 1] = Enclose(long[n + 1], g[n + 2])
      BY <1>2, <3>1
    <3> QED BY <1>1, <2>1, <3>1, <3>2, <3>3
  <2>2. CASE ~(i > n)
    <3>1. i \in 1..n /\ i + 1 \in 1..n + 1 /\ i \in 1..n + 2 /\ ~(i > n + 1)
      BY <1>1, <2>2
    <3>2. f[i] = g[i] /\ f[i + 1] = g[i + 1]
      BY <3>1
    <3>3. g[i] = Enclose(long[i], g[i + 1])
      BY <1>2, <3>1
    <3>4. long[i] = links[i]
      BY <1>1, <3>1
    <3> QED BY <2>2, <3>2, <3>3, <3>4
  <2> QED BY <2>1, <2>2
<1>4. f = [i \in 1..n + 1 |-> f[i]] /\ f[1] = g[1]
  BY <1>1
<1>5. f = [i \in 1..Len(links) + 1 |->
             IF i > Len(links) THEN Enclose(goa, attrs) ELSE Enclose(links[i], f[i + 1])]
  <2> HIDE DEF f
  <2> QED BY <1>3, <1>4 DEF n
<1>6. Replays(f, links, Enclose(goa, attrs))
  <2> HIDE DEF f
  <2> QED BY <1>5, Zenon DEF Replays
<1> QED
  <2> HIDE DEF f
  <2> QED BY <1>4, <1>6, Zenon

(* The loop has one outcome. *)
Determined(links) ==
    \A attrs : /\ \E f : Replays(f, links, attrs)
               /\ \A f, g : Replays(f, links, attrs) /\ Replays(g, links, attrs) => f[1] = g[1]

LEMMA ReplayDetermined == \A links \in Seq(Link) : Determined(links)
<1> DEFINE Fails(m) == \E links \in Seq(Link) : Len(links) = m /\ ~Determined(links)
           T == {m \in Nat : Fails(m)}
<1> SUFFICES ASSUME T # {} PROVE FALSE
  <2>1. \A links \in Seq(Link) : Len(links) \in Nat
    OBVIOUS
  <2> QED BY <2>1
<1>1. PICK m \in T : \A y \in T : m <= y
  <2>1. T \subseteq Nat
    OBVIOUS
  <2> HIDE DEF T
  <2> QED BY <2>1, LeastNat
<1>2. PICK links \in Seq(Link) : Len(links) = m /\ ~Determined(links)
  OBVIOUS
<1>3. CASE links = <<>>
  <2>1. Len(links) = 0 /\ 1..0 + 1 = {1}
    BY <1>3
  <2>2. \A attrs, f : Replays(f, links, attrs) => f[1] = attrs
    BY <2>1 DEF Replays
  <2>3. \A attrs : \E f : Replays(f, links, attrs)
    <3> TAKE attrs
    <3> DEFINE f == [i \in {1} |-> attrs]
    <3>1. f = [i \in 1..Len(links) + 1 |->
                 IF i > Len(links) THEN attrs ELSE Enclose(links[i], f[i + 1])]
      BY <2>1
    <3> HIDE DEF f
    <3> QED BY <3>1, Zenon DEF Replays
  <2> QED BY <1>2, <2>2, <2>3, Zenon DEF Determined
<1>4. CASE links # <<>>
  <2>1. PICK few \in Seq(Link), goa \in Link : links = Append(few, goa)
    BY <1>4, SequenceEmptyOrAppend
  <2>2. Len(few) \in Nat /\ Len(links) = Len(few) + 1
    BY <2>1
  <2>3. Len(few) \notin T
    <3> HIDE DEF T
    <3> QED BY <1>1, <1>2, <2>2
  <2>4. Determined(few)
    BY <2>2, <2>3
  <2> HIDE DEF T, Fails
  <2>5. ASSUME NEW attrs PROVE \E f : Replays(f, links, attrs)
    <3>1. PICK f : Replays(f, few, Enclose(goa, attrs))
      BY <2>4, Zenon DEF Determined
    <3> QED BY <2>1, <3>1, ReplaysLast
  <2>6. ASSUME NEW attrs, NEW f, NEW g, Replays(f, links, attrs), Replays(g, links, attrs)
        PROVE  f[1] = g[1]
    <3>1. PICK ff : Replays(ff, few, Enclose(goa, attrs)) /\ ff[1] = f[1]
      BY <2>1, <2>6, ReplaysButLast
    <3>2. PICK gg : Replays(gg, few, Enclose(goa, attrs)) /\ gg[1] = g[1]
      BY <2>1, <2>6, ReplaysButLast
    <3>3. ff[1] = gg[1]
      BY <2>4, <3>1, <3>2, Zenon DEF Determined
    <3> QED BY <3>1, <3>2, <3>3
  <2> QED BY <1>2, <2>5, <2>6, Zenon DEF Determined
<1> QED BY <1>3, <1>4

LEMMA ReplayIs ==
    ASSUME NEW links \in Seq(Link), NEW attrs, NEW f, Replays(f, links, attrs)
    PROVE  Replay(links, attrs) = f[1]
<1> DEFINE inside[i \in 1..Len(links) + 1] ==
              IF i > Len(links) THEN attrs ELSE Enclose(links[i], inside[i + 1])
<1>1. inside = [i \in 1..Len(links) + 1 |->
                  IF i > Len(links) THEN attrs ELSE Enclose(links[i], inside[i + 1])]
  BY Zenon DEF Replays
<1>2. Replay(links, attrs) = inside[1]
  BY Zenon DEF Replay
<1> HIDE DEF inside
<1>3. Replays(inside, links, attrs)
  BY <1>1, Zenon DEF Replays
<1>4. Determined(links)
  BY ReplayDetermined
<1> QED BY <1>2, <1>3, <1>4, Zenon DEF Determined

LEMMA ReplayEmpty == \A attrs : Replay(<<>>, attrs) = attrs
<1> TAKE attrs
<1>1. <<>> \in Seq(Link) /\ Len(<<>>) = 0
  OBVIOUS
<1>2. PICK f : Replays(f, <<>>, attrs)
  BY <1>1, ReplayDetermined DEF Determined
<1>3. f[1] = attrs
  BY <1>1, <1>2 DEF Replays
<1> QED BY <1>1, <1>2, <1>3, ReplayIs

LEMMA ReplayAppend ==
    ASSUME NEW links \in Seq(Link), NEW goa \in Link, NEW attrs
    PROVE  Replay(Append(links, goa), attrs) = Replay(links, Enclose(goa, attrs))
<1>1. PICK f : Replays(f, links, Enclose(goa, attrs))
  BY ReplayDetermined DEF Determined
<1>2. PICK g : Replays(g, Append(links, goa), attrs) /\ g[1] = f[1]
  BY <1>1, ReplaysLast
<1>3. Append(links, goa) \in Seq(Link)
  OBVIOUS
<1> QED BY <1>1, <1>2, <1>3, ReplayIs

----------------------------------------------------------------------------
(* What a derivation asks for                                              *)

LEMMA FieldsEqual ==
    \A f, g \in Field : f.path = g.path /\ f.key = g.key /\ f.value = g.value => f = g
  BY DEF Field

LEMMA PathsAssociate ==
    \A a, b, c \in Seq(STRING) : (a \o b) \o c = a \o (b \o c)
  BY ConcatAssociative

LEMMA UnderEmptyPath ==
    ASSUME NEW fields \in Row(Field) PROVE Under(<<>>, fields) = fields
<1>1. <<>> \in Seq(STRING) /\ fields \in Seq(Field)
  BY DEF Row
<1>2. /\ Under(<<>>, fields) \in Seq(Field) /\ Len(Under(<<>>, fields)) = Len(fields)
      /\ \A n \in 1..Len(fields) :
            /\ Under(<<>>, fields)[n].path = <<>> \o fields[n].path
            /\ Under(<<>>, fields)[n].key = fields[n].key
            /\ Under(<<>>, fields)[n].value = fields[n].value
  BY <1>1, UnderType DEF Row
<1>3. ASSUME NEW n \in 1..Len(fields) PROVE Under(<<>>, fields)[n] = fields[n]
  <2>1. fields[n] \in Field /\ Under(<<>>, fields)[n] \in Field
    BY <1>1, <1>2
  <2>2. <<>> \o fields[n].path = fields[n].path
    BY <2>1 DEF Field
  <2> QED BY <1>2, <2>1, <2>2, FieldsEqual
<1> QED BY <1>1, <1>2, <1>3, SeqEqual

LEMMA UnderUnder ==
    ASSUME NEW p \in Seq(STRING), NEW q \in Seq(STRING), NEW fields \in Row(Field)
    PROVE  Under(p, Under(q, fields)) = Under(p \o q, fields)
<1>1. fields \in Seq(Field) /\ p \o q \in Seq(STRING)
  BY DEF Row
<1> DEFINE u == Under(q, fields)
           v == Under(p, u)
           w == Under(p \o q, fields)
<1>2. /\ u \in Seq(Field) /\ Len(u) = Len(fields)
      /\ \A n \in 1..Len(fields) : /\ u[n].path = q \o fields[n].path
                                   /\ u[n].key = fields[n].key
                                   /\ u[n].value = fields[n].value
  BY <1>1, UnderType DEF Row
<1>3. /\ w \in Seq(Field) /\ Len(w) = Len(fields)
      /\ \A n \in 1..Len(fields) : /\ w[n].path = (p \o q) \o fields[n].path
                                   /\ w[n].key = fields[n].key
                                   /\ w[n].value = fields[n].value
  BY <1>1, UnderType DEF Row
<1> HIDE DEF u
<1>4. /\ v \in Seq(Field) /\ Len(v) = Len(u)
      /\ \A n \in 1..Len(u) : /\ v[n].path = p \o u[n].path
                              /\ v[n].key = u[n].key
                              /\ v[n].value = u[n].value
  BY <1>2, UnderType DEF Row
<1> HIDE DEF v, w
<1>5. ASSUME NEW n \in 1..Len(fields) PROVE v[n] = w[n]
  <2>1. fields[n] \in Field /\ v[n] \in Field /\ w[n] \in Field
    BY <1>1, <1>2, <1>3, <1>4
  <2>2. fields[n].path \in Seq(STRING)
    BY <2>1 DEF Field
  <2>3. (p \o q) \o fields[n].path = p \o (q \o fields[n].path)
    BY <2>2, PathsAssociate
  <2>4. /\ u[n].path = q \o fields[n].path
        /\ u[n].key = fields[n].key /\ u[n].value = fields[n].value
    BY <1>2, Zenon
  <2>5. v[n].path = p \o u[n].path /\ v[n].key = u[n].key /\ v[n].value = u[n].value
    BY <1>2, <1>4, Zenon
  <2>6. /\ w[n].path = (p \o q) \o fields[n].path
        /\ w[n].key = fields[n].key /\ w[n].value = fields[n].value
    BY <1>3, Zenon
  <2>7. v[n].path = w[n].path /\ v[n].key = w[n].key /\ v[n].value = w[n].value
    BY <2>3, <2>4, <2>5, <2>6
  <2> QED BY <2>1, <2>7, FieldsEqual, Zenon
<1>6. v = w
  BY <1>2, <1>3, <1>4, <1>5, SeqEqual
<1> QED BY <1>6 DEF u, v, w

LEMMA UnderConcat ==
    ASSUME NEW p \in Seq(STRING), NEW a \in Row(Field), NEW b \in Row(Field)
    PROVE  Under(p, a \o b) = Under(p, a) \o Under(p, b)
<1> DEFINE Put(x) == [x EXCEPT !.path = p \o @]
           u == Under(p, a)
           v == Under(p, b)
           w == Under(p, a \o b)
<1>1. a \in Seq(Field) /\ b \in Seq(Field) /\ a \o b \in Seq(Field)
  BY DEF Row
<1>2. /\ u \in Seq(Field) /\ Len(u) = Len(a)
      /\ v \in Seq(Field) /\ Len(v) = Len(b)
      /\ w \in Seq(Field) /\ Len(w) = Len(a \o b)
  BY <1>1, UnderType DEF Row
<1>3. /\ \A n \in DOMAIN a : u[n] = Put(a[n])
      /\ \A n \in DOMAIN b : v[n] = Put(b[n])
      /\ \A n \in DOMAIN (a \o b) : w[n] = Put((a \o b)[n])
  BY DEF Under
<1> HIDE DEF Put, u, v, w
<1>4. /\ u \o v \in Seq(Field) /\ Len(u \o v) = Len(a) + Len(b)
      /\ Len(w) = Len(a) + Len(b)
  <2>1. Len(a \o b) = Len(a) + Len(b)
    BY <1>1
  <2>2. u \o v \in Seq(Field) /\ Len(u \o v) = Len(u) + Len(v)
    BY <1>2, ConcatProperties
  <2> QED BY <1>2, <2>1, <2>2
<1>5. ASSUME NEW n \in 1..Len(a) + Len(b) PROVE w[n] = (u \o v)[n]
  <2>1. w[n] = Put((a \o b)[n])
    BY <1>1, <1>3
  <2>2. CASE n <= Len(a)
    <3>1. n \in DOMAIN a /\ (a \o b)[n] = a[n]
      BY <1>1, <2>2
    <3>2. (u \o v)[n] = u[n]
      BY <1>1, <1>2, <2>2
    <3> QED BY <1>3, <2>1, <3>1, <3>2
  <2>3. CASE ~(n <= Len(a))
    <3>1. n - Len(a) \in DOMAIN b /\ (a \o b)[n] = b[n - Len(a)]
      BY <1>1, <2>3
    <3>2. (u \o v)[n] = v[n - Len(a)]
      BY <1>1, <1>2, <2>3
    <3> QED BY <1>3, <2>1, <3>1, <3>2
  <2> QED BY <2>2, <2>3
<1>6. w = u \o v
  BY <1>2, <1>4, <1>5, SeqEqual
<1> QED BY <1>6 DEF u, v, w

LEMMA UnderEmpty == \A p : Under(p, <<>>) = <<>>
  BY DEF Under

(* What is left of each attribute of a list. *)
Left(x) == IF x.key = correlationIDAttr THEN <<>> ELSE <<x>>
LeftOf(attrs) == [k \in DOMAIN attrs |-> Left(attrs[k])]

LEMMA LeftOfType ==
    ASSUME NEW attrs \in Seq(Attribute)
    PROVE  /\ LeftOf(attrs) \in Seq(Row(Attribute)) /\ Len(LeftOf(attrs)) = Len(attrs)
           /\ WithoutID(attrs) = FlattenSeq(LeftOf(attrs))
           /\ WithoutID(attrs) \in Row(Attribute)
<1>1. DOMAIN attrs = 1..Len(attrs) /\ Len(attrs) \in Nat
  OBVIOUS
<1>2. \A k \in 1..Len(attrs) : Left(attrs[k]) \in Row(Attribute)
  <2> TAKE k \in 1..Len(attrs)
  <2>1. attrs[k] \in Attribute
    OBVIOUS
  <2>2. <<attrs[k]>> \in Seq(Attribute) /\ <<>> \in Seq(Attribute)
    BY <2>1, OneIsSeq, EmptySeq
  <2> QED BY <2>2 DEF Left, Row
<1>3. LeftOf(attrs) \in Seq(Row(Attribute)) /\ Len(LeftOf(attrs)) = Len(attrs)
  BY <1>1, <1>2 DEF LeftOf
<1>4. WithoutID(attrs) = FlattenSeq(LeftOf(attrs))
  BY Zenon DEF WithoutID, LeftOf, Left
<1> QED BY <1>3, <1>4, FlattenType

LEMMA WithoutIDConcat ==
    ASSUME NEW a \in Seq(Attribute), NEW b \in Seq(Attribute)
    PROVE  WithoutID(a \o b) = WithoutID(a) \o WithoutID(b)
<1>1. /\ a \o b \in Seq(Attribute) /\ Len(a \o b) = Len(a) + Len(b)
      /\ LeftOf(a) \in Seq(Row(Attribute)) /\ Len(LeftOf(a)) = Len(a)
      /\ LeftOf(b) \in Seq(Row(Attribute)) /\ Len(LeftOf(b)) = Len(b)
  BY LeftOfType
<1>2. LeftOf(a \o b) \in Seq(Row(Attribute)) /\ Len(LeftOf(a \o b)) = Len(a) + Len(b)
  BY <1>1, LeftOfType
<1>3. /\ LeftOf(a) \o LeftOf(b) \in Seq(Row(Attribute))
      /\ Len(LeftOf(a) \o LeftOf(b)) = Len(a) + Len(b)
  <2>1. /\ LeftOf(a) \o LeftOf(b) \in Seq(Row(Attribute))
        /\ Len(LeftOf(a) \o LeftOf(b)) = Len(LeftOf(a)) + Len(LeftOf(b))
    BY <1>1, ConcatProperties, Zenon
  <2> QED BY <1>1, <2>1, Zenon
<1>4. ASSUME NEW i \in 1..Len(a) + Len(b)
      PROVE  LeftOf(a \o b)[i] = (LeftOf(a) \o LeftOf(b))[i]
  <2>1. LeftOf(a \o b)[i] = Left((a \o b)[i])
    BY <1>1 DEF LeftOf
  <2>2. CASE i <= Len(a)
    <3>1. i \in DOMAIN a /\ (a \o b)[i] = a[i]
      BY <2>2
    <3>2. (LeftOf(a) \o LeftOf(b))[i] = LeftOf(a)[i]
      BY <1>1, <2>2
    <3> QED BY <2>1, <3>1, <3>2 DEF LeftOf
  <2>3. CASE ~(i <= Len(a))
    <3>1. i - Len(a) \in DOMAIN b /\ (a \o b)[i] = b[i - Len(a)]
      BY <2>3
    <3>2. (LeftOf(a) \o LeftOf(b))[i] = LeftOf(b)[i - Len(a)]
      BY <1>1, <2>3
    <3> QED BY <2>1, <3>1, <3>2 DEF LeftOf
  <2> QED BY <2>2, <2>3
<1>5. LeftOf(a \o b) = LeftOf(a) \o LeftOf(b)
  BY <1>2, <1>3, <1>4, SeqEqual
<1>6. FlattenSeq(LeftOf(a \o b)) = FlattenSeq(LeftOf(a)) \o FlattenSeq(LeftOf(b))
  BY <1>1, <1>5, FlattenConcat
<1> QED BY <1>1, <1>6, LeftOfType

LEMMA WithoutIDOne ==
    ASSUME NEW x \in Attribute PROVE WithoutID(<<x>>) = Left(x)
<1>1. <<x>> \in Seq(Attribute) /\ <<>> \in Seq(Attribute)
  BY OneIsSeq, EmptySeq
<1>2. LeftOf(<<x>>) = <<Left(x)>>
  BY DEF LeftOf
<1>3. Left(x) \in Row(Attribute)
  BY <1>1 DEF Left, Row
<1> QED BY <1>1, <1>2, <1>3, LeftOfType, FlattenOne

LEMMA KeptType ==
    ASSUME NEW path, NEW list \in Seq(Attribute), NEW id
    PROVE  Kept(path, list, id) \in Seq(Attribute)
<1>1. WithoutID(list) \in Seq(Attribute) /\ <<>> \in Seq(Attribute)
  BY LeftOfType DEF Row
<1> QED BY <1>1 DEF Kept

LEMMA KeptConcat ==
    ASSUME NEW path, NEW a \in Seq(Attribute), NEW b \in Seq(Attribute), NEW id
    PROVE  Kept(path, a \o b, id) = Kept(path, a, id) \o Kept(path, b, id)
<1>1. WithoutID(a \o b) = WithoutID(a) \o WithoutID(b)
  BY WithoutIDConcat
<1>2. <<>> \o <<>> = <<>>
  OBVIOUS
<1> QED BY <1>1, <1>2 DEF Kept

LEMMA KeptEmpty == \A path, id : Kept(path, <<>>, id) = <<>>
<1>1. WithoutID(<<>>) = <<>>
  <2>1. LeftOf(<<>>) = <<>> /\ <<>> \in Seq(Attribute)
    BY DEF LeftOf
  <2> QED BY <2>1, LeftOfType, FlattenEmpty
<1> QED BY <1>1 DEF Kept

LEMMA SaidType ==
    ASSUME NEW path \in Seq(STRING), NEW list \in Seq(Attribute), NEW id
    PROVE  Said(path, list, id) \in Row(Field)
<1>1. Written(Kept(path, list, id)) \in Row(Field)
  BY KeptType, WrittenType
<1> QED BY <1>1, UnderType DEF Said, Row

LEMMA SaidConcat ==
    ASSUME NEW path \in Seq(STRING), NEW a \in Seq(Attribute), NEW b \in Seq(Attribute), NEW id
    PROVE  Said(path, a \o b, id) = Said(path, a, id) \o Said(path, b, id)
<1> DEFINE x == Kept(path, a, id)
           y == Kept(path, b, id)
<1>1. x \in Seq(Attribute) /\ y \in Seq(Attribute) /\ Kept(path, a \o b, id) = x \o y
  BY KeptType, KeptConcat
<1> HIDE DEF x, y
<1>2. Written(x \o y) = Written(x) \o Written(y)
  BY <1>1, WrittenConcat
<1>3. Written(x) \in Row(Field) /\ Written(y) \in Row(Field)
  BY <1>1, WrittenType
<1>4. Under(path, Written(x) \o Written(y)) = Under(path, Written(x)) \o Under(path, Written(y))
  BY <1>3, UnderConcat
<1> QED BY <1>1, <1>2, <1>4, Zenon DEF Said, x, y

LEMMA SaidEmpty == \A path, id : Said(path, <<>>, id) = <<>>
  BY KeptEmpty, WrittenEmpty, UnderEmpty DEF Said

LEMMA AppendOne ==
    ASSUME NEW S, NEW s \in Seq(S), NEW e \in S
    PROVE  /\ Append(s, e) \in Seq(S) /\ Append(s, e) = s \o <<e>> /\ Append(s, e) # <<>>
           /\ Append(s, e)[1] = IF s = <<>> THEN e ELSE s[1]
<1>1. Append(s, e) \in Seq(S) /\ Append(s, e) = s \o <<e>> /\ Append(s, e) # <<>>
  BY AppendIsConcat
<1>2. CASE s = <<>>
  BY <1>1, <1>2
<1>3. CASE s # <<>>
  <2>1. 1 \in 1..Len(s)
    BY <1>3
  <2>2. Append(s, e)[1] = s[1]
    BY <2>1, AppendProperties
  <2> QED BY <1>1, <1>3, <2>2
<1> QED BY <1>2, <1>3

LEMMA NameAppended ==
    \A path \in Seq(STRING), g \in STRING : Append(path, g) = path \o <<g>>
  BY AppendIsConcat

(* What is said in a group is said under one name more; and a group that   *)
(* has the id's name at the top is left out with all that is in it.        *)
LEMMA SaidInGroup ==
    ASSUME NEW path \in Seq(STRING), NEW g \in STRING, g # "",
           NEW list \in Seq(Attribute), list # <<>>, NEW id
    PROVE  Said(path, <<GroupOf(g, list)>>, id) = Said(Append(path, g), list, id)
<1> DEFINE x == GroupOf(g, list)
           longer == Append(path, g)
<1>1. /\ x \in Attribute /\ x.key = g /\ Named(g) \in Seq(STRING)
      /\ x.fields = Under(Named(g), Inside(list)) /\ Inside(list) \in Row(Field)
  BY GroupOfType
<1>2. Inside(list) = Written(list) /\ Named(g) = <<g>>
  BY DEF Inside, Named
<1>3. longer \in Seq(STRING) /\ longer = path \o <<g>> /\ longer # <<>>
  BY AppendOne
<1>4. longer[1] = IF path = <<>> THEN g ELSE path[1]
  BY AppendOne
<1> HIDE DEF x, longer
<1>5. Under(path, Written(<<x>>)) = Under(longer, Written(list))
  <2>1. Written(<<x>>) = x.fields
    BY <1>1, WrittenOne
  <2>2. Under(path, Under(<<g>>, Written(list))) = Under(path \o <<g>>, Written(list))
    <3>1. <<g>> \in Seq(STRING) /\ Written(list) \in Row(Field) /\ path \in Seq(STRING)
      BY <1>1, <1>2, Zenon
    <3> QED BY ONLY <3>1, UnderUnder, Zenon
  <2> QED BY <1>1, <1>2, <1>3, <2>1, <2>2
<1>6. CASE id = NoId
  BY <1>5, <1>6, Zenon DEF Said, Kept, x, longer
<1>7. CASE id # NoId
  <2>1. CASE longer[1] = correlationIDAttr
    <3>1. Kept(longer, list, id) = <<>>
      BY <1>3, <1>7, <2>1 DEF Kept
    <3>2. Kept(path, <<x>>, id) = <<>>
      <4>1. CASE path = <<>>
        <5>1. WithoutID(<<x>>) = <<>>
          BY <1>1, <1>4, <2>1, <4>1, WithoutIDOne DEF Left
        <5> QED BY <1>7, <4>1, <5>1 DEF Kept
      <4>2. CASE path # <<>>
        BY <1>4, <1>7, <2>1, <4>2 DEF Kept
      <4> QED BY <4>1, <4>2
    <3> QED BY <3>1, <3>2, WrittenEmpty, UnderEmpty DEF Said, x, longer
  <2>2. CASE longer[1] # correlationIDAttr
    <3>1. Kept(longer, list, id) = list
      BY <1>3, <1>7, <2>2 DEF Kept
    <3>2. Kept(path, <<x>>, id) = <<x>>
      <4>1. CASE path = <<>>
        <5>1. WithoutID(<<x>>) = <<x>>
          BY <1>1, <1>4, <2>2, <4>1, WithoutIDOne DEF Left
        <5> QED BY <1>7, <4>1, <5>1 DEF Kept
      <4>2. CASE path # <<>>
        BY <1>4, <1>7, <2>2, <4>2 DEF Kept
      <4> QED BY <4>1, <4>2
    <3> QED BY <1>5, <3>1, <3>2, Zenon DEF Said, x, longer
  <2> QED BY <2>1, <2>2
<1> QED BY <1>6, <1>7

LEMMA PrefixOfAppend ==
    ASSUME NEW S, NEW s \in Seq(S), NEW e \in S, NEW k \in 0..Len(s)
    PROVE  SubSeq(Append(s, e), 1, k) = SubSeq(s, 1, k) /\ SubSeq(s, 1, k) \in Seq(S)
<1> DEFINE t == Append(s, e)
<1>1. /\ t \in Seq(S) /\ Len(t) = Len(s) + 1 /\ Len(s) \in Nat
      /\ \A i \in 1..Len(s) : t[i] = s[i]
  OBVIOUS
<1> HIDE DEF t
<1>2. \A i \in 1..k : t[i] = s[i] /\ s[i] \in S /\ t[i] \in S
  BY <1>1
<1>3. /\ SubSeq(s, 1, k) \in Seq(S) /\ Len(SubSeq(s, 1, k)) = k
      /\ \A i \in 1..k : SubSeq(s, 1, k)[i] = s[i]
  BY <1>1, <1>2, SubSeqProperties
<1>4. /\ SubSeq(t, 1, k) \in Seq(S) /\ Len(SubSeq(t, 1, k)) = k
      /\ \A i \in 1..k : SubSeq(t, 1, k)[i] = t[i]
  BY <1>1, <1>2, SubSeqProperties
<1>5. SubSeq(t, 1, k) = SubSeq(s, 1, k)
  BY <1>2, <1>3, <1>4, SeqEqual
<1> QED BY <1>3, <1>5 DEF t

(* The names that links open. *)
Opened(goa) == IF goa.group = "" THEN <<>> ELSE <<goa.group>>
OpenedBy(links) == [k \in DOMAIN links |-> Opened(links[k])]

LEMMA OpenedType ==
    ASSUME NEW links \in Seq(Link)
    PROVE  /\ OpenedBy(links) \in Seq(Row(STRING)) /\ Len(OpenedBy(links)) = Len(links)
           /\ PathOf(links) = FlattenSeq(OpenedBy(links))
           /\ PathOf(links) \in Seq(STRING)
<1>1. DOMAIN links = 1..Len(links) /\ Len(links) \in Nat
  OBVIOUS
<1>2. \A k \in 1..Len(links) : Opened(links[k]) \in Row(STRING)
  <2> TAKE k \in 1..Len(links)
  <2>1. links[k] \in Link
    OBVIOUS
  <2>2. links[k].group \in STRING
    BY <2>1 DEF Link
  <2>3. <<links[k].group>> \in Seq(STRING) /\ <<>> \in Seq(STRING)
    BY <2>2, OneIsSeq, EmptySeq
  <2> QED BY <2>3 DEF Opened, Row
<1>3. OpenedBy(links) \in Seq(Row(STRING)) /\ Len(OpenedBy(links)) = Len(links)
  BY <1>1, <1>2 DEF OpenedBy
<1>4. PathOf(links) = FlattenSeq(OpenedBy(links))
  BY Zenon DEF PathOf, OpenedBy, Opened
<1> QED BY <1>3, <1>4, FlattenType DEF Row

LEMMA PathOfAppend ==
    ASSUME NEW links \in Seq(Link), NEW goa \in Link
    PROVE  PathOf(Append(links, goa)) = PathOf(links) \o Opened(goa)
<1> DEFINE long == Append(links, goa)
<1>1. /\ long \in Seq(Link) /\ Len(long) = Len(links) + 1 /\ Len(links) \in Nat
      /\ long[Len(links) + 1] = goa
      /\ \A i \in 1..Len(links) : long[i] = links[i]
  OBVIOUS
<1> HIDE DEF long
<1>2. /\ OpenedBy(long) \in Seq(Row(STRING)) /\ Len(OpenedBy(long)) = Len(links) + 1
      /\ OpenedBy(links) \in Seq(Row(STRING)) /\ Len(OpenedBy(links)) = Len(links)
  BY <1>1, OpenedType
<1>3. Opened(goa) \in Row(STRING)
  <2>1. OpenedBy(long)[Len(links) + 1] \in Row(STRING)
    BY <1>1, <1>2
  <2> QED BY <1>1, <2>1 DEF OpenedBy
<1>4. /\ Append(OpenedBy(links), Opened(goa)) \in Seq(Row(STRING))
      /\ Len(Append(OpenedBy(links), Opened(goa))) = Len(links) + 1
      /\ \A i \in 1..Len(links) : Append(OpenedBy(links), Opened(goa))[i] = OpenedBy(links)[i]
      /\ Append(OpenedBy(links), Opened(goa))[Len(links) + 1] = Opened(goa)
  BY <1>2, <1>3
<1>5. ASSUME NEW i \in 1..Len(links) + 1
      PROVE  OpenedBy(long)[i] = Append(OpenedBy(links), Opened(goa))[i]
  <2>1. OpenedBy(long)[i] = Opened(long[i])
    BY <1>1 DEF OpenedBy
  <2>2. CASE i \in 1..Len(links)
    <3>1. OpenedBy(links)[i] = Opened(links[i])
      BY <2>2 DEF OpenedBy
    <3> QED BY <1>1, <1>4, <2>1, <2>2, <3>1
  <2>3. CASE i = Len(links) + 1
    BY <1>1, <1>4, <2>1, <2>3
  <2>4. i \in 1..Len(links) \/ i = Len(links) + 1
    BY <1>1
  <2> QED BY <2>2, <2>3, <2>4
<1>6. OpenedBy(long) = Append(OpenedBy(links), Opened(goa))
  BY <1>2, <1>4, <1>5, SeqEqual
<1> QED BY <1>1, <1>2, <1>3, <1>6, FlattenAppend, OpenedType DEF long

(* What the links alone ask for. *)
SaidAt(links, k, id) == Said(PathOf(SubSeq(links, 1, k - 1)), links[k].attrs, id)
SaidBy(links, id) == [k \in 1..Len(links) |-> SaidAt(links, k, id)]

LEMMA SaidByType ==
    ASSUME NEW links \in Seq(Link), NEW id
    PROVE  /\ SaidBy(links, id) \in Seq(Row(Field))
           /\ Len(SaidBy(links, id)) = Len(links)
<1>1. \A k \in 1..Len(links) : SaidAt(links, k, id) \in Row(Field)
  <2> TAKE k \in 1..Len(links)
  <2>1. links[k] \in Link /\ k - 1 \in 0..Len(links)
    OBVIOUS
  <2>2. SubSeq(links, 1, k - 1) \in Seq(Link)
    BY <2>1, PrefixOfAppend
  <2>3. links[k].attrs \in Seq(Attribute)
    BY <2>1 DEF Link
  <2> QED BY <2>2, <2>3, OpenedType, SaidType DEF SaidAt
<1>2. Len(links) \in Nat
  OBVIOUS
<1> QED BY <1>1, <1>2 DEF SaidBy

LEMMA SaidByAppend ==
    ASSUME NEW links \in Seq(Link), NEW goa \in Link, NEW id
    PROVE  SaidBy(Append(links, goa), id) =
              Append(SaidBy(links, id), Said(PathOf(links), goa.attrs, id))
<1> DEFINE long == Append(links, goa)
           last == Said(PathOf(links), goa.attrs, id)
<1>1. /\ long \in Seq(Link) /\ Len(long) = Len(links) + 1 /\ Len(links) \in Nat
      /\ long[Len(links) + 1] = goa
      /\ \A i \in 1..Len(links) : long[i] = links[i]
  OBVIOUS
<1>2. \A k \in 0..Len(links) : SubSeq(long, 1, k) = SubSeq(links, 1, k)
  BY PrefixOfAppend
<1>3. SubSeq(links, 1, Len(links)) = links
  BY SubSeqFull
<1> HIDE DEF long
<1>4. goa.attrs \in Seq(Attribute)
  BY DEF Link
<1>5. last \in Row(Field)
  BY <1>4, OpenedType, SaidType
<1>6. /\ SaidBy(long, id) \in Seq(Row(Field)) /\ Len(SaidBy(long, id)) = Len(links) + 1
      /\ SaidBy(links, id) \in Seq(Row(Field)) /\ Len(SaidBy(links, id)) = Len(links)
  BY <1>1, SaidByType
<1>7. SaidAt(long, Len(links) + 1, id) = last
  <2>1. SubSeq(long, 1, (Len(links) + 1) - 1) = links
    BY <1>1, <1>2, <1>3
  <2> QED BY <1>1, <2>1 DEF SaidAt
<1> HIDE DEF last
<1>8. /\ Append(SaidBy(links, id), last) \in Seq(Row(Field))
      /\ Len(Append(SaidBy(links, id), last)) = Len(links) + 1
      /\ \A i \in 1..Len(links) : Append(SaidBy(links, id), last)[i] = SaidBy(links, id)[i]
      /\ Append(SaidBy(links, id), last)[Len(links) + 1] = last
  BY <1>5, <1>6
<1>9. ASSUME NEW i \in 1..Len(links) + 1
      PROVE  SaidBy(long, id)[i] = Append(SaidBy(links, id), last)[i]
  <2>1. SaidBy(long, id)[i] = SaidAt(long, i, id)
    BY <1>1 DEF SaidBy
  <2>2. CASE i \in 1..Len(links)
    <3>1. SaidBy(links, id)[i] = SaidAt(links, i, id)
      BY <2>2 DEF SaidBy
    <3>2. i - 1 \in 0..Len(links)
      BY <1>1, <2>2
    <3>3. SaidAt(long, i, id) = SaidAt(links, i, id)
      BY <1>1, <1>2, <2>2, <3>2 DEF SaidAt
    <3> QED BY <1>8, <2>1, <2>2, <3>1, <3>3
  <2>3. CASE i = Len(links) + 1
    BY <1>7, <1>8, <2>1, <2>3
  <2>4. i \in 1..Len(links) \/ i = Len(links) + 1
    BY <1>1
  <2> QED BY <2>2, <2>3, <2>4
<1>10. SaidBy(long, id) = Append(SaidBy(links, id), last)
  BY <1>6, <1>8, <1>9, SeqEqual
<1> QED BY <1>10 DEF long, last

Context(id) == IF id = NoId THEN <<>> ELSE Plain(correlationIDAttr, id).fields

LEMMA AskedIs ==
    ASSUME NEW links \in Seq(Link), NEW attrs \in Seq(Attribute), NEW id
    PROVE  Asked(links, attrs, id) =
              (FlattenSeq(SaidBy(links, id)) \o Said(PathOf(links), attrs, id)) \o Context(id)
<1> DEFINE n == Len(links)
           At(k) == Said(PathOf(SubSeq(links, 1, k - 1)),
                         IF k > n THEN attrs ELSE links[k].attrs, id)
           all == [k \in 1..n + 1 |-> At(k)]
           last == Said(PathOf(links), attrs, id)
           some == SaidBy(links, id)
<1>1. Asked(links, attrs, id) = FlattenSeq(all) \o Context(id)
  BY Zenon DEF Asked, Context
<1>2. n \in Nat /\ some \in Seq(Row(Field)) /\ Len(some) = n /\ last \in Row(Field)
  BY SaidByType, OpenedType, SaidType
<1>3. \A k \in 1..n : At(k) = some[k]
  BY DEF SaidBy, SaidAt
<1>4. At(n + 1) = last
  <2>1. SubSeq(links, 1, (n + 1) - 1) = links /\ n + 1 > n
    BY SubSeqFull
  <2> QED BY <2>1
<1> HIDE DEF At, last, some, n
<1>5. /\ Append(some, last) \in Seq(Row(Field)) /\ Len(Append(some, last)) = n + 1
      /\ \A k \in 1..n : Append(some, last)[k] = some[k]
      /\ Append(some, last)[n + 1] = last
  BY <1>2
<1>6. \A k \in 1..n + 1 : At(k) = Append(some, last)[k] /\ At(k) \in Row(Field)
  <2> TAKE k \in 1..n + 1
  <2>1. k \in 1..n \/ k = n + 1
    BY <1>2
  <2>2. At(k) = Append(some, last)[k]
    BY <1>3, <1>4, <1>5, <2>1
  <2> QED BY <1>5, <2>2
<1>7. all \in Seq(Row(Field)) /\ Len(all) = n + 1 /\ \A k \in 1..n + 1 : all[k] = At(k)
  BY <1>2, <1>6
<1> HIDE DEF all
<1>8. all = Append(some, last)
  BY <1>5, <1>6, <1>7, SeqEqual
<1>9. FlattenSeq(all) = FlattenSeq(some) \o last
  BY <1>2, <1>8, FlattenAppend
<1> QED BY <1>1, <1>9 DEF some, last

(* A link asks for what its enclosing of the rest does. *)
LEMMA AskedAppend ==
    ASSUME NEW links \in Seq(Link), NEW goa \in Link, NEW attrs \in Seq(Attribute), NEW id
    PROVE  Asked(Append(links, goa), attrs, id) = Asked(links, Enclose(goa, attrs), id)
<1> DEFINE long == Append(links, goa)
           path == PathOf(links)
           before == FlattenSeq(SaidBy(links, id))
<1>1. /\ long \in Seq(Link) /\ path \in Seq(STRING) /\ before \in Row(Field)
      /\ PathOf(long) = path \o Opened(goa) /\ PathOf(long) \in Seq(STRING)
  <2>1. long \in Seq(Link)
    OBVIOUS
  <2>2. before \in Row(Field)
    BY SaidByType, FlattenType
  <2> QED BY <2>1, <2>2, OpenedType, PathOfAppend
<1>2. goa.attrs \in Seq(Attribute) /\ goa.group \in STRING /\ (goa.group = "" \/ goa.attrs = <<>>)
  BY DEF Link
<1>3. Enclose(goa, attrs) \in Seq(Attribute)
  BY EncloseType
<1>4. /\ Said(path, goa.attrs, id) \in Row(Field)
      /\ Said(PathOf(long), attrs, id) \in Row(Field)
  BY <1>1, <1>2, SaidType
<1>5. FlattenSeq(SaidBy(long, id)) = before \o Said(path, goa.attrs, id)
  <2>1. SaidBy(links, id) \in Seq(Row(Field))
    BY SaidByType
  <2> QED BY <1>4, <2>1, SaidByAppend, FlattenAppend
<1>6. Said(path, goa.attrs, id) \o Said(PathOf(long), attrs, id) = Said(path, Enclose(goa, attrs), id)
  <2> HIDE DEF path, long
  <2>1. CASE goa.group = ""
    <3>1. PathOf(long) = path
      <4>1. Opened(goa) = <<>>
        BY <2>1 DEF Opened
      <4>2. path \o <<>> = path
        BY <1>1
      <4> QED BY <1>1, <4>1, <4>2
    <3> QED BY <1>1, <1>2, <2>1, <3>1, SaidConcat DEF Enclose
  <2>2. CASE goa.group # ""
    <3>1. Said(path, goa.attrs, id) = <<>>
      BY <1>2, <2>2, SaidEmpty
    <3>2. PathOf(long) = Append(path, goa.group)
      <4>1. Opened(goa) = <<goa.group>>
        BY <2>2 DEF Opened
      <4>2. Append(path, goa.group) = path \o <<goa.group>>
        BY <1>1, <1>2, NameAppended
      <4> QED BY <1>1, <4>1, <4>2
    <3>3. <<>> \o Said(PathOf(long), attrs, id) = Said(PathOf(long), attrs, id)
      BY <1>4 DEF Row
    <3>4. Said(PathOf(long), attrs, id) = Said(path, Enclose(goa, attrs), id)
      <4>1. CASE attrs = <<>>
        BY <2>2, <4>1, SaidEmpty DEF Enclose
      <4>2. CASE attrs # <<>>
        <5>1. Enclose(goa, attrs) = <<GroupOf(goa.group, attrs)>>
          BY <2>2, <4>2 DEF Enclose
        <5>2. Said(path, <<GroupOf(goa.group, attrs)>>, id) = Said(Append(path, goa.group), attrs, id)
          <6>1. /\ path \in Seq(STRING) /\ goa.group \in STRING /\ goa.group # ""
                /\ attrs \in Seq(Attribute) /\ attrs # <<>>
            BY <1>1, <1>2, <2>2, <4>2
          <6> QED BY ONLY <6>1, SaidInGroup, Zenon
        <5> QED BY <3>2, <5>1, <5>2
      <4> QED BY <4>1, <4>2
    <3> QED BY <3>1, <3>3, <3>4
  <2> QED BY <2>1, <2>2
<1>7. Asked(long, attrs, id) =
        ((before \o Said(path, goa.attrs, id)) \o Said(PathOf(long), attrs, id)) \o Context(id)
  BY <1>1, <1>5, AskedIs
<1>8. Asked(links, Enclose(goa, attrs), id) = (before \o Said(path, Enclose(goa, attrs), id)) \o Context(id)
  BY <1>3, AskedIs
<1> HIDE DEF long, path, before
<1>9. (before \o Said(path, goa.attrs, id)) \o Said(PathOf(long), attrs, id)
        = before \o (Said(path, goa.attrs, id) \o Said(PathOf(long), attrs, id))
  <2> DEFINE mine == Said(path, goa.attrs, id)
             inner == Said(PathOf(long), attrs, id)
  <2>1. before \in Row(Field) /\ mine \in Row(Field) /\ inner \in Row(Field)
    BY <1>1, <1>4, Zenon
  <2> HIDE DEF mine, inner
  <2>2. (before \o mine) \o inner = before \o (mine \o inner)
    BY <2>1, RowsAssociate
  <2> QED BY <2>2 DEF mine, inner
<1> QED BY <1>6, <1>7, <1>8, <1>9 DEF long


Replayed(links) ==
    \A attrs \in Seq(Attribute) :
        /\ Replay(links, attrs) \in Seq(Attribute)
        /\ \A id : Said(<<>>, Replay(links, attrs), id) \o Context(id) = Asked(links, attrs, id)

(* What the loop makes of the record says what was asked for. *)
LEMMA ReplaySaysAsked == \A links \in Seq(Link) : Replayed(links)
<1> DEFINE Fails(m) == \E links \in Seq(Link) : Len(links) = m /\ ~Replayed(links)
           T == {m \in Nat : Fails(m)}
<1> SUFFICES ASSUME T # {} PROVE FALSE
  <2>1. \A links \in Seq(Link) : Len(links) \in Nat
    OBVIOUS
  <2> QED BY <2>1
<1>1. PICK m \in T : \A y \in T : m <= y
  <2>1. T \subseteq Nat
    OBVIOUS
  <2> HIDE DEF T
  <2> QED BY <2>1, LeastNat
<1>2. PICK links \in Seq(Link) : Len(links) = m /\ ~Replayed(links)
  OBVIOUS
<1>3. CASE links = <<>>
  <2> SUFFICES ASSUME NEW attrs \in Seq(Attribute)
               PROVE  /\ Replay(links, attrs) \in Seq(Attribute)
                      /\ \A id : Said(<<>>, Replay(links, attrs), id) \o Context(id)
                                    = Asked(links, attrs, id)
    BY <1>2, Zenon DEF Replayed
  <2>1. Replay(links, attrs) = attrs
    BY <1>3, ReplayEmpty
  <2>2. ASSUME NEW id
        PROVE  Said(<<>>, attrs, id) \o Context(id) = Asked(links, attrs, id)
    <3>1. SaidBy(links, id) = <<>> /\ OpenedBy(links) = <<>>
      BY <1>3 DEF SaidBy, OpenedBy
    <3>2. PathOf(links) = <<>> /\ FlattenSeq(SaidBy(links, id)) = <<>>
      BY <3>1, OpenedType, FlattenEmpty
    <3>3. <<>> \o Said(<<>>, attrs, id) = Said(<<>>, attrs, id)
      <4>1. <<>> \in Seq(STRING)
        OBVIOUS
      <4>2. Said(<<>>, attrs, id) \in Seq(Field)
        BY <4>1, SaidType DEF Row
      <4> QED BY <4>2, ConcatEmptySeq
    <3>4. Asked(links, attrs, id)
            = (FlattenSeq(SaidBy(links, id)) \o Said(PathOf(links), attrs, id)) \o Context(id)
      BY AskedIs, Zenon
    <3> QED BY <3>2, <3>3, <3>4, Zenon
  <2> QED BY <2>1, <2>2
<1>4. CASE links # <<>>
  <2>1. PICK few \in Seq(Link), goa \in Link : links = Append(few, goa)
    BY <1>4, SequenceEmptyOrAppend
  <2>2. Len(few) \in Nat /\ Len(links) = Len(few) + 1
    BY <2>1
  <2>3. Len(few) \notin T
    <3> HIDE DEF T
    <3> QED BY <1>1, <1>2, <2>2
  <2>4. Replayed(few)
    BY <2>2, <2>3
  <2> HIDE DEF T, Fails
  <2> SUFFICES ASSUME NEW attrs \in Seq(Attribute)
               PROVE  /\ Replay(links, attrs) \in Seq(Attribute)
                      /\ \A id : Said(<<>>, Replay(links, attrs), id) \o Context(id)
                                    = Asked(links, attrs, id)
    BY <1>2, Zenon DEF Replayed
  <2>5. Enclose(goa, attrs) \in Seq(Attribute)
    BY EncloseType
  <2>6. Replay(links, attrs) = Replay(few, Enclose(goa, attrs))
    BY <2>1, ReplayAppend
  <2>7. \A id : Asked(links, attrs, id) = Asked(few, Enclose(goa, attrs), id)
    BY <2>1, AskedAppend
  <2> QED BY <2>4, <2>5, <2>6, <2>7, Zenon DEF Replayed
<1> QED BY <1>3, <1>4

(* Handle, of the links of a logger. *)
Record(links, attrs, id) ==
    IF id = NoId THEN Replay(links, attrs)
    ELSE Append(WithoutID(Replay(links, attrs)), Plain(correlationIDAttr, id))

LEMMA HandleIs == \A l, attrs, id : Handle(l, attrs, id) = Record(Links(l), attrs, id)
  BY Zenon DEF Handle, Record

LEMMA RecordSaysAsked ==
    ASSUME NEW links \in Seq(Link), NEW attrs \in Seq(Attribute), NEW id \in {NoId, Id}
    PROVE  Written(Record(links, attrs, id)) = Asked(links, attrs, id)
<1> DEFINE r == Replay(links, attrs)
<1>1. r \in Seq(Attribute) /\ Said(<<>>, r, id) \o Context(id) = Asked(links, attrs, id)
  BY ReplaySaysAsked, Zenon DEF Replayed
<1> HIDE DEF r
<1>2. <<>> \in Seq(STRING)
  OBVIOUS
<1>3. Said(<<>>, r, id) \in Row(Field)
  BY <1>1, <1>2, SaidType
<1>4. Said(<<>>, r, id) = Written(Kept(<<>>, r, id))
  <2>1. Written(Kept(<<>>, r, id)) \in Row(Field)
    BY <1>1, KeptType, WrittenType
  <2> QED BY <2>1, UnderEmptyPath DEF Said
<1>5. CASE id = NoId
  <2>1. Said(<<>>, r, id) = Written(r) /\ Context(id) = <<>>
    BY <1>4, <1>5 DEF Kept, Context
  <2>2. Said(<<>>, r, id) \o <<>> = Said(<<>>, r, id)
    BY <1>3 DEF Row
  <2> QED BY <1>1, <1>5, <2>1, <2>2 DEF Record, r
<1>6. CASE id # NoId
  <2>1. Said(<<>>, r, id) = Written(WithoutID(r)) /\ Context(id) = Plain(correlationIDAttr, id).fields
    BY <1>4, <1>6 DEF Kept, Context
  <2>2. WithoutID(r) \in Seq(Attribute)
    BY <1>1, LeftOfType DEF Row
  <2>3. Plain(correlationIDAttr, id) \in Attribute
    <3>1. correlationIDAttr \in STRING /\ id \in STRING
      BY <1>6, NamesAssumption
    <3> QED BY <3>1, PlainType
  <2> DEFINE p == Plain(correlationIDAttr, id)
             w == WithoutID(r)
  <2> HIDE DEF p, w
  <2>4. <<p>> \in Seq(Attribute) /\ Append(w, p) = w \o <<p>>
    BY <2>2, <2>3, AppendOne, OneIsSeq DEF p, w
  <2>5. Written(Append(w, p)) = Written(w) \o p.fields
    BY <2>2, <2>3, <2>4, WrittenConcat, WrittenOne DEF p, w
  <2> QED BY <1>1, <1>6, <2>1, <2>5, Zenon DEF Record, r, p, w
<1> QED BY <1>5, <1>6

(* No attribute that is left has the id's name, but for what an attribute  *)
(* without a name has inlined.                                             *)
Shadows(x) ==
    \E n \in DOMAIN x.fields :
        x.fields[n].path = <<>> /\ x.fields[n].key = correlationIDAttr

LEMMA FirstOfOne == \A S : \A e \in S : Append(<<>>, e)[1] = e
<1> SUFFICES ASSUME NEW S, NEW e \in S PROVE Append(<<>>, e)[1] = e
  OBVIOUS
<1>1. <<>> \in Seq(S) /\ Len(<<>>) = 0
  BY EmptySeq
<1> QED BY <1>1, AppendProperties

LEMMA LeftIsUnshadowed ==
    ASSUME NEW x \in Attribute, x.key # correlationIDAttr, x.key # ""
    PROVE  ~Shadows(x)
<1> SUFFICES ASSUME NEW n \in DOMAIN x.fields,
                    x.fields[n].path = <<>>, x.fields[n].key = correlationIDAttr
             PROVE  FALSE
  BY DEF Shadows
<1>1. n \in 1..Len(x.fields)
  <2>1. x.fields \in Seq(Field)
    BY AttributeParts DEF Row
  <2> QED BY <2>1, LenProperties, Zenon
<1>2. x.key = Append(x.fields[n].path, x.fields[n].key)[1]
  BY <1>1, AttributeParts
<1>3. Append(<<>>, correlationIDAttr)[1] = correlationIDAttr
  <2>1. correlationIDAttr \in STRING
    BY NamesAssumption
  <2> QED BY <2>1, FirstOfOne, Zenon
<1> QED BY <1>2, <1>3

Others == {x \in Attribute : x.key # correlationIDAttr}

LEMMA OthersAreLeft ==
    ASSUME NEW list \in Seq(Attribute) PROVE WithoutID(list) \in Seq(Others)
<1>1. DOMAIN list = 1..Len(list) /\ Len(list) \in Nat
  OBVIOUS
<1>2. \A k \in 1..Len(list) : Left(list[k]) \in Row(Others)
  <2> TAKE k \in 1..Len(list)
  <2>1. list[k] \in Attribute
    OBVIOUS
  <2>2. CASE list[k].key = correlationIDAttr
    BY <2>2, EmptySeq DEF Left, Row
  <2>3. CASE list[k].key # correlationIDAttr
    <3>1. list[k] \in Others
      BY <2>1, <2>3 DEF Others
    <3>2. <<list[k]>> \in Seq(Others)
      BY <3>1, OneIsSeq
    <3> QED BY <2>3, <3>2 DEF Left, Row
  <2> QED BY <2>2, <2>3
<1>3. LeftOf(list) \in Seq(Row(Others))
  BY <1>1, <1>2 DEF LeftOf
<1>4. WithoutID(list) = FlattenSeq(LeftOf(list))
  BY LeftOfType
<1> QED BY <1>3, <1>4, FlattenType DEF Row

CarriesContext(out) ==
    /\ out[Len(out)] = Plain(correlationIDAttr, Id)
    /\ \A k \in 1..Len(out) - 1 : Shadows(out[k]) => out[k].key = ""

LEMMA RecordCarriesContext ==
    ASSUME NEW links \in Seq(Link), NEW attrs \in Seq(Attribute)
    PROVE  CarriesContext(Record(links, attrs, Id))
<1> DEFINE w == WithoutID(Replay(links, attrs))
           p == Plain(correlationIDAttr, Id)
           out == Record(links, attrs, Id)
<1>1. w \in Seq(Others)
  BY ReplaySaysAsked, OthersAreLeft DEF Replayed
<1>2. out = Append(w, p)
  BY NamesAssumption DEF Record
<1> HIDE DEF w, p, out
<1>3. /\ Len(out) = Len(w) + 1 /\ out[Len(w) + 1] = p /\ Len(w) \in Nat
      /\ \A k \in 1..Len(w) : out[k] = w[k]
  BY <1>1, <1>2
<1>4. ASSUME NEW k \in 1..Len(out) - 1, Shadows(out[k]) PROVE out[k].key = ""
  <2>1. k \in 1..Len(w)
    BY <1>3
  <2>2. out[k] \in Others
    <3>1. w[k] \in Others
      BY <1>1, <2>1
    <3> QED BY <1>3, <2>1, <3>1
  <2>3. out[k] \in Attribute /\ out[k].key # correlationIDAttr
    BY <2>2 DEF Others
  <2> QED BY <1>4, <2>3, LeftIsUnshadowed
<1>5. out[Len(out)] = p
  BY <1>3
<1> QED BY <1>4, <1>5 DEF p, out, CarriesContext

----------------------------------------------------------------------------
(* The loggers                                                             *)

(* The inductive invariant: the slice of a logger reads, in the array it   *)
(* is in, the links the logger was derived with.                           *)
LogInv ==
    /\ arrays \in Seq(Row(Link))
    /\ loggers \in Seq([array: Nat, len: Nat])
    /\ derived \in Seq(Row(Link))
    /\ Len(derived) = Len(loggers)
    /\ \A l \in 1..Len(loggers) :
          /\ loggers[l].array \in 1..Len(arrays)
          /\ Links(l) = derived[l]
          /\ Len(derived[l]) = loggers[l].len

LEMMA LogInitInv == LogInit => LogInv
<1> SUFFICES ASSUME LogInit PROVE LogInv
  OBVIOUS
<1>1. arrays = << <<>> >> /\ loggers = <<[array |-> 1, len |-> 0]>> /\ derived = << <<>> >>
  BY DEF LogInit
<1>2. <<>> \in Row(Link) /\ Len(<<>>) = 0
  BY DEF Row
<1>3. arrays \in Seq(Row(Link)) /\ derived \in Seq(Row(Link))
  BY <1>1, <1>2, OneIsSeq
<1>4. loggers \in Seq([array: Nat, len: Nat])
  BY <1>1
<1>5. \A l \in 1..Len(loggers) :
        /\ loggers[l].array = 1 /\ loggers[l].len = 0 /\ l = 1
        /\ Len(arrays) = 1 /\ derived[l] = <<>>
  BY <1>1
<1>6. \A l \in 1..Len(loggers) : Links(l) = <<>>
  BY <1>5, SubSeqEmpty DEF Links
<1>7. Len(derived) = Len(loggers)
  BY <1>1
<1> QED BY <1>2, <1>3, <1>4, <1>5, <1>6, <1>7 DEF LogInv

LEMMA DeriveInv ==
    ASSUME LogInv, NEW l \in DOMAIN loggers, NEW goa \in Link, Derive(l, goa)
    PROVE  LogInv' /\ \A m \in DOMAIN loggers : Links(m)' = Links(m)
<1> DEFINE n == Len(loggers)
           a == Len(arrays)
           new == [array |-> a + 1, len |-> loggers[l].len + 1]
           row == Append(derived[l], goa)
<1>1. /\ arrays \in Seq(Row(Link)) /\ loggers \in Seq([array: Nat, len: Nat])
      /\ derived \in Seq(Row(Link)) /\ Len(derived) = n /\ n \in Nat /\ a \in Nat
      /\ DOMAIN loggers = 1..n /\ l \in 1..n
  BY DEF LogInv
<1>2. \A m \in 1..n : /\ loggers[m].array \in 1..a /\ Links(m) = derived[m]
                      /\ Len(derived[m]) = loggers[m].len
  BY DEF LogInv
<1>3. /\ arrays' = Append(arrays, row) /\ loggers' = Append(loggers, new)
      /\ derived' = Append(derived, row)
  BY <1>1, <1>2 DEF Derive, withGoa
<1>4. derived[l] \in Seq(Link) /\ loggers[l].len \in Nat
  <2>1. derived[l] \in Row(Link)
    BY <1>1
  <2>2. loggers[l] \in [array: Nat, len: Nat]
    BY <1>1, ElementOfSeq, Zenon
  <2> QED BY <2>1, <2>2 DEF Row
<1>5. /\ row \in Row(Link) /\ Len(row) = loggers[l].len + 1
  BY <1>1, <1>2, <1>4 DEF Row
<1>6. new \in [array: Nat, len: Nat] /\ new.array = a + 1 /\ new.len = loggers[l].len + 1
  BY <1>1, <1>4
<1> HIDE DEF n, a, new, row
<1>7. /\ arrays' \in Seq(Row(Link)) /\ Len(arrays)' = a + 1 /\ arrays'[a + 1] = row
      /\ \A k \in 1..a : arrays'[k] = arrays[k]
  BY <1>1, <1>3, <1>5, AppendProperties DEF a
<1>8. /\ loggers' \in Seq([array: Nat, len: Nat]) /\ Len(loggers)' = n + 1
      /\ loggers'[n + 1] = new /\ \A m \in 1..n : loggers'[m] = loggers[m]
  BY <1>1, <1>3, <1>6, AppendProperties DEF n
<1>9. /\ derived' \in Seq(Row(Link)) /\ Len(derived)' = n + 1
      /\ derived'[n + 1] = row /\ \A m \in 1..n : derived'[m] = derived[m]
  BY <1>1, <1>3, <1>5, AppendProperties
<1>10. \A m \in 1..n : Links(m)' = Links(m)
  BY <1>2, <1>7, <1>8 DEF Links
<1>11. ASSUME NEW m \in 1..n + 1
       PROVE  /\ loggers'[m].array \in 1..Len(arrays)'
              /\ Links(m)' = derived'[m]
              /\ Len(derived'[m]) = loggers'[m].len
  <2>1. m \in 1..n \/ m = n + 1
    BY <1>1
  <2>2. CASE m \in 1..n
    <3>1. loggers'[m] = loggers[m] /\ derived'[m] = derived[m] /\ Links(m)' = Links(m)
      BY <1>8, <1>9, <1>10, <2>2, Zenon
    <3>2. /\ loggers[m].array \in 1..a /\ Links(m) = derived[m]
          /\ Len(derived[m]) = loggers[m].len
      BY <1>2, <2>2, Zenon
    <3>3. 1..a \subseteq 1..Len(arrays)'
      BY <1>1, <1>7
    <3> QED BY <3>1, <3>2, <3>3, Zenon
  <2>3. CASE m = n + 1
    <3>1. loggers'[m].array = a + 1 /\ loggers'[m].len = Len(row)
      BY <1>5, <1>6, <1>8, <2>3
    <3>2. a + 1 \in 1..Len(arrays)'
      BY <1>1, <1>7
    <3>3. arrays'[loggers'[m].array] = row
      BY <1>7, <3>1
    <3>4. Links(m)' = SubSeq(row, 1, Len(row))
      BY <3>1, <3>3, Zenon DEF Links
    <3>5. Links(m)' = row /\ derived'[m] = row
      BY <1>5, <1>9, <2>3, <3>4, SubSeqFull DEF Row
    <3> QED BY <3>1, <3>2, <3>5, Zenon
  <2> QED BY <2>1, <2>2, <2>3
<1>12. LogInv'
  BY <1>7, <1>8, <1>9, <1>11 DEF LogInv
<1> QED BY <1>1, <1>10, <1>12

LEMMA LinksAreLinks ==
    /\ \A g \in Groups : GroupLink(g) \in Link
    /\ \A list \in AttrLists : AttrsLink(list) \in Link
<1>1. ASSUME NEW g \in Groups PROVE GroupLink(g) \in Link
  <2>1. g \in STRING /\ <<>> \in Seq(Attribute)
    BY NamesAssumption, EmptySeq
  <2> QED BY <2>1 DEF GroupLink, Link
<1>2. ASSUME NEW list \in AttrLists PROVE AttrsLink(list) \in Link
  <2>1. NoId \in STRING /\ list \in Seq(Attribute)
    BY NamesAssumption, AttrsAssumption
  <2> QED BY <2>1 DEF AttrsLink, Link, NoId
<1> QED BY <1>1, <1>2

LEMMA LogNextInv ==
    ASSUME LogInv, LogNext
    PROVE  LogInv' /\ \A m \in DOMAIN loggers : Links(m)' = Links(m)
<1>1. PICK l \in DOMAIN loggers :
        \/ \E g \in Groups : WithGroup(l, g)
        \/ \E list \in AttrLists : WithAttrs(l, list)
  BY DEF LogNext
<1>2. CASE \E g \in Groups : WithGroup(l, g)
  BY <1>2, LinksAreLinks, DeriveInv DEF WithGroup
<1>3. CASE \E list \in AttrLists : WithAttrs(l, list)
  BY <1>3, LinksAreLinks, DeriveInv DEF WithAttrs
<1> QED BY <1>1, <1>2, <1>3

LEMMA LogStepInv == LogInv /\ [LogNext]_logVars => LogInv'
<1>1. ASSUME LogInv, UNCHANGED logVars PROVE LogInv'
  BY <1>1 DEF LogInv, logVars, Links
<1> QED BY <1>1, LogNextInv

(* A logger has the links it was derived with, whatever other goroutines   *)
(* have derived from the same parent since: withGoa copies.                *)
THEOREM LoggersAsDerived == LogSpec => []LogInv
  BY LogInitInv, LogStepInv, PTL DEF LogSpec

(* No derivation changes the links of a logger already there.              *)
THEOREM LoggersUndisturbed ==
    LogSpec => [][\A m \in DOMAIN loggers : Links(m)' = Links(m)]_logVars
<1>1. LogInv /\ [LogNext]_logVars
        => [\A m \in DOMAIN loggers : Links(m)' = Links(m)]_logVars
  BY LogNextInv
<1> QED BY <1>1, LoggersAsDerived, PTL DEF LogSpec

LEMMA LinksDerived ==
    ASSUME LogInv, NEW l \in DOMAIN loggers
    PROVE  Links(l) = derived[l] /\ derived[l] \in Seq(Link)
<1>1. l \in 1..Len(loggers)
  BY DEF LogInv
<1>2. derived[l] \in Row(Link)
  BY <1>1 DEF LogInv
<1> QED BY <1>1, <1>2 DEF LogInv, Row

(* For links of any number, nested in any way, and attributes of any shape:*)
(* Handle's record says what the logger's own derivation asks for, every   *)
(* attribute in its groups and in order.                                   *)
THEOREM RecordsAsDerived == LogSpec => []RecordIsAsDerived
<1>1. LogInv => RecordIsAsDerived
  <2> SUFFICES ASSUME LogInv, NEW l \in DOMAIN loggers, NEW attrs \in AttrLists,
                      NEW id \in {NoId, Id}
               PROVE  Written(Handle(l, attrs, id)) = Asked(derived[l], attrs, id)
    BY Zenon DEF RecordIsAsDerived
  <2>1. attrs \in Seq(Attribute)
    BY AttrsAssumption
  <2> QED BY <2>1, LinksDerived, HandleIs, RecordSaysAsked, Zenon
<1> QED BY <1>1, LoggersAsDerived, PTL

(* Whatever the links and the record carry, Handle's last attribute is the *)
(* context's id, and no named attribute before it says anything under that *)
(* name at the top level.                                                  *)
THEOREM ContextWins == LogSpec => []ContextIdWins
<1>1. ASSUME LogInv, NEW l \in DOMAIN loggers, NEW attrs \in AttrLists
      PROVE  CarriesContext(Handle(l, attrs, Id))
  <2>1. attrs \in Seq(Attribute)
    BY AttrsAssumption
  <2>2. Handle(l, attrs, Id) = Record(derived[l], attrs, Id)
    BY <1>1, LinksDerived, HandleIs, Zenon
  <2> QED BY <1>1, <2>1, <2>2, LinksDerived, RecordCarriesContext, Zenon
<1>2. LogInv => ContextIdWins
  BY <1>1, Zenon DEF ContextIdWins, CarriesContext, Shadows
<1> QED BY <1>2, LoggersAsDerived, PTL

============================================================================
