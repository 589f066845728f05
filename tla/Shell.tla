------------------------------- MODULE Shell --------------------------------
(***************************************************************************)
(* The HTTP shell: cmd/chainbind-api (wiring, serving, shutdown) around    *)
(* the handlers of internal/adapters/http, over the Vault signer.          *)
(*                                                                         *)
(* A request is a call of VaultSigner: the signer's part of a seal is that *)
(* module's, step by step.  A handler's step ends where it waits for       *)
(* someone else: the realm's keys, the intent authority, Vault, or its own *)
(* client, whose body has no read deadline.  Every remote call answers or  *)
(* fails within its deadline.                                              *)
(*                                                                         *)
(* Time matters only to a shutdown, so it passes only during one, in ticks *)
(* of five seconds: a call begun before it has less than its deadline left.*)
(* GET /health changes nothing and asks nobody; it is left out.            *)
(***************************************************************************)
EXTENDS VaultSigner, FiniteSets, Sequences

CONSTANTS
    SegmentNames,   \* the audiences the profile splits a payload into
    Rosters         \* what the audiences file may hold: names, in order

(* Mutant: half the time the remote calls are allowed. *)
shutdownGraceHalved == 1

shutdownGrace == 2          \* 10 s

callTimeout == 2            \* startupTimeout, 10 s: the adapters' deadline

VARIABLES
    server,         \* "off", "wiring", "serving" or "draining"
    roster,         \* the audiences loaded at wiring
    listener,       \* of ListenAndServe: "off", "starting", "accepting", "ended"
    serveErr,       \* what it left in the channel: Nil, "closed" or "error"
    signalled,      \* SIGTERM or SIGINT has been delivered to NotifyContext
    grace,          \* ticks left of a shutdown
    exit,           \* how the last process ended: Nil, "clean", "error", "killed"
    route, at, status,  \* of each request: its route, step and HTTP status
    answers,        \* answers[c]: what the parties it asked have granted
    left,           \* left[c]: ticks left of the remote call it waits for
    late            \* history: requests that began a remote call in a shutdown

main     == <<server, roster, listener, serveErr, signalled, grace, exit>>
requests == <<route, at, status, answers, left, late>>
shellVars == <<vars, main, requests>>

Routes == {"seal", "verify", "ready"}
Remote == {"authorize", "check", "hash", "sign", "level2", "vault", "authority"}
Local  == {"segments", "kid"}
Active == Remote \cup Local \cup {"body"}

ShellInit ==
    /\ Init
    /\ server = "off" /\ roster = <<>> /\ listener = "off" /\ serveErr = Nil
    /\ signalled = FALSE /\ grace = 0 /\ exit = Nil
    /\ route = [c \in Calls |-> Nil]
    /\ at = [c \in Calls |-> "idle"]
    /\ status = [c \in Calls |-> 0]
    /\ answers = [c \in Calls |-> {}]
    /\ left = [c \in Calls |-> 0]
    /\ late = {}

----------------------------------------------------------------------------
(* A request's way through its handler                                     *)

(* The handler turns to a step; a remote call starts its deadline.         *)
Turn(c, step) ==
    /\ at' = [at EXCEPT ![c] = step]
    /\ left' = [left EXCEPT ![c] = IF step \in Remote THEN callTimeout ELSE 0]
    /\ late' = IF server = "draining" /\ step \in Remote THEN late \cup {c} ELSE late
    /\ UNCHANGED <<main, route, status>>

Reply(c, code) ==
    /\ at' = [at EXCEPT ![c] = "done"]
    /\ left' = [left EXCEPT ![c] = 0]
    /\ status' = [status EXCEPT ![c] = code]
    /\ UNCHANGED <<main, route, late>>

Granted(c, what) == answers' = [answers EXCEPT ![c] = @ \cup {what}]

Arrive(c, r) ==
    /\ server = "serving" /\ listener = "accepting" /\ at[c] = "idle"
    /\ route' = [route EXCEPT ![c] = r]
    /\ at' = [at EXCEPT ![c] = CASE r = "seal"   -> "authorize"
                                 [] r = "verify" -> "body"
                                 [] r = "ready"  -> "vault"]
    /\ left' = [left EXCEPT ![c] = IF r = "verify" THEN 0 ELSE callTimeout]
    /\ UNCHANGED <<vars, main, status, answers, late>>

(* Mutant: only a missing role is refused, an outage of the realm lets in. *)
AuthorizeFailingOpen(c) ==
    /\ at[c] = "authorize"
    /\ \/ Reply(c, 403) /\ UNCHANGED answers
       \/ Turn(c, "body") /\ UNCHANGED answers
       \/ Turn(c, "body") /\ Granted(c, "role")
    /\ UNCHANGED vars

(* requireIssuerAdmin, before a byte of the body is read: any failure that *)
(* is not a missing role, an outage of the realm included, is a 401.       *)
Authorize(c) ==
    /\ at[c] = "authorize"
    /\ \/ Reply(c, 401) /\ UNCHANGED answers
       \/ Reply(c, 403) /\ UNCHANGED answers
       \/ Turn(c, "body") /\ Granted(c, "role")
    /\ UNCHANGED vars

(* checkAudiences: every audience has a segment and no other's name.       *)
AudiencesPass(names) ==
    /\ names # <<>>
    /\ \A i \in DOMAIN names : names[i] \in SegmentNames
    /\ \A i, j \in DOMAIN names : names[i] = names[j] => i = j

(* SegmentsRoot, over the profile's order: an audience for every segment.  *)
RootFits(names) == \A s \in SegmentNames : \E i \in DOMAIN names : names[i] = s

(* Mutant: the roster is not looked at before the authority is asked. *)
BodyArrivesUnchecked(c) ==
    /\ at[c] = "body"
    /\ \/ \E code \in {415, 400} : Reply(c, code)
       \/ Turn(c, IF route[c] = "seal" THEN "check" ELSE "level2")
    /\ UNCHANGED <<vars, answers>>

(* The client's body arrives, and with it everything the handler can judge *)
(* before it asks anybody.                                                 *)
BodyArrives(c) ==
    /\ at[c] = "body"
    /\ \/ \E code \in {415, 400} : Reply(c, code)
       \/ /\ route[c] = "seal"
          /\ IF AudiencesPass(roster) THEN Turn(c, "check") ELSE Reply(c, 502)
       \/ /\ route[c] = "verify"
          /\ \/ Turn(c, "level2")
             \/ Reply(c, 422)       \* an unsupported spec_version
             \/ Reply(c, 200)       \* a report that stops before Level 2
    /\ UNCHANGED <<vars, answers>>

Check(c) ==
    /\ at[c] = "check"
    /\ \/ Reply(c, 502) /\ UNCHANGED answers
       \/ Reply(c, 422) /\ Granted(c, "denied")
       \/ Turn(c, "hash") /\ Granted(c, "allowed")
    /\ UNCHANGED vars

(* Mutant: when the authority fails, both questions are asked again. *)
ConstraintsHashRetrying(c) ==
    /\ at[c] = "hash"
    /\ \/ Turn(c, "check") /\ UNCHANGED answers
       \/ Turn(c, "segments") /\ Granted(c, "hash")
    /\ UNCHANGED vars

ConstraintsHash(c) ==
    /\ at[c] = "hash"
    /\ \/ Reply(c, 502) /\ UNCHANGED answers
       \/ Turn(c, "segments") /\ Granted(c, "hash")
    /\ UNCHANGED vars

(* The rest of Seal up to the signer; without the entropy it needs, or for *)
(* a roster that leaves a segment without audience, it fails here.         *)
SealSegments(c) ==
    /\ at[c] = "segments"
    /\ \/ Reply(c, 502)
       \/ RootFits(roster) /\ Turn(c, "kid")
    /\ UNCHANGED <<vars, answers>>

AskKid(c)        == at[c] = "kid" /\ Kid(c) /\ Turn(c, "sign") /\ UNCHANGED answers
VaultAnswers(c)  == VaultSigns(c) /\ UNCHANGED <<main, requests>>
ReturnPackage(c) == Sign(c) /\ Reply(c, 200) /\ UNCHANGED answers
SigningFails(c)  == SignFails(c) /\ Reply(c, 502) /\ UNCHANGED answers

(* Verify's report is a 200 whatever it says, an authority that does not   *)
(* answer included.                                                        *)
Level2(c) == at[c] = "level2" /\ Reply(c, 200) /\ UNCHANGED <<vars, answers>>

(* /ready asks in order and names the first that fails.                    *)
Probe(c) ==
    /\ \/ at[c] \in {"vault", "authority"} /\ Reply(c, 503) /\ UNCHANGED answers
       \/ at[c] = "vault" /\ Turn(c, "authority") /\ Granted(c, "vault")
       \/ at[c] = "authority" /\ Reply(c, 200) /\ Granted(c, "authority")
    /\ UNCHANGED vars

HandlerStep(c) ==
    \/ Authorize(c) \/ Check(c) \/ ConstraintsHash(c) \/ SealSegments(c)
    \/ AskKid(c) \/ VaultAnswers(c) \/ ReturnPackage(c) \/ SigningFails(c)
    \/ Level2(c) \/ Probe(c)

----------------------------------------------------------------------------
(* main: run and serveUntilSignal                                          *)

(* However the process ends, the requests it was serving get no response.  *)
End(how) ==
    /\ Crash
    /\ server' = "off" /\ roster' = <<>> /\ listener' = "off" /\ serveErr' = Nil
    /\ signalled' = FALSE /\ grace' = 0 /\ exit' = how
    /\ at' = [c \in Calls |-> IF at[c] \in Active THEN "cut" ELSE at[c]]
    /\ left' = [c \in Calls |-> 0]
    /\ late' = {}
    /\ UNCHANGED <<route, status, answers>>

Start ==
    /\ StartProcess
    /\ server' = "wiring" /\ exit' = Nil
    /\ UNCHANGED <<roster, listener, serveErr, signalled, grace, requests>>

(* New, while Vault composes and sends the key's metadata.                 *)
PinKey == (DescribeKey \/ New) /\ UNCHANGED <<main, requests>>

(* LoadAudiences takes any well-formed file: a roster is not compared with *)
(* the profile it will be used for.                                        *)
Wire(names) ==
    /\ server = "wiring" /\ process = "up"
    /\ roster' = names
    /\ server' = "serving" /\ listener' = "starting"
    /\ UNCHANGED <<vars, serveErr, signalled, grace, exit, requests>>

(* Configuration, Vault or the audiences file is not as needed.            *)
WiringFails == server = "wiring" /\ End("error")

(* SIGKILL or a crash at any time, or a signal before NotifyContext.       *)
Kill == End("killed")

Listen ==
    /\ listener = "starting" /\ server = "serving"
    /\ listener' = "accepting"
    /\ UNCHANGED <<vars, server, roster, serveErr, signalled, grace, exit, requests>>

(* The port is taken, or accepting fails for good.                         *)
ListenerFails ==
    /\ listener \in {"starting", "accepting"} /\ server = "serving"
    /\ listener' = "ended" /\ serveErr' = "error"
    /\ UNCHANGED <<vars, server, roster, signalled, grace, exit, requests>>

Signal ==
    /\ server = "serving" /\ ~signalled
    /\ signalled' = TRUE
    /\ UNCHANGED <<vars, server, roster, listener, serveErr, grace, exit, requests>>

(* The select of serveUntilSignal; with both channels ready, either.       *)
ReturnServeErr == server = "serving" /\ serveErr # Nil /\ End("error")

(* Shutdown closes the listener, which has ListenAndServe return           *)
(* ErrServerClosed, unless it has failed already or is failing just now.   *)
Shutdown ==
    /\ server = "serving" /\ signalled
    /\ server' = "draining" /\ grace' = shutdownGrace /\ listener' = "ended"
    /\ serveErr' \in IF listener = "ended" THEN {serveErr}
                     ELSE IF listener = "starting" THEN {"closed", "error"}
                     ELSE {"closed"}
    /\ left' \in {l \in [Calls -> 0..callTimeout] :
                    \A c \in Calls : IF at[c] \in Remote THEN l[c] < callTimeout
                                                         ELSE l[c] = 0}
    /\ UNCHANGED <<vars, roster, signalled, exit, route, at, status, answers, late>>

(* Time passes: no remote call outlives its deadline, and what a handler   *)
(* does by itself takes none.                                              *)
Tick ==
    /\ server = "draining" /\ grace > 0
    /\ \A c \in Calls : at[c] \notin Local /\ (at[c] \in Remote => left[c] > 0)
    /\ grace' = grace - 1
    /\ left' = [c \in Calls |-> IF at[c] \in Remote THEN left[c] - 1 ELSE 0]
    /\ UNCHANGED <<vars, server, roster, listener, serveErr, signalled, exit,
                   route, at, status, answers, late>>

(* Mutant: nil, for a shutdown went well. *)
ShutdownReturnsNil ==
    /\ server = "draining" /\ \A c \in Calls : at[c] \notin Active
    /\ End("clean")

(* No request is left: run returns what ListenAndServe returned.           *)
ShutdownReturns ==
    /\ server = "draining" /\ \A c \in Calls : at[c] \notin Active
    /\ End(IF serveErr = "closed" THEN "clean" ELSE "error")

(* Mutant: Shutdown gets a context without a deadline. *)
GraceNeverExpires == FALSE

GraceExpires == server = "draining" /\ grace = 0 /\ End("error")

ShellNext ==
    \/ \E c \in Calls : HandlerStep(c) \/ BodyArrives(c) \/ \E r \in Routes : Arrive(c, r)
    \/ Start \/ PinKey \/ WiringFails \/ Kill \/ Listen \/ ListenerFails
    \/ \E names \in Rosters : Wire(names)
    \/ Signal \/ ReturnServeErr \/ Shutdown \/ Tick \/ ShutdownReturns \/ GraceExpires
    \/ (Rotate \/ Trim) /\ UNCHANGED <<main, requests>>

(* Handlers run and their remote calls end by a deadline; main reacts to   *)
(* its channels, and time passes.  Clients, operators and Vault owe        *)
(* nothing.                                                                *)
ShellFairness ==
    /\ \A c \in Calls : WF_shellVars(HandlerStep(c))
    /\ WF_shellVars(ReturnServeErr \/ Shutdown) /\ WF_shellVars(Tick)
    /\ WF_shellVars(ShutdownReturns \/ GraceExpires)

ShellSpec == ShellInit /\ [][ShellNext]_shellVars /\ ShellFairness

----------------------------------------------------------------------------
(* Properties                                                              *)

SealAnswers == {"role", "allowed", "hash"}

(* What each step presupposes of the answers given so far.                 *)
Granting(step) ==
    CASE step = "check" -> {"role"}
      [] step = "hash" -> {"role", "allowed"}
      [] step \in Local \cup {"sign"} -> SealAnswers
      [] step = "authority" -> {"vault"}
      [] OTHER -> {}

StepsOf(r) ==
    CASE r = "seal"   -> Local \cup {"authorize", "body", "check", "hash", "sign"}
      [] r = "verify" -> {"body", "level2"}
      [] r = "ready"  -> {"vault", "authority"}
      [] OTHER -> {}

ShellTypeOK ==
    /\ server \in {"off", "wiring", "serving", "draining"}
    /\ serveErr \in {Nil, "closed", "error"} /\ signalled \in BOOLEAN
    /\ route \in [Calls -> Routes \cup {Nil}]
    /\ at \in [Calls -> Active \cup {"idle", "done", "cut"}]
    /\ status \in [Calls -> {0, 200, 400, 401, 403, 415, 422, 502, 503}]
    /\ answers \in [Calls -> SUBSET (SealAnswers \cup {"denied", "vault", "authority"})]
    /\ left \in [Calls -> 0..callTimeout] /\ late \subseteq Calls
    /\ grace \in 0..shutdownGrace

(* The parts of main, and the signer's process, say the same thing.        *)
MainInv ==
    /\ server = "off" <=> process = "down"
    /\ server \in {"serving", "draining"} => process = "up"
    /\ server # "draining" => serveErr \in {Nil, "error"}
    /\ server = "draining" => signalled

(* A request is where its route and the answers it was given have it, its  *)
(* signature where the signer's call has it.                               *)
RequestInv(c) ==
    /\ at[c] \in Active => /\ server \in {"serving", "draining"}
                           /\ at[c] \in StepsOf(route[c])
                           /\ Granting(at[c]) \subseteq answers[c]
                           /\ "denied" \notin answers[c]
    /\ at[c] \in {"idle", "authorize"} => answers[c] = {}
    /\ at[c] = "body" /\ route[c] = "seal" => answers[c] = {"role"}
    /\ at[c] \in Local \cup {"check", "hash", "sign"} => AudiencesPass(roster)
    /\ at[c] \in {"kid", "sign"} => RootFits(roster)
    /\ at[c] = "sign" <=> pc[c] \in SigningCalls
    /\ signature[c] # Nil => at[c] = "done"
    /\ server = "wiring" /\ signature[c] # Nil => signedIn[c] < starts
    /\ at[c] # "done" => status[c] = 0

(* A call that a shutdown finds under way has less time than the shutdown. *)
GraceInv(c) ==
    server = "draining" /\ c \notin late =>
        /\ at[c] \in Remote => left[c] < grace
        /\ at[c] \in Local => grace > 0

ShellInv == ShellTypeOK /\ MainInv /\ \A c \in Calls : RequestInv(c) /\ GraceInv(c)

(* No status claims what was not earned, and nothing is signed that was    *)
(* not: a package needs the role, the authority's leave and its hash, and  *)
(* a roster that fits the profile; a 422 is the authority's no; a request  *)
(* without the role, or one that cannot be read, never reaches it.         *)
Earned(c) ==
    /\ signature[c] # Nil => /\ SealAnswers \subseteq answers[c]
                             /\ "denied" \notin answers[c]
                             /\ route[c] = "seal" /\ status[c] = 200
    /\ signature[c] # Nil /\ process = "up" /\ signedIn[c] = starts =>
           AudiencesPass(roster) /\ RootFits(roster)
    /\ at[c] = "done" /\ route[c] = "seal" =>
           /\ status[c] = 200 => signature[c] # Nil
           /\ status[c] = 422 <=> "denied" \in answers[c]
           /\ status[c] \in {401, 403} <=> answers[c] = {}
           /\ status[c] \in {400, 415} => answers[c] = {"role"}
    /\ at[c] = "done" /\ route[c] = "ready" /\ status[c] = 200 =>
           {"vault", "authority"} \subseteq answers[c]

StatusIsEarned == \A c \in Calls : Earned(c)

(* A request is cut off without a response only when the process is        *)
(* killed, when its listener failed, or at the end of a shutdown in which  *)
(* its client had still to send the body or which began another of its     *)
(* remote calls: the grace outlasts every call that a shutdown finds.      *)
GraceIsEnough ==
    [][\A c \in Calls :
          at[c] \in Active /\ at'[c] = "cut" =>
              \/ exit' = "killed"
              \/ server = "serving" /\ serveErr = "error"
              \/ server = "draining" /\ (c \in late \/ at[c] = "body")]_shellVars

(* Exit code 0 says that the process was asked to stop, that no request    *)
(* was cut off, and that the listener had not failed.                      *)
CleanExitHidesNothing ==
    [][server # "off" /\ server' = "off" /\ exit' = "clean" =>
          /\ signalled /\ serveErr # "error"
          /\ \A c \in Calls : at[c] \notin Active]_shellVars

(* A signalled process ends, though a client may never send its body. *)
SignalEndsProcess == signalled ~> ~signalled

(* A handler that is not waiting for its client answers, or is cut off     *)
(* with its process. *)
EveryRequestEnds ==
    \A c \in Calls : at[c] \in Remote \cup Local ~> at[c] \in {"body", "done", "cut"}

============================================================================
