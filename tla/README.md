# A TLA+ development of chainbind-go

chainbind seals one payload into per-audience encrypted segments under one
issuer signature, lets anybody verify the package without a key, and binds it
to the authorization it was issued under. This directory holds TLA+ modules
for the parts of the code that decide those three things, TLC configurations
that check them on small instances, and theorems that TLAPS proves for every
value of the constants. Definitions carry the names of the Go functions they
are translated from; `PROJECT.json` gives the lines of each.

    tlc -config MCSeal.cfg MCSeal        # any run of the table below
    tlapm SealProofs.tla                 # any *Proofs module

## 1. Inventory

| Component | State | Operations | Talks to | Hard behaviours | What makes it correct |
|---|---|---|---|---|---|
| Seal (`pkg/chainbind/seal.go`) | locals of one call | `Seal`, `sealSegment`, `signPackage` | IntentVerifier (2 calls), KeyWrapper, Signer (2 calls) | every port may fail at any step; two questions to the authority at different times; concurrent calls; restart in the middle | nothing is encrypted before authorization; no key survives its segment; all or nothing; what comes out verifies and opens |
| Package, bindings, signing view (`package.go`, `bindings.go`, `signview.go`, `aad.go`, `canonical.go`) | none | `SegmentsRoot`, `IntentCommitment`, `ComputeBindings`, `BuildSigningView`, `ReconstructSigningView` | Seal, Verify, Open | computed twice by different code from different inputs | both sides agree; a valid `signed_fields` names everything |
| Verify (`verify.go`) | the Report | `Verify` levels 1 and 2 | trust store, IntentVerifier | hostile or damaged input; authority unreachable; authority changed since sealing | a pass means as issued, OK means authorized, a good package is not refused |
| Open (`open.go`, `crypto.go`) | none | `Open` | Verify, KeyWrapper | fields no signature covers; ambiguous key match; spliced segments | a recipient gets a text addressed to it, in its package, or nothing |
| Key wrapping (`keywrap/x25519`) | none | `Wrap`, `Unwrap`, `Thumbprint`, `PublicKey` | Seal, Open | byte-level boundaries of RFC 3394 | unwrap inverts wrap, for the right key only |
| Bearer check (`auth/keycloak`) | cached JWKS, its time, a mutex | `Authorize`, `keySet` | Keycloak | overlapping fetches answered out of order; key rotation; slow endpoint | staleness is bounded; nobody queues behind a fetch |
| Vault signer (`signer/vault`) | pinned version and key | `New`, `Kid`, `Sign`, `PublicKey`, `Ping` | Vault | rotation and trimming between calls; Vault signing with another version; restart | signs with the key it named; the shell refuses only packages of older versions |
| Local signer (`signer/local`) | one key | `Kid`, `Sign` | CLI | none | meets the port |
| Intent adapters (`intent/http`, `intent/mock`, `cmd/mock-authority`) | seeded authorizations | `Check`, `ConstraintsHash`, `Ping` | seed files, HTTP | outage, restart, late or foreign answers; rules judged in random order; what a hash covers | never fails open; one hash per intent_ref, and a hash that fixes the verdict |
| HTTP shell (`internal/adapters/http`) | roster, resolver | seal, verify, ready, health handlers | all of the above | partial failure mapped to statuses; a client that never sends its body | no status claims what was not earned; every handler that does not wait for its client ends |
| Server (`cmd/chainbind-api`) | process, listener, shutdown | `run`, `serveUntilSignal` | all of the above | signal against a listener that fails; grace against slow calls; restart in the middle | a shutdown ends, cuts off no call it found under way, and exit code 0 hides nothing |
| CLI (`cmd/chainbind`) | files it reads and writes | seal, verify, open | library, file system | commands side by side over one file; killed while writing | an exit code and a file say only what is so |
| Profile (`profile/agenticcheckout`) | none | `Split`, `Project`, `BindingSpecs` | shell, CLI | roster against segment order | bindings recompute from the manifest |
| Config, logger | environment; handler chain | `Load`; `Handle`, `WithAttrs`, `WithGroup` | everything | the correlation id shadowed | the id of the context wins |

`PROJECT.json` lists under "hazards" where in the code each of these bites, and
which property is about it.

## 2. Modules

| Module | Models |
|---|---|
| `Terms` | the cryptographic vocabulary as free terms |
| `Package` | the package record; what Seal builds, Verify computes and Open recovers, without the calls to ports |
| `Seal` | concurrent Seal calls, their ports, amendments and restarts, step by step |
| `Issuance` | abstract: what Seal promises |
| `Custody` | packages in transit: damaged, mixed, re-signed, verified, opened |
| `Delivery` | abstract: what sealing and opening are for, without cryptography |
| `Jwks` | the bearer check and its shared key cache, with a clock |
| `SignerPort` | abstract: what the library asks of a Signer |
| `VaultSigner` | the Vault signer in its process, and Vault's key life cycle |
| `Authority` | the mock intent authority over its seed files, its handlers, and the HTTP adapter that asks it |
| `Shell` | the HTTP shell: requests through their handlers, wiring, listener, signal and shutdown, over `VaultSigner` |
| `KeyWrap` | Wrap and Unwrap, with RFC 3394 round by round, over a store that damages |
| `LogHandler` | the chain of groups and attributes of derived loggers, and what a record becomes |
| `Cli` | the three commands as processes over shared files |
| `MCSeal`, `MCCustody`, `MCJwks`, `MCAuthority`, `MCShell`, `MCAlgorithms`, `MCCli` | small instances |
| `PackageProofs`, `SealProofs`, `CustodyProofs`, `JwksProofs`, `AuthorityProofs`, `ShellProofs` (with the Vault signer and the logger), `KeyWrapProofs`, `CliProofs` | theorems |

They compose as follows. `Seal` implements `Issuance`; `Custody` uses
`Issuance` as its model of Seal and implements `Delivery`. `VaultSigner`
implements `SignerPort`, which is what `Seal` assumes between its steps AskKid
and AskSignature within one process. `Authority` is what stands behind the two
questions of `Seal` and of Verify's Level 2 in the compose stack: Seal's
`Amend` is its `EditSeed` followed by a restart. `Shell` extends `VaultSigner`:
a request is one of its calls and takes the signer's part of a seal by that
module's own actions, so a behaviour of the shell is one of the signer
(theorem `ShellRunsSigner`). What the shell asks of Keycloak and of the
authority is there the outcome alone, with its deadline; `Jwks` and `Authority`
say when each outcome comes. `KeyWrap` is the inside of the terms `Wrap` and
`Unwrap` of `Terms`.

### How the state and the actions correspond to the code

*Seal.* `pc[c]` is where a call is in `Seal`. A step ends at each port call
(`Check`, `FetchConstraintsHash`, `AskKid`, `AskSignature`) and at the birth
and death of each data key (`DrawDEK`, `SealSegment`), because these are the
points at which others can act or a return can leave something behind. Every
port step has a failing alternative, `Fail`, which is the error return with
the deferred `zero` already run. `Submit` is the part of Seal up to the first
port call, `Bind` the three commitments after the loop. `Amend` (an authority
that mutates an intent_ref in place, which the port forbids) and `Restart`
belong to the environment.

*Package.* A Go map is a function on its keys, a slice a sequence, a helper
that may return an error returns `Nil`. `ParsePackage` keeps the order of
`parsePackage`'s early returns and of the per-audience checks. `Level1Report`
and `AttestedReport` follow `Verify` to L1.6, `VerifyIntent` is Level 2.
A binding spec is abstracted to what its formula commits to: some plain hashes
(`checkout_hash`, `transaction_id`) or the intent
(`conditional_transaction_id`).

*Custody.* One copy at a time is taken from the issued packages, changed by
`Damage` and `Resign` within bounds, received, then verified and opened, in
either order and repeatedly. `Damaged` enumerates the changes: every section
swapped with that of another issued package; every sealed field corrupted or
replaced by one of another segment; segments lost, moved, added under another
name; segment_order, manifest entries, commitments, key confirmations,
signed_fields and version altered. `Resign` stands for a trusted issuer that
signs whatever lies before it.

*Jwks.* Each critical section of `keySet` is one action (`ReadCache`, `Store`),
between which the fetch is in flight; `ServerAnswers` fixes what the answer
says, `Store` when it is stored. The clock moves only when no goroutine has
work to do that needs no waiting, and not past a fetch's deadline.

*VaultSigner.* `DescribeKey` and `New` are apart, so that a rotation can fall
between Vault composing its metadata and the signer pinning it; so are
`VaultSigns` and `Sign`. `Crash` loses the pinned state and fails the calls.

*Authority.* A question is asked (`Ask`), served from the memory of whichever
process then runs (`Serve`), and returned (`Receive`), with restarts, new seed
files and other callers in between. `ReceiveForeign` is any response that is no
verdict, `Unreachable` the transport error or the deadline. `CheckOutcomes` is
a set because Go ranges over a map in any order; `Decode` follows `doJSON`, with
absent JSON fields as zero values. `inForce` is a history variable.

*Shell.* `at[c]` is where a handler is; its steps end where it waits: for the
bearer check, for the body, for each question to the authority, for Vault.
`answers` collects what each of them granted, `left` the time left of the remote
call under way. `BodyArrives` is everything a handler decides before it asks
anybody (content type, decoding, Split and Project, checkAudiences). The
variables of main are those of `run` and `serveUntilSignal`: `listener` and
`serveErr` for the goroutine and its channel, `signalled` for the context of
NotifyContext, `grace` for shutdownCtx. `ReturnServeErr` and `Shutdown` are the
two cases of the select; `ShutdownReturns` and `GraceExpires` the two ways
Shutdown ends, and either may win. Whatever ends the process cuts off the
requests it was serving (`End`).

*KeyWrap.* One action per round of the two double loops, with the loop counters
`j` and `i`, the registers `a` and `r`, and `counter`, the code's `n*j + i`.
A half block is a term with a set of bits it is XORed with, so XOR with a
counter is exact and its own inverse. `Wrap` and `Unwrap` are the checks and the
set-up before the loops, key agreement and Concat KDF included; `Damage` is what
can become of the stored key in between. `was` is a history variable.

*LogHandler.* A handler is a slice: an index into `arrays` and a length, so that
two handlers can share a backing array, as they would if `withGoa` appended in
place. An attribute is its key and the fields it says, each under the groups
around it inside the attribute; an empty group is a field without a key, so that
it is seen to be there, and a group without a name is inlined, as slog's handler
does. `Handle` is a function of the links, the record's attributes and the id in
the context: `Replay` is its loop, `Enclose` the body of the loop, `WithoutID`
the DeleteFunc. `Asked` says the same from the caller's side, without a loop:
each attribute under the groups opened before it.

*Cli.* A command goes through its flags, its inputs, the library's operation and
`writeOutput`; another command, an amendment or a kill may come between any two
steps. `file` holds the files that exist, each a sequence of chunks labelled
with the command that wrote them,
`Create` and `WriteChunk` are the truncation and the writes of os.WriteFile, and
`ReadPackage` takes what is there. `Seal`, `Verify` and `Open` are reduced to
their outcomes and to what these need.

## 3. Runs

| Run | Checks | Instance |
|---|---|---|
| `seal` | SealInv, NoKeyBeforeAuthorization, NoKeyOutlivesItsSegment, IssuedPackageVerifies, RecipientsOpenTheirOwn, CommitsToPermittedConstraints, SealIssuesOrDoesNothing, EveryCallReturns | 2 calls, 11 requests, 2 constraint versions, 1 amendment, 1 restart |
| `custody` | CustodyInv, VerifiedIsAsIssued, OKMeansAuthorized, IntactCopyVerifies | 2 packages, 1 fault, 1 amendment, trusted and untrusted kid |
| `custody_resigned` | OKCommitsToOpenedText, RootComputableAfterParse, OpenDeliversOnlyLetters | 2 faults, 1 re-signing, 3 keys |
| `jwks` | JwksInv, OnlyRecentKeysAdmit, PublishedKeysAdmit, AnswersInTime | 2 requests, 2 keys, TTL 2, timeout 1, 5 ticks |
| `authority` | TypeOK, AllowIsPermitted, HashIsPinned, CommitmentCarriesPermission | 2 callers, 2 refs, 3 documents out of 6, 2 files, 2 starts, 1 edit, 1 use |
| `shell` | VaultInv, RefusesOnlyOlderPackages, KeepsSignerPort, ShellInv, StatusIsEarned, GraceIsEnough, CleanExitHidesNothing, SignalEndsProcess, EveryRequestEnds | 2 requests of any route, 4 rosters, 2 key versions, 2 starts |
| `algorithms` | WrapsAsRFC3394, IntactUnwraps, OnlyIntactUnwraps, RecordIsAsDerived, ContextIdWins | data keys of 0, 8, 12, 16, 24, 32 bytes, 2 recipients, 1 fault; 5 loggers, one group named as the id |
| `cli` | ExitCodesAreEarned, OnlyEarnedOutput, BrokenFileHasCulprit | 3 commands, outputs of up to 2 chunks, 2 constraint versions, 1 amendment |
| `seal_shared_key` | EverySegmentOpens is violated | one call |
| `custody_extra_segment` | ExactlyTheDeclaredSegments is violated | one fault |
| `jwks_race` | RaceCostsOnlyARoundTrip is violated | as `jwks` |
| `authority_panics` | NothingPanics is violated | as `authority` |

Why the bounds are enough to see the interesting cases. Two calls are the
least that interfere; the requests of `MCSeal` are one for each way Seal can
treat a request (each early and each late refusal, shared keys, and two good
ones of different shape). The two packages of `MCCustody` name overlapping
audiences, so every part of one fits in the other; two faults are the least
that move a segment together with one signed section. In `MCJwks` a race needs
two requests and a rotation two keys; five ticks let a set be fetched, expire
after its TTL of two, be fetched again and pass its window of three. In
`MCShell` two key versions and two starts let a rotation or a trim fall before,
between and after the steps of a request, and a package of the first process
meet the resolver of the second; two requests let a shutdown find one in each
state while another begins or ends a call; a tick of five seconds is half of
both the deadline and the grace, so a call can end before, with and after it.
(Three calls, three versions and three starts were checked of `VaultSigner`
alone; for more there are the theorems.) In `MCAlgorithms` four blocks are the
data keys the code wraps (32 bytes), one block the least it takes, 12 bytes no
whole number of blocks; six bits hold every counter up to 24. Five loggers
are enough for two children of one parent that has spare capacity, each with a
child of its own; attributes that shadow the id, alone and inside a group without
a name, an empty group, and a group that has the id's name are what `Handle`
treats differently. In `MCCli` two writers and a reader meet over one file, or a
seal, a verify and an open follow each other; two chunks let a write be broken
off, and another file end up in it. In `MCAuthority` two callers can ask the two questions about
one ref, two files can repeat a ref or amend it, and two starts put a restart
between question and answer; the documents cover each branch of `evaluate`, and
the property about commitments also compares with documents that no file holds.
Deadlock is checked except in the runs of Seal, Authority, Shell, Cli and the
algorithms, whose calls, requests, commands and inputs are each used once: those
systems may stop. That a shutdown or a handler does not hang is stated as
liveness instead.

### What the violations show

* **seal_shared_key.** `checkAudiences` compares names, not keys. Two audiences
  with one public key are sealed to, signed and returned, and `matchingAudience`
  then finds two matches: neither segment can be opened, although README.md
  says "each openable by exactly one recipient". `RecipientsOpenTheirOwn` states
  what does hold, for requests whose keys are distinct.
* **custody_extra_segment.** `parsePackage` is documented to require one sealed
  segment per declared audience, "no fewer, no more"; it counts the manifest's
  entries but not `segments`, which is unsigned. A surplus segment passes. It
  is never read, which is why the other properties of Custody hold.
* **jwks_race.** The comment on `keySet` says two racing fetches cost "an extra
  HTTP round trip and nothing else". An answer composed before a rotation and
  stored after the other takes the new key out of the cache with a fresh
  timestamp. `PublishedKeysAdmit` bounds the damage: TTL plus fetch timeout.

* **authority_panics.** `cmd/mock-authority/main.go` says that nothing below
  main panics. `evaluate` compares two values of type `any` with `==`, and Go
  panics when both hold a list: the handler dies, its connection is closed, and
  the adapter reports the authority unreachable. It never allows.

Not a violation, but worth knowing: a 2xx response without an `allowed` field is
a denial to the adapter, though its comment says that a body of another shape is
`ErrAuthorityResponse`; `AllowIsPermitted` holds with such responses included.

The same goes for these, which the models have and no property contradicts:

* `logger.go:168` says that a caller cannot shadow the correlation id. An
  attribute `slog.Group("", ...)` with an empty key is inlined by slog, and a
  `correlation_id` in it comes out at the top level next to the context's:
  DeleteFunc looks at the keys of the outermost attributes only. `ContextIdWins`
  therefore speaks of named attributes; `RecordIsAsDerived` of all.
* For the same reason a group that a caller opens at the top with
  `WithGroup("correlation_id")` is dropped whole, with everything logged in it,
  when the context has an id (`Kept`). The comment at `logger.go:170` speaks of
  the other case, the same key nested inside a group, which is kept.
* `cmd/chainbind/main.go` documents exit code 1 for an unreadable file and an
  unreachable authority. A seed directory that cannot be loaded exits with 2
  (`resolveAuthority` is treated as a flag error), and an authority that cannot
  be reached at verify makes the intent level unevaluated and exits with 3, as
  the same help text says a few lines below.
* Two commands that write one `--out` file at the same time can both exit with 0
  and leave a file with parts of both, which no later verify accepts:
  `BrokenFileHasCulprit` names this case (`overlap`), since nothing in the CLI
  promises otherwise.
* `/ready` may say ready while no seal can be signed, after Vault has trimmed the
  pinned version.
* `shutdownGrace` is ten seconds, like one remote call's deadline, and a seal
  makes several: `GraceIsEnough` holds for the call a shutdown finds under way,
  not for the request as a whole.

## 4. Assumptions

* *Symbolic cryptography* (`Terms`): no hash collisions; AES-GCM opens only
  under its key, nonce and additional data; a signature verifies only under its
  key; random values never repeat. `Join` of a body and a tag of different
  encryptions is no ciphertext at all.
* *Authority.* An answer is the current version of the constraints behind the
  intent_ref. `CommitsToPermittedConstraints` says nothing of a call whose own
  constraints were replaced between its two questions (`overtaken`), and the
  last conjunct of `OKMeansAuthorized` assumes the port's contract that a ref
  pins an immutable version (`amends = 0`); the rest do not.
* *Fairness in Seal* (`EveryCallReturns`): weak fairness of each call's steps. A
  goroutine in Seal runs, and every port call ends because the adapters put a
  deadline on it (`withDeadline`: 10 s in the shell and the CLI; the local
  signer and the mock authority answer from memory). There is no fairness on
  submitting, amending or restarting.
* *Fairness in Shell* (`SignalEndsProcess`, `EveryRequestEnds`): weak fairness of
  a handler's steps other than the arrival of its body, because each ends by
  itself or by its deadline; of main's select (the runtime schedules a goroutine
  one of whose channels is ready); of the two ways in which Shutdown returns; and
  of time. None on clients (`BodyArrives`, `Arrive`), operators, signals, Vault's
  rotations, the listener or a restart.
* *Time in Shell* passes only during a shutdown, in ticks of five seconds:
  nothing else depends on it. A remote call may take up to ten seconds, the
  longest of the deadlines (the bearer check's is five); what a handler does by
  itself takes none. A call found under way by a shutdown has, having begun
  before it, strictly less than its deadline left.
* *Files in Cli*: os.WriteFile truncates and then writes in order, at its own
  offset; os.ReadFile sees one moment. A package that is not one command's whole
  output, and happens to parse, is one nobody signed. Key, payload and audience
  files do not change.
* *A256KW in KeyWrap*: AES under different keys, and on different blocks, has
  nothing in common; a block that was not encrypted under the key decrypts to
  noise that is never the initial value. `Width` stands for 64 bits.
* *Time* in `Jwks`: a fetch ends by its deadline, and steps that wait for nobody
  take no time compared with a tick. `verdict` is kept until the next tick, so
  that a property can relate an answer to the realm at that moment.
* *Strangers' responses* in `Authority` are no verdicts: an outage page, an
  empty object, a body cut off. `HashIsPinned` and
  `CommitmentCarriesPermission` say nothing once a seed file was edited in place
  (`edits > 0`), which the mock's package comment excludes; `AllowIsPermitted`
  holds with edits.
* *Vault* labels a signature with the version it signed with.

## 5. Proofs

Constants are assumed to be what the modules state and TLC evaluates on every
run: bounds are numbers, requests name intent_refs and hold sequences where the
code has slices, `Nil` is none of the values it stands beside. A hypothesis that
TLC cannot evaluate is named in the one theorem that has it (`IntactVerifies`).

*PackageProofs.* What the two sides of a package compute, for any number of
audiences and specs. `ViewIsWhole`: a signed_fields list of the right length with
no foreign or repeated name must be a permutation of all nine (a finite injection
argument), so what Verify reconstructs is what Seal signed.
`ParsedIsWellFormed`: the argument in `verify.go` that SegmentsRoot's error is
unreachable; it uses that an injective sequence as long as the manifest is large
lists all of it. `DecryptsTagged`, `AADBindsContext` and `UnwrapsOwn` are the
free-term facts about encryption that everything on opening rests on. From the
sealing side, `BuiltPasses` takes a package that Seal has built through the
checks of Verify one by one, and `OpensTheOne` and `OpensNone` say what Open
returns for a key with one match and with none; from the receiving side,
`PassedMeans`, `ParsedMeans`, `IntentValidMeans` and `OpenMeans` say what a
positive outcome implies of the package in hand.

*SealProofs.* `SealInv` is inductive and has two parts. `CallsInv` says, per
call, which answers it has at each step (`AnswersInv`), that `turn` and `entries`
describe the same prefix of the audiences (`LoopInv`), that a key belongs to the
audience being sealed (`KeyInv`), and that a result exists only at the end
(`ResultInv`). The safety properties are not inductive: authorization of a key
held at "wrap" follows from where the call is, not from the previous state's
keys. One lemma per action; `FailInv`, `OtherCalls` and `LoopFrame` carry what
they share. `TypeCorrect`, `AuthorizationFirst`, `KeyLifetime` and
`CommitmentPermits` follow from it. `WorkInv` adds what has been built: each
finished entry is `EntryFor` its audience with that audience's own key, and what
a step tested (the commitments could be computed, the view marshals, the kid is
the signer's) still holds at the steps after it, although other calls and a
restart came between. It is what the last three need. `PackagesVerify`: what Seal
returns is a package `BuiltPasses` speaks of. `RecipientsOpen`: with distinct
keys the matches of a private key are exactly its owner (`OwnerOpens`), or none.
`ImplementsIssuance`: initial states are initial, the signature is the step of
Issuance (`SignatureIssues`: the request is valid and the package the complete
one), and every other step leaves `result` as it was. The operators of the
instance are proved equal to Seal's own (`AbstractEntries`, `AbstractPackages`).

*CustodyProofs.* `CustodyInv`: every issued package is one Issuance allows; the
copy, whatever its damage, has sections of the right form, sealed fields that are
garbage or were sealed by somebody, and, until the issuer re-signs, a signature
value that some issued package carries (`Kept`); report and opened text are those
of the copy in hand. That no fault leaves `Kept` is proved fault by fault.
`VerifiedAsIssued`: the signature of a passing copy determines the whole view, so
every signed section is that of one package, and the ciphertexts follow through
`cipher_hash`. `OKIsAuthorized` adds the authority's answer and, before any
amendment, that it is the one the package was sealed under. `OKCommits` and
`RootComputable` hold with re-signing. `DeliversOnlyLetters` is the refinement of
Delivery: a text comes out only of an encryption whose additional data names the
package, the audience and the version, so the step that opens is the delivery of
a letter and every other step is a step of sealing or a stutter. `IntactVerifies`
is the converse, that nothing in order is refused; it has the hypothesis
`NilIsNoFunction`, since a hash that happened to be `Nil` would count as an error.

*JwksProofs.* `JwksInv` ties the cached set to the moment Keycloak composed it
(`TakenAt`), that moment to `fetchedAt`, and a fetch to its deadline. With it a
set judged at any moment is at most `Window` = TTL + timeout old
(`RecentSetJudgesWell`), which gives `WithdrawnKeysExpire` and
`PublishedKeysArrive` for any number of requests and keys and any order of
answers; `NoQueueBehindAFetch` follows from the fetch part alone.

*AuthorityProofs.* `AllowInv`: a document still in memory is among those in
force for every caller that waits, and a response that says allowed was
permitted when it was made. So a late reply is harmless whatever has happened to
the authority since, and `NeverFailsOpen` follows for any number of callers,
files, restarts and edits. `OutcomeIsSound` shows it of the evaluation in any
order of the rules, `DecodeFailsClosed` of every response. `PinInv` says that,
until a file is edited in place, every reply on its way and every answer rests
on the first file that names its ref. Appending a file cannot move it
(`AppendKeepsPins`), and a directory that loads has no other (`LoadedArePinned`),
hence `HashesArePinned`. With `HashTellsOutcomes`, which reads a document's
rules back from its hash up to an empty list of allowed values, it gives
`CommitmentsCarryPermission`. Assumed of the documents is only their shape.
`TypeCorrect` types every reply on its way, and so every answer (`DecodeAnswers`).

*ShellProofs.* The Vault signer first. `VaultInv` says that version and key come
from one answer and that the live calls' kids are the pinned one. From it
`OnlyOlderRefused`, over restarts and every history of the key, and
`ImplementsSignerPort`: initial states map to initial states, every step to a
step of `SignerPort` or a stutter. Then the shell. Every step of the shell is a step of its signer or leaves it alone
(`SignerStep`), so `ShellRunsSigner`, and with it what is proved of the signer,
holds in the shell. `ShellInv` is inductive together with `VaultInv`: a request
is where its route and the answers it was given have it, its signature where the
signer's call has it, and a call that a shutdown found under way has less time
left than the shutdown (`GraceInv`). The last part is what `GraceSuffices` needs
and a status alone does not say: it is kept by `Tick` because both clocks go
down together, and established by `Shutdown` because the grace is as long as the
deadline. `StatusEarned` is inductive relative to `ShellInv`; `CleanExit` follows
from it and the guard of `ShutdownReturns`.

*KeyWrapProofs.* The inductive invariant says that each register pair of an
unwrap of an intact copy is the pair the wrap had before the same round. Its
two pillars are `RoundNumber` (rounds of different pass or block have different
numbers, so the history is a function) and `RoundUndone` (a round of the unwrap
inverts the round of the wrap with the same counter). `RoundTrip` follows at the
last round, for every length of data key and every number of recipients; it uses
no property of `Bits`, so `Width` is of no consequence.

`OnlyIntact` is about every other copy, and needs an invariant of its own,
`DamageInv`. Its heart is `OnTrack`: an unwrap whose first register is not yet
lost to noise holds there what the wrap had `depth` rounds after its start. That
`depth` need not be the loop counter, for a copy may have lost or gained blocks;
it goes down with it, and the initial value is met only if both end at zero,
that is with as many blocks as were wrapped. Then the rounds have the same
numbers, so each undid the round of the wrap on the same block (`DecryptsOwn`: a
first half meets its own second half, under its own key, or decrypts to noise),
and `Passed` collects, block by block, that the copy's blocks are the wrap's.
That the noise stays is `DecryptsToNoise`; that no block but the first can start
the way back is `LastBlocksLost`. `KeysAssumption` says that the ephemeral key is
nobody's private key, as a freshly generated one is; from it and the shared key
follows that the recipient and the point are the right ones (`SameKek`). TLC
checked `DamageInv` on the instance of `algorithms` before it was proved.

`ConformsToRFC` compares the wrap with a recursive function. The induction is the
run itself: `ShiftInv` says that every solution of the recursion agrees with the
registers so far (`ShiftTurns`: a step of the shift register is a round on the
next block, seen from that block on), and that there is a solution as far as the
wrap has come (`ShiftGrows`); at the end there is one for all the steps.

*CliProofs.* `CliInv` follows each command through its steps (`CommandInv`): an
allowance belongs to a seal that has passed its check, a package read to one that
has passed `readPackage`, an offset to one that writes. Two parts relate commands
to one another. `ReadInv` and `ChunkInv`: whoever is named in a file, or was read
from one, is past everything that could still change its allowance, its package
or its hash (`Settled`), so a verdict about it cannot become stale. `WriterInv`:
a file whose writers never met holds exactly what its last writer has written,
and nobody else is writing it; `BrokenFileHasCulprit` alone is not inductive,
since it says nothing of what a writer that goes on will leave. What a step
changes of its own command and what of the rest is `Frame`, `FileFrame` and
`StaySettled`; the proofs of the parts use only these. `ExitCodes`,
`EarnedOutput` and `CulpritExists` hold for any number of commands and outputs of
any length. `CliInv` was checked by TLC on the instance of `cli` before it was
proved.

*The logger* (also in `ShellProofs`). `LogInv`: the slice of a logger reads, in
its array, as the links in its derivation, which no later derivation changes
(`LoggersAsDerived`, `LoggersUndisturbed`). What a record becomes is then a
matter of the operators, for links of any number and groups nested in any way.
The library's induction theorems take an operator, so the two inductions needed
are taken by a least counterexample (`LeastNat`, from the well-foundedness of the
naturals): one over the length of a sequence of sequences, for what FlattenSeq
returns (`FlattenIs`, `FlattenAppend`, `FlattenConcat`), and one over the links,
from the innermost outwards as the loop goes. The second is `ReplaySaysAsked`:
one more link inside, and what was asked for is what the rest of the loop is
asked for with this link around the record (`ReplayAppend` and `AskedAppend`; the
work is in `SaidInGroup`, that paths through a group add up, and in a group
opened for nothing). With `LogInv` it gives `RecordsAsDerived`. `ContextWins`
follows from what DeleteFunc leaves (`OthersAreLeft`): an attribute whose key is
neither the id's name nor empty says nothing under that name at the top
(`LeftIsUnshadowed`). Assumed is that a caller passes attributes
(`AttrsAssumption`) and that names are strings (`NamesAssumption`); the code's
early return for a group without a name is the assumption that none is in
`Groups`.

Of the properties that a run checks only liveness is without a theorem
(`EveryCallReturns`, `SignalEndsProcess`, `EveryRequestEnds`): fairness and
ENABLED are beyond the prover. What the models themselves assume is not proved
either: the free terms of `Terms`, the blocks of `KeyWrap`, and the deadlines.

## 6. Not modelled

Not modelled and not planned: configuration loading (each variable is read once
at start and judged on its own), JSON decoding and encoding of requests and
packages, the flag package and help texts, key and payload file formats, JWT
parsing, HTTP framing, and the random correlation id. They are conversions with
no state, covered well by unit tests. Of the profile, `Split` and `Project` only
build the data of a request; of the local signer only the port is modelled,
which it meets with one key for its lifetime.

Of what was planned nothing is left open: every safety property that a run checks
is also a theorem. A part of the code that is not in the list above and changes
state would need an action in the module of its component, and its case in the
invariant's proof.
