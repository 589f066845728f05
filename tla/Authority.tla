----------------------------- MODULE Authority -----------------------------
(***************************************************************************)
(* The intent authority of the compose stack and the adapter that asks it: *)
(* internal/adapters/intent/mock behind cmd/mock-authority, called through *)
(* internal/adapters/intent/http.                                          *)
(*                                                                         *)
(* The authority reads a directory of seed files once, when it starts, and *)
(* answers from memory.  Its operator adds a file to mint an intent_ref,   *)
(* and may, against the design, edit one in place (edits counts that).  A  *)
(* question travels to the authority and a reply travels back, each on its *)
(* own; either may be lost, come after a restart, or be replaced by what a *)
(* gateway or a stranger on that port says.  The reason of a denial is     *)
(* left out.                                                               *)
(***************************************************************************)
EXTENDS Terms, Functions

CONSTANTS
    Callers,        \* identities of calls of the adapter, each used once
    Refs,           \* intent_refs
    Documents,      \* [version, rules]: what a seed file can pin
    Grants,         \* those of them that the operator writes
    Projections,    \* a function on field names; Nil is no JSON object
    MaxFiles, MaxStarts, MaxEdits, MaxUses

ASSUME GrantsAssumption == Grants \subseteq Documents

(* constraints and Rule: a document has rules, a rule its three parts.     *)
ASSUME DocumentsAssumption ==
    \A doc \in Documents :
        /\ doc = [version |-> doc.version, rules |-> doc.rules]
        /\ \A field \in DOMAIN doc.rules :
              LET rule == doc.rules[field]
              IN  rule = [equals |-> rule.equals, max |-> rule.max, min |-> rule.min]

ASSUME AuthorityBounds ==
    {MaxFiles, MaxStarts, MaxEdits, MaxUses} \subseteq Nat /\ MaxFiles > 0

VARIABLES
    dir,            \* the seed directory: files in the order of their names
    auths,          \* the running authority's memory, Nil when none runs
    question,       \* question[c]: what caller c asked
    reply,          \* reply[c]: the response on its way back to c
    answer,         \* answer[c]: what the adapter returned to c
    starts, edits,
    inForce         \* history: documents an authority held while c waited

call == <<question, reply, answer, inForce>>
vars == <<dir, auths, call, starts, edits>>

(* A seed file that does not parse, or that names no ref, is Broken.       *)
Broken == [ref |-> Nil, doc |-> Nil]
Seeds  == [ref : Refs, doc : Grants] \cup {Broken}

Questions == [op : {"check"}, ref : Refs, projection : Projections]
        \cup [op : {"hash"}, ref : Refs, projection : {Nil}]

-----------------------------------------------------------------------------
(* Rules.  A value is a record of its kind and what tells it from others.  *)

ListsValues(rule) == rule.equals # Nil /\ rule.equals # <<>>

Satisfies(rule, val) ==
    IF ListsValues(rule)
    THEN val \in Range(rule.equals)
    ELSE \/ rule.max = Nil /\ rule.min = Nil
         \/ /\ val.kind = "number"
            /\ rule.max = Nil \/ val.n <= rule.max
            /\ rule.min = Nil \/ val.n >= rule.min

(* Go's == on two interface values that hold lists (or objects) panics; a  *)
(* value of that kind equals nothing before it in the list.                *)
Panics(rule, val) ==
    /\ ListsValues(rule)
    /\ val.kind = "list"
    /\ \E allowed \in Range(rule.equals) : allowed.kind = "list"

(* Mutant: a rule whose field is absent is skipped. *)
FieldOutcomeSkipping(rule, projection, field) ==
    IF field \notin DOMAIN projection THEN "allowed"
    ELSE IF Panics(rule, projection[field]) THEN "aborted"
    ELSE IF Satisfies(rule, projection[field]) THEN "allowed"
    ELSE "denied"

FieldOutcome(rule, projection, field) ==
    IF field \notin DOMAIN projection THEN "denied"
    ELSE IF Panics(rule, projection[field]) THEN "aborted"
    ELSE IF Satisfies(rule, projection[field]) THEN "allowed"
    ELSE "denied"

(* The rules are a Go map, ranged over in any order: any failing field may *)
(* be the first one met.                                                   *)
CheckOutcomes(doc, projection) ==
    LET outcomes == {FieldOutcome(doc.rules[field], projection, field) :
                        field \in DOMAIN doc.rules}
    IN  IF outcomes \subseteq {"allowed"} THEN {"allowed"}
                                          ELSE outcomes \ {"allowed"}

(* Mutant: a bound is a plain number, so zero is omitted. *)
EncodeRuleOmittingZero(rule) ==
    [rule EXCEPT !.equals = IF @ = <<>> THEN Nil ELSE @,
                 !.max = IF @ = 0 THEN Nil ELSE @]

(* JSON with omitempty: an empty list is written like an absent one, while *)
(* a bound, being a pointer, is absent only when it is nil.                *)
EncodeRule(rule) == [rule EXCEPT !.equals = IF @ = <<>> THEN Nil ELSE @]

Encode(doc) ==
    [doc EXCEPT !.rules =
        [field \in DOMAIN doc.rules |-> EncodeRule(doc.rules[field])]]

(* Mutant: the whole authorization is hashed, its consumption included. *)
HashConstraintsAndUse(auth) == H(JCS(<<Encode(auth.doc), auth.consumed>>))

HashConstraints(auth) == H(JCS(Encode(auth.doc)))

-----------------------------------------------------------------------------
(* Responses.  A body is what the adapter's decoder makes of it: a field   *)
(* that is not there decodes to its zero value.                            *)

Garbage == [json |-> FALSE]     \* empty, cut off, not JSON, of other types
Empty   == [json |-> TRUE, allowed |-> FALSE, hash |-> Nil]
Aborted == [status |-> "none"]  \* the connection closed without a response

Ok(body)    == [status |-> "2xx", body |-> body]
Failed(body) == [status |-> "other", body |-> body]

DecisionBody(outcome) == [Empty EXCEPT !.allowed = (outcome = "allowed")]
HashBody(hash)        == [Empty EXCEPT !.hash = hash]

(* What the authority's handlers make of a question.                       *)
CheckReplies(memory, q) ==
    IF q.ref \notin DOMAIN memory \/ q.projection = Nil THEN {Failed(Garbage)}
    ELSE {IF o = "aborted" THEN Aborted ELSE Ok(DecisionBody(o)) :
            o \in CheckOutcomes(memory[q.ref].doc, q.projection)}

HashReplies(memory, q) ==
    IF q.ref \notin DOMAIN memory THEN {Failed(Garbage)}
    ELSE {Ok(HashBody(HashConstraints(memory[q.ref])))}

Error == [kind |-> "error"]
Decision(allowed) == [kind |-> "decision", allowed |-> allowed]
HashAnswer(hash)  == [kind |-> "hash", hash |-> hash]

(* Mutant: an empty hash is a hash. *)
DecodeEmptyHash(q, r) ==
    IF r.status # "2xx" \/ ~r.body.json THEN Error
    ELSE IF q.op = "check" THEN Decision(r.body.allowed)
    ELSE HashAnswer(r.body.hash)

(* doJSON and the two methods around it.                                   *)
Decode(q, r) ==
    IF r.status # "2xx" \/ ~r.body.json THEN Error
    ELSE IF q.op = "check" THEN Decision(r.body.allowed)
    ELSE IF r.body.hash = Nil THEN Error
    ELSE HashAnswer(r.body.hash)

-----------------------------------------------------------------------------
(* New refuses the whole directory for one bad or repeated ref.            *)
Loads(files) ==
    /\ Broken \notin Range(files)
    /\ \A i, j \in DOMAIN files : files[i].ref = files[j].ref => i = j

Load(files) ==
    [ref \in {seed.ref : seed \in Range(files)} |->
        [doc |-> (CHOOSE seed \in Range(files) : seed.ref = ref).doc,
         consumed |-> 0]]

(* The document in memory that a check would be judged by: none or one.    *)
Held(memory, q) ==
    IF q.op = "check" /\ memory # Nil /\ q.ref \in DOMAIN memory
    THEN {memory[q.ref].doc}
    ELSE {}

Waiting(c) == question[c] # Nil /\ answer[c] = Nil

Init ==
    /\ dir \in {<<seed>> : seed \in Seeds}
    /\ auths = Nil
    /\ question = [c \in Callers |-> Nil]
    /\ reply = [c \in Callers |-> Nil]
    /\ answer = [c \in Callers |-> Nil]
    /\ inForce = [c \in Callers |-> {}]
    /\ starts = 0
    /\ edits = 0

(* An amendment, or a first authorization: a file of its own.              *)
AddSeed(seed) ==
    /\ Len(dir) < MaxFiles
    /\ dir' = Append(dir, seed)
    /\ UNCHANGED <<auths, call, starts, edits>>

EditSeed(i, doc) ==
    /\ edits < MaxEdits
    /\ dir[i] # Broken /\ dir[i].doc # doc
    /\ dir' = [dir EXCEPT ![i].doc = doc]
    /\ edits' = edits + 1
    /\ UNCHANGED <<auths, call, starts>>

(* mock.New, then serving.  A directory it refuses ends the process.       *)
Start ==
    /\ auths = Nil
    /\ starts < MaxStarts
    /\ Loads(dir)
    /\ auths' = Load(dir)
    /\ starts' = starts + 1
    /\ inForce' = [c \in Callers |->
            IF Waiting(c) THEN inForce[c] \cup Held(auths', question[c])
                          ELSE inForce[c]]
    /\ UNCHANGED <<dir, question, reply, answer, edits>>

Stop ==
    /\ auths # Nil
    /\ auths' = Nil
    /\ UNCHANGED <<dir, call, starts, edits>>

RecordUse(ref) ==
    /\ auths # Nil
    /\ ref \in DOMAIN auths
    /\ auths[ref].consumed < MaxUses
    /\ auths' = [auths EXCEPT ![ref].consumed = @ + 1]
    /\ UNCHANGED <<dir, call, starts, edits>>

Ask(c, q) ==
    /\ question[c] = Nil
    /\ question' = [question EXCEPT ![c] = q]
    /\ inForce' = [inForce EXCEPT ![c] = Held(auths, q)]
    /\ UNCHANGED <<dir, auths, reply, answer, starts, edits>>

Serve(c) ==
    /\ Waiting(c) /\ reply[c] = Nil
    /\ auths # Nil
    /\ \E r \in IF question[c].op = "check" THEN CheckReplies(auths, question[c])
                                            ELSE HashReplies(auths, question[c]) :
            reply' = [reply EXCEPT ![c] = r]
    /\ UNCHANGED <<dir, auths, question, answer, inForce, starts, edits>>

Return(c, a) ==
    /\ answer' = [answer EXCEPT ![c] = a]
    /\ reply' = [reply EXCEPT ![c] = Nil]
    /\ UNCHANGED <<dir, auths, question, inForce, starts, edits>>

Receive(c) ==
    /\ Waiting(c) /\ reply[c] # Nil
    /\ Return(c, Decode(question[c], reply[c]))

(* Somebody else's response: an outage page, an empty object, anything but *)
(* a verdict.                                                              *)
ReceiveForeign(c) ==
    /\ Waiting(c)
    /\ \E r \in {Ok(Garbage), Ok(Empty), Failed(Garbage), Failed(Empty)} :
            Return(c, Decode(question[c], r))

(* The transport failed or the deadline passed, reply or no reply.         *)
Unreachable(c) ==
    /\ Waiting(c)
    /\ Return(c, Error)

Next ==
    \/ \E seed \in Seeds : AddSeed(seed)
    \/ \E i \in DOMAIN dir, doc \in Grants : EditSeed(i, doc)
    \/ Start
    \/ Stop
    \/ \E ref \in Refs : RecordUse(ref)
    \/ \E c \in Callers :
        \/ \E q \in Questions : Ask(c, q)
        \/ Serve(c)
        \/ Receive(c)
        \/ ReceiveForeign(c)
        \/ Unreachable(c)

Spec == Init /\ [][Next]_vars

-----------------------------------------------------------------------------
Hashes == {HashConstraints([doc |-> doc, consumed |-> n]) :
                doc \in Grants, n \in 0..MaxUses}

(* The state is well formed; a hash returned as an answer is never empty.  *)
TypeOK ==
    /\ dir \in Seq(Seeds) /\ Len(dir) \in 1..MaxFiles
    /\ auths = Nil \/ /\ DOMAIN auths \subseteq Refs
                      /\ \A ref \in DOMAIN auths :
                            auths[ref] \in [doc : Grants, consumed : 0..MaxUses]
    /\ question \in [Callers -> Questions \cup {Nil}]
    /\ answer \in [Callers -> {Nil, Error} \cup {Decision(b) : b \in BOOLEAN}
                                 \cup {HashAnswer(h) : h \in Hashes}]
    /\ \A c \in Callers : reply[c] # Nil => Waiting(c)
    /\ starts \in 0..MaxStarts /\ edits \in 0..MaxEdits

(* What a Rule's comment says of a value, for every field with a rule.     *)
Permits(doc, projection) ==
    \A field \in DOMAIN doc.rules :
        /\ field \in DOMAIN projection
        /\ LET rule == doc.rules[field]
               val  == projection[field]
           IN  IF ListsValues(rule)
               THEN \E i \in DOMAIN rule.equals : rule.equals[i] = val
               ELSE rule.max # Nil \/ rule.min # Nil =>
                        /\ val.kind = "number"
                        /\ rule.max # Nil => val.n <= rule.max
                        /\ rule.min # Nil => val.n >= rule.min

Permitted(c) ==
    \E doc \in inForce[c] : Permits(doc, question[c].projection)

Answered(c, kind) == answer[c] # Nil /\ answer[c].kind = kind

Allowed(c) == Answered(c, "decision") /\ answer[c].allowed

(* The adapter never fails open: when it says allowed, an authority held,  *)
(* while the caller waited, a document for that very ref that permits that *)
(* projection.  Restarts, lost and foreign responses, refused directories  *)
(* and aborted handlers never add up to an allow.                          *)
AllowIsPermitted ==
    \A c \in Callers : Allowed(c) => Permitted(c)

(* An intent_ref pins its hash: as long as no seed file was edited, two    *)
(* answers for one ref are the same hash, across restarts, amendments and  *)
(* recorded uses (D-012: what keeps sealed packages verifiable).           *)
HashIsPinned ==
    edits = 0 =>
        \A c, d \in Callers :
            /\ Answered(c, "hash") /\ Answered(d, "hash")
            /\ question[c].ref = question[d].ref
            => answer[c].hash = answer[d].hash

(* A commitment carries the permission: the hash answered for a ref under  *)
(* which an execution was allowed is the hash of no document that could    *)
(* answer that execution with anything but allowed.  (Rules that differ in *)
(* writing only may share a hash; rules that judge differently may not.)   *)
CommitmentCarriesPermission ==
    \A c, d \in Callers :
        /\ edits = 0
        /\ Allowed(c) /\ Answered(d, "hash")
        /\ question[c].ref = question[d].ref
        => \A doc \in Documents :
              HashConstraints([doc |-> doc, consumed |-> 0]) = answer[d].hash
              => CheckOutcomes(doc, question[c].projection) = {"allowed"}

(* cmd/mock-authority/main.go:24, "nothing below main panics": no handler  *)
(* aborts its connection.                                                  *)
NothingPanics == \A c \in Callers : reply[c] # Aborted

============================================================================
