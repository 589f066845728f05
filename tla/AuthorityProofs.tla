-------------------------- MODULE AuthorityProofs --------------------------
(***************************************************************************)
(* The intent adapter never fails open, a ref's hash never moves, and what *)
(* a hash stands for is what was allowed: for every number of callers,     *)
(* seed files, restarts and recorded uses.                                 *)
(***************************************************************************)
EXTENDS Authority, TLAPS

(* The call's variables are functions of the callers. *)
Shape ==
    /\ question = [c \in Callers |-> question[c]]
    /\ reply = [c \in Callers |-> reply[c]]
    /\ answer = [c \in Callers |-> answer[c]]
    /\ inForce = [c \in Callers |-> inForce[c]]

(* Why an allow is permitted: a document still in memory was in force      *)
(* for everyone who waits, and a response that says allowed, on its way    *)
(* back, was permitted when it was made, whatever the authority has become *)
(* since.                                                                  *)
SaysAllowed(r) ==
    r # Nil /\ r.status = "2xx" /\ r.body.json /\ r.body.allowed

AllowInv ==
    /\ auths # Nil => auths = [ref \in DOMAIN auths |->
            [doc |-> auths[ref].doc, consumed |-> auths[ref].consumed]]
    /\ \A c \in Callers :
        /\ question[c] = Nil => reply[c] = Nil /\ answer[c] = Nil
        /\ Waiting(c) => Held(auths, question[c]) \subseteq inForce[c]
        /\ SaysAllowed(reply[c]) \/ Allowed(c) => Permitted(c)

Inv == Shape /\ AllowInv

(* The mock's evaluation, in whatever order it ranges over the rules, says *)
(* allowed only for what its rules permit. *)
LEMMA OutcomeIsSound ==
    ASSUME NEW doc, NEW projection,
           "allowed" \in CheckOutcomes(doc, projection)
    PROVE  Permits(doc, projection)
<1>1. \A field \in DOMAIN doc.rules :
        FieldOutcome(doc.rules[field], projection, field) = "allowed"
  BY DEF CheckOutcomes
<1>2. ASSUME NEW field \in DOMAIN doc.rules
      PROVE  /\ field \in DOMAIN projection
             /\ Satisfies(doc.rules[field], projection[field])
  BY <1>1 DEF FieldOutcome
<1>3. QED
  BY <1>2 DEF Permits, Satisfies, Range

(* What the handlers send back says allowed only to a check of which the   *)
(* document in memory says so. *)
LEMMA ReplyIsOutcome ==
    ASSUME NEW memory, NEW q, NEW r, SaysAllowed(r),
           \/ q.op = "check" /\ r \in CheckReplies(memory, q)
           \/ q.op # "check" /\ r \in HashReplies(memory, q)
    PROVE  /\ q.op = "check" /\ q.ref \in DOMAIN memory
           /\ "allowed" \in CheckOutcomes(memory[q.ref].doc, q.projection)
<1>1. Failed(Garbage).status = "other" /\ Aborted.status = "none"
  BY DEF Failed, Aborted
<1>2. ASSUME NEW h PROVE ~SaysAllowed(Ok(HashBody(h)))
  BY DEF SaysAllowed, Ok, HashBody, Empty
<1>3. ASSUME NEW o, SaysAllowed(Ok(DecisionBody(o))) PROVE o = "allowed"
  BY <1>3 DEF SaysAllowed, Ok, DecisionBody, Empty
<1>4. r # Failed(Garbage) /\ r # Aborted
  BY <1>1 DEF SaysAllowed
<1>5. q.op = "check" /\ r \in CheckReplies(memory, q)
  BY <1>2, <1>4 DEF HashReplies
<1>6. q.ref \in DOMAIN memory
  BY <1>4, <1>5 DEF CheckReplies
<1>7. PICK o \in CheckOutcomes(memory[q.ref].doc, q.projection) :
        r = IF o = "aborted" THEN Aborted ELSE Ok(DecisionBody(o))
  BY <1>4, <1>5 DEF CheckReplies
<1>8. o = "allowed"
  BY <1>3, <1>4, <1>7
<1>9. QED
  BY <1>5, <1>6, <1>7, <1>8

LEMMA ReplyIsSound ==
    ASSUME NEW memory, NEW q, NEW r, SaysAllowed(r), memory # Nil,
           \/ q.op = "check" /\ r \in CheckReplies(memory, q)
           \/ q.op # "check" /\ r \in HashReplies(memory, q)
    PROVE  \E doc \in Held(memory, q) : Permits(doc, q.projection)
<1>1. /\ q.op = "check" /\ q.ref \in DOMAIN memory
      /\ "allowed" \in CheckOutcomes(memory[q.ref].doc, q.projection)
  BY ReplyIsOutcome
<1>2. Permits(memory[q.ref].doc, q.projection)
  BY <1>1, OutcomeIsSound
<1>3. QED
  BY <1>1, <1>2 DEF Held

(* What the adapter makes of a response is an allow only if the response   *)
(* says so: an error, an odd body or an empty one is never taken for one. *)
LEMMA DecodeFailsClosed ==
    ASSUME NEW q, NEW r, r # Nil,
           Decode(q, r).kind = "decision", Decode(q, r).allowed
    PROVE  SaysAllowed(r)
  BY DEF Decode, Error, Decision, HashAnswer, SaysAllowed

(* Steps that leave calls alone and keep every document in memory. *)
LEMMA MemoryKept ==
    ASSUME Inv, UNCHANGED call,
           auths' # Nil => auths' = [ref \in DOMAIN auths' |->
               [doc |-> auths'[ref].doc, consumed |-> auths'[ref].consumed]],
           auths' # Nil => /\ auths # Nil
                           /\ DOMAIN auths' = DOMAIN auths
                           /\ \A ref \in DOMAIN auths :
                                auths'[ref].doc = auths[ref].doc
    PROVE  Inv'
<1>1. Shape'
  BY DEF Inv, Shape, call
<1>2. ASSUME NEW c \in Callers, Waiting(c)'
      PROVE  (Held(auths, question[c]) \subseteq inForce[c])'
  <2>1. Held(auths', question[c]) \subseteq Held(auths, question[c])
    BY DEF Held
  <2>2. QED
    BY <1>2, <2>1 DEF Inv, AllowInv, Waiting, call
<1>3. ASSUME NEW c \in Callers
      PROVE  /\ (question[c] = Nil => reply[c] = Nil /\ answer[c] = Nil)'
             /\ (SaysAllowed(reply[c]) \/ Allowed(c) => Permitted(c))'
  BY DEF Inv, AllowInv, call, Allowed, Answered, Permitted
<1>4. QED
  BY <1>1, <1>2, <1>3 DEF Inv, AllowInv

LEMMA StartKeeps == ASSUME Inv, Start PROVE Inv'
<1>1. Shape'
  BY DEF Inv, Shape, Start
<1>2. auths' = [ref \in DOMAIN auths' |->
            [doc |-> auths'[ref].doc, consumed |-> auths'[ref].consumed]]
  BY DEF Start, Load
<1>3. ASSUME NEW c \in Callers
      PROVE  /\ inForce[c] \subseteq inForce'[c]
             /\ Waiting(c) => Held(auths', question[c]) \subseteq inForce'[c]
  BY DEF Start
<1>4. ASSUME NEW c \in Callers
      PROVE  /\ (question[c] = Nil => reply[c] = Nil /\ answer[c] = Nil)'
             /\ (Waiting(c) => Held(auths, question[c]) \subseteq inForce[c])'
  BY <1>3 DEF Inv, AllowInv, Start, Waiting
<1>5. ASSUME NEW c \in Callers, (SaysAllowed(reply[c]) \/ Allowed(c))'
      PROVE  Permitted(c)'
  <2>1. Permitted(c)
    BY <1>5 DEF Inv, AllowInv, Start, Allowed, Answered
  <2>2. QED
    BY <1>3, <2>1 DEF Permitted, Start
<1>6. QED
  BY <1>1, <1>2, <1>4, <1>5 DEF Inv, AllowInv

LEMMA AskKeeps ==
    ASSUME Inv, NEW c \in Callers, NEW q \in Questions, Ask(c, q)
    PROVE  Inv'
<1>1. Shape'
  BY DEF Inv, Shape, Ask
<1>2. /\ question'[c] = q /\ inForce'[c] = Held(auths, q)
      /\ reply'[c] = Nil /\ answer'[c] = Nil /\ auths' = auths
  BY DEF Inv, Shape, AllowInv, Ask
<1>3. ASSUME NEW d \in Callers, d # c
      PROVE  /\ question'[d] = question[d] /\ inForce'[d] = inForce[d]
             /\ reply'[d] = reply[d] /\ answer'[d] = answer[d]
  BY <1>3 DEF Inv, Shape, Ask
<1>4. ASSUME NEW d \in Callers
      PROVE  /\ (question[d] = Nil => reply[d] = Nil /\ answer[d] = Nil)'
             /\ (Waiting(d) => Held(auths, question[d]) \subseteq inForce[d])'
             /\ (SaysAllowed(reply[d]) \/ Allowed(d) => Permitted(d))'
  <2>1. CASE d = c
    BY <1>2, <2>1 DEF Waiting, SaysAllowed, Allowed, Answered
  <2>2. CASE d # c
    BY <1>2, <1>3, <2>2
       DEF Inv, AllowInv, Waiting, SaysAllowed, Allowed, Answered, Permitted
  <2>3. QED
    BY <2>1, <2>2
<1>5. QED
  BY <1>1, <1>2, <1>4 DEF Inv, AllowInv

(* Steps that change one caller's response and answer only. *)
LEMMA ResponseFrame ==
    ASSUME Inv, NEW c \in Callers, Waiting(c),
           UNCHANGED <<auths, question, inForce>>,
           NEW r, reply' = [reply EXCEPT ![c] = r],
           NEW a, answer' = [answer EXCEPT ![c] = a],
           SaysAllowed(r) => Permitted(c),
           a # Nil /\ a.kind = "decision" /\ a.allowed => Permitted(c)
    PROVE  Inv'
<1>1. Shape'
  BY DEF Inv, Shape
<1>2. reply'[c] = r /\ answer'[c] = a
  BY DEF Inv, Shape
<1>3. ASSUME NEW d \in Callers, d # c
      PROVE  reply'[d] = reply[d] /\ answer'[d] = answer[d]
  BY <1>3 DEF Inv, Shape
<1>4. ASSUME NEW d \in Callers
      PROVE  /\ (question[d] = Nil => reply[d] = Nil /\ answer[d] = Nil)'
             /\ (Waiting(d) => Held(auths, question[d]) \subseteq inForce[d])'
             /\ (SaysAllowed(reply[d]) \/ Allowed(d) => Permitted(d))'
  <2>1. CASE d = c
    BY <1>2, <2>1
       DEF Inv, AllowInv, Waiting, SaysAllowed, Allowed, Answered, Permitted
  <2>2. CASE d # c
    BY <1>3, <2>2
       DEF Inv, AllowInv, Waiting, SaysAllowed, Allowed, Answered, Permitted
  <2>3. QED
    BY <2>1, <2>2
<1>5. QED
  BY <1>1, <1>4 DEF Inv, AllowInv

LEMMA ServeKeeps == ASSUME Inv, NEW c \in Callers, Serve(c) PROVE Inv'
<1>1. PICK r \in IF question[c].op = "check" THEN CheckReplies(auths, question[c])
                                             ELSE HashReplies(auths, question[c]) :
        reply' = [reply EXCEPT ![c] = r]
  BY DEF Serve
<1>2. ASSUME SaysAllowed(r) PROVE Permitted(c)
  <2>1. \E doc \in Held(auths, question[c]) : Permits(doc, question[c].projection)
    BY <1>1, <1>2, ReplyIsSound DEF Serve
  <2>2. Held(auths, question[c]) \subseteq inForce[c]
    BY DEF Serve, Inv, AllowInv
  <2>3. QED
    BY <2>1, <2>2 DEF Permitted
<1>3. answer' = [answer EXCEPT ![c] = Nil]
  BY DEF Serve, Inv, Shape, Waiting
<1>4. QED
  BY <1>1, <1>2, <1>3, ResponseFrame DEF Serve

LEMMA ReturnKeeps ==
    ASSUME Inv, NEW c \in Callers, Waiting(c), NEW a, Return(c, a),
           a.kind = "decision" /\ a.allowed => Permitted(c)
    PROVE  Inv'
  BY ResponseFrame DEF Return, SaysAllowed

(* Counting a use leaves the document as it is. *)
LEMMA SetConsumed ==
    ASSUME NEW auth, NEW x, NEW y, auth = [doc |-> x, consumed |-> y], NEW n
    PROVE  [auth EXCEPT !.consumed = n] = [doc |-> auth.doc, consumed |-> n]
  OBVIOUS

LEMMA UseKeepsDocuments ==
    ASSUME Inv, NEW ref \in Refs, RecordUse(ref)
    PROVE  /\ auths # Nil /\ DOMAIN auths' = DOMAIN auths
           /\ auths' = [r \in DOMAIN auths' |->
                 [doc |-> auths'[r].doc, consumed |-> auths'[r].consumed]]
           /\ \A r \in DOMAIN auths : auths'[r].doc = auths[r].doc
<1>1. auths # Nil /\ ref \in DOMAIN auths
  BY DEF RecordUse
<1>2. auths = [r \in DOMAIN auths |->
                [doc |-> auths[r].doc, consumed |-> auths[r].consumed]]
  BY <1>1 DEF Inv, AllowInv
<1>3. auths' = [auths EXCEPT ![ref] = [doc |-> auths[ref].doc,
                                       consumed |-> auths[ref].consumed + 1]]
  <2> DEFINE n == auths[ref].consumed + 1
  <2>1. auths[ref] = [doc |-> auths[ref].doc, consumed |-> auths[ref].consumed]
    BY <1>1, <1>2, Zenon
  <2>2. [auths[ref] EXCEPT !.consumed = n] = [doc |-> auths[ref].doc, consumed |-> n]
    BY <2>1, SetConsumed, Zenon
  <2>3. auths' = [auths EXCEPT ![ref] = [auths[ref] EXCEPT !.consumed = n]]
    BY DEF RecordUse
  <2>4. QED
    BY <2>2, <2>3, Zenon
<1>4. QED
  BY <1>1, <1>2, <1>3

LEMMA InvAlways == Spec => []Inv
<1>1. Init => Inv
  BY DEF Init, Inv, Shape, AllowInv, Waiting, SaysAllowed, Allowed, Answered
<1>2. Inv /\ [Next]_vars => Inv'
  <2> SUFFICES ASSUME Inv, [Next]_vars PROVE Inv'
    OBVIOUS
  <2>1. ASSUME NEW seed \in Seeds, AddSeed(seed) PROVE Inv'
    BY <2>1, MemoryKept DEF AddSeed, Inv, AllowInv
  <2>2. ASSUME NEW i \in DOMAIN dir, NEW doc \in Grants, EditSeed(i, doc)
        PROVE  Inv'
    BY <2>2, MemoryKept DEF EditSeed, Inv, AllowInv
  <2>3. CASE Start
    BY <2>3, StartKeeps
  <2>4. CASE Stop
    BY <2>4, MemoryKept DEF Stop
  <2>5. ASSUME NEW ref \in Refs, RecordUse(ref) PROVE Inv'
    <3>1. UNCHANGED call
      BY <2>5 DEF RecordUse
    <3>2. QED
      BY <2>5, <3>1, UseKeepsDocuments, MemoryKept
  <2>6. ASSUME NEW c \in Callers, NEW q \in Questions, Ask(c, q)
        PROVE  Inv'
    BY <2>6, AskKeeps
  <2>7. ASSUME NEW c \in Callers, Serve(c) PROVE Inv'
    BY <2>7, ServeKeeps
  <2>8. ASSUME NEW c \in Callers, Receive(c) PROVE Inv'
    <3>1. ASSUME Decode(question[c], reply[c]).kind = "decision",
                 Decode(question[c], reply[c]).allowed
          PROVE  Permitted(c)
      BY <2>8, <3>1, DecodeFailsClosed DEF Receive, Inv, AllowInv
    <3>2. QED
      BY <2>8, <3>1, ReturnKeeps DEF Receive
  <2>9. ASSUME NEW c \in Callers, ReceiveForeign(c) PROVE Inv'
    <3>1. PICK r \in {Ok(Garbage), Ok(Empty), Failed(Garbage), Failed(Empty)} :
            Return(c, Decode(question[c], r))
      BY <2>9 DEF ReceiveForeign
    <3>2. r.status = "other" \/ r.body = Garbage \/ r.body = Empty
      BY <3>1 DEF Ok, Failed
    <3>3. ~(Decode(question[c], r).kind = "decision"
              /\ Decode(question[c], r).allowed)
      BY <3>2 DEF Decode, Error, Decision, HashAnswer, Garbage, Empty
    <3>4. QED
      BY <2>9, <3>1, <3>3, ReturnKeeps DEF ReceiveForeign
  <2>10. ASSUME NEW c \in Callers, Unreachable(c) PROVE Inv'
    BY <2>10, ReturnKeeps DEF Unreachable, Error
  <2>11. CASE UNCHANGED vars
    BY <2>11, MemoryKept DEF vars, Inv, AllowInv
  <2>12. QED
    BY <2>1, <2>2, <2>3, <2>4, <2>5, <2>6, <2>7, <2>8, <2>9, <2>10, <2>11
       DEF Next
<1>3. QED
  BY <1>1, <1>2, PTL DEF Spec

(* The invariant behind it: documents in memory are in force for whoever   *)
(* waits, and an allow on its way back was permitted when it was made. *)
THEOREM AllowInvariant == Spec => []AllowInv
<1>1. Inv => AllowInv
  BY DEF Inv
<1>2. QED
  BY <1>1, InvAlways, PTL

(* The adapter never fails open: an allow it returns was the verdict of a  *)
(* document that an authority held while the caller waited. *)
THEOREM NeverFailsOpen == Spec => []AllowIsPermitted
<1>1. AllowInv => AllowIsPermitted
  BY DEF AllowInv, AllowIsPermitted
<1>2. QED
  BY <1>1, AllowInvariant, PTL

-----------------------------------------------------------------------------
(* What an intent_ref pins: the document of the first file that names it.  *)

Pins(ref, doc) ==
    \E i \in DOMAIN dir :
        /\ dir[i].ref = ref /\ dir[i].doc = doc /\ doc \in Grants
        /\ \A j \in DOMAIN dir : j < i => dir[j].ref # ref

HashOf(doc) == H(JCS(Encode(doc)))

(* An answer that grants something grants it by the pinned document.       *)
Grounded(q, a) ==
    /\ a.kind = "hash" => \E doc : Pins(q.ref, doc) /\ a.hash = HashOf(doc)
    /\ a.kind = "decision" /\ a.allowed =>
           \E doc : /\ Pins(q.ref, doc)
                    /\ CheckOutcomes(doc, q.projection) = {"allowed"}

Unedited ==
    /\ dir \in Seq(Seeds)
    /\ auths # Nil => \A ref \in DOMAIN auths : Pins(ref, auths[ref].doc)
    /\ \A c \in Callers :
        /\ reply[c] # Nil => Grounded(question[c], Decode(question[c], reply[c]))
        /\ answer[c] # Nil => Grounded(question[c], answer[c])

PinInv == edits \in Nat /\ (edits = 0 => Unedited)

LEMMA PinsOneDocument ==
    ASSUME dir \in Seq(Seeds), NEW ref, NEW d, NEW e, Pins(ref, d), Pins(ref, e)
    PROVE  d = e
<1>1. PICK i \in DOMAIN dir :
        /\ dir[i].ref = ref /\ dir[i].doc = d
        /\ \A k \in DOMAIN dir : k < i => dir[k].ref # ref
  BY DEF Pins
<1>2. PICK j \in DOMAIN dir :
        /\ dir[j].ref = ref /\ dir[j].doc = e
        /\ \A k \in DOMAIN dir : k < j => dir[k].ref # ref
  BY DEF Pins
<1>3. i \in Nat /\ j \in Nat
  OBVIOUS
<1>4. i = j
  BY <1>1, <1>2, <1>3
<1>5. QED
  BY <1>1, <1>2, <1>4

(* A new file comes after all the others.                                  *)
LEMMA AppendKeepsPins ==
    ASSUME dir \in Seq(Seeds), NEW seed \in Seeds, AddSeed(seed), NEW ref, NEW doc,
           Pins(ref, doc)
    PROVE  Pins(ref, doc)'
<1>1. PICK i \in DOMAIN dir :
        /\ dir[i].ref = ref /\ dir[i].doc = doc /\ doc \in Grants
        /\ \A k \in DOMAIN dir : k < i => dir[k].ref # ref
  BY DEF Pins
<1>2. /\ DOMAIN dir = 1..Len(dir) /\ DOMAIN dir' = 1..(Len(dir) + 1)
      /\ Len(dir) \in Nat /\ \A k \in DOMAIN dir : dir'[k] = dir[k]
  BY DEF AddSeed
<1>3. i \in DOMAIN dir' /\ \A k \in DOMAIN dir' : k < i => k \in DOMAIN dir
  BY <1>2
<1>4. QED
  BY <1>1, <1>2, <1>3 DEF Pins

(* Steps that leave the files and the memory's documents alone.            *)
LEMMA PinsFrame ==
    ASSUME NEW ref, NEW doc, UNCHANGED dir
    PROVE  Pins(ref, doc) <=> Pins(ref, doc)'
  BY DEF Pins

LEMMA GroundedFrame ==
    ASSUME NEW q, NEW a, Grounded(q, a),
           \A ref, doc : Pins(ref, doc) => Pins(ref, doc)'
    PROVE  Grounded(q, a)'
  BY DEF Grounded

(* What the handlers answer from pinned documents.                         *)
LEMMA ServedIsGrounded ==
    ASSUME \A ref \in DOMAIN auths : Pins(ref, auths[ref].doc), NEW q,
           NEW r \in IF q.op = "check" THEN CheckReplies(auths, q)
                                       ELSE HashReplies(auths, q),
           r # Nil
    PROVE  Grounded(q, Decode(q, r))
<1>1. ASSUME Decode(q, r).kind = "hash"
      PROVE  \E doc : Pins(q.ref, doc) /\ Decode(q, r).hash = HashOf(doc)
  <2>1. q.op # "check" /\ Decode(q, r) = HashAnswer(r.body.hash) /\ r.status = "2xx"
    BY <1>1 DEF Decode, Error, Decision, HashAnswer
  <2>2. r # Failed(Garbage)
    BY <2>1 DEF Failed
  <2>3. q.ref \in DOMAIN auths /\ r = Ok(HashBody(HashConstraints(auths[q.ref])))
    BY <2>1, <2>2 DEF HashReplies
  <2>4. r.body.hash = HashOf(auths[q.ref].doc)
    BY <2>3 DEF Ok, HashBody, Empty, HashConstraints, HashOf
  <2>5. QED
    BY <2>1, <2>3, <2>4 DEF HashAnswer
<1>2. ASSUME Decode(q, r).kind = "decision", Decode(q, r).allowed
      PROVE  \E doc : /\ Pins(q.ref, doc)
                      /\ CheckOutcomes(doc, q.projection) = {"allowed"}
  <2>1. SaysAllowed(r)
    BY <1>2, DecodeFailsClosed
  <2>2. /\ q.op = "check" /\ q.ref \in DOMAIN auths
        /\ "allowed" \in CheckOutcomes(auths[q.ref].doc, q.projection)
    BY <2>1, ReplyIsOutcome
  <2>3. CheckOutcomes(auths[q.ref].doc, q.projection) = {"allowed"}
    BY <2>2 DEF CheckOutcomes
  <2>4. QED
    BY <2>2, <2>3
<1>3. QED
  BY <1>1, <1>2 DEF Grounded

(* A directory that New loads pins what it loads. *)
LEMMA LoadedArePinned ==
    ASSUME dir \in Seq(Seeds), Loads(dir), NEW ref \in DOMAIN Load(dir)
    PROVE  Pins(ref, Load(dir)[ref].doc)
<1> DEFINE seed == CHOOSE f \in Range(dir) : f.ref = ref
<1>1. \E f \in Range(dir) : f.ref = ref
  BY DEF Load
<1>2. seed \in Range(dir) /\ seed.ref = ref
  BY <1>1
<1>3. Load(dir)[ref].doc = seed.doc
  BY DEF Load
<1> HIDE DEF seed
<1>4. PICK i \in DOMAIN dir : dir[i] = seed
  BY <1>2 DEF Range
<1>5. dir[i] \in Seeds /\ dir[i] # Broken
  BY <1>4, <1>2 DEF Loads
<1>6. seed.doc \in Grants
  BY <1>4, <1>5 DEF Seeds
<1>7. \A j \in DOMAIN dir : j < i => dir[j].ref # ref
  BY <1>2, <1>4 DEF Loads
<1>8. QED
  BY <1>2, <1>3, <1>4, <1>6, <1>7 DEF Pins

(* Steps that leave the files, and the calls, as they are.                 *)
LEMMA PinsKept ==
    ASSUME Unedited, UNCHANGED <<dir, question, reply, answer>>,
           auths' # Nil => \A ref \in DOMAIN auths' : Pins(ref, auths'[ref].doc)
    PROVE  Unedited'
<1>1. \A ref, doc : Pins(ref, doc) => Pins(ref, doc)'
  BY PinsFrame
<1>2. QED
  BY <1>1, GroundedFrame DEF Unedited

(* Steps of one call.                                                      *)
LEMMA CallKeepsPins ==
    ASSUME Inv, Unedited, NEW c \in Callers, UNCHANGED <<dir, auths, question>>,
           NEW r, reply' = [reply EXCEPT ![c] = r],
           NEW a, answer' = [answer EXCEPT ![c] = a],
           r # Nil => Grounded(question[c], Decode(question[c], r)),
           a # Nil => Grounded(question[c], a)
    PROVE  Unedited'
<1>1. \A ref, doc : Pins(ref, doc) => Pins(ref, doc)'
  BY PinsFrame
<1>2. reply'[c] = r /\ answer'[c] = a
  BY DEF Inv, Shape
<1>3. ASSUME NEW d \in Callers
      PROVE  /\ reply'[d] # Nil => Grounded(question[d], Decode(question[d], reply'[d]))
             /\ answer'[d] # Nil => Grounded(question[d], answer'[d])
  <2>1. CASE d = c
    BY <1>2, <2>1
  <2>2. CASE d # c
    BY <2>2 DEF Inv, Shape, Unedited
  <2>3. QED
    BY <2>1, <2>2
<1>4. QED
  BY <1>1, <1>3, GroundedFrame DEF Unedited

(* Every step but an edit in place leaves them as they are.                *)
LEMMA StepKeepsPins ==
    ASSUME Inv, Unedited, [Next]_vars, edits \in Nat, edits' = edits
    PROVE  Unedited'
<1>1. ASSUME NEW seed \in Seeds, AddSeed(seed) PROVE Unedited'
  <2>1. \A ref, doc : Pins(ref, doc) => Pins(ref, doc)'
    BY <1>1, AppendKeepsPins DEF Unedited
  <2>2. dir' \in Seq(Seeds)
    BY <1>1 DEF AddSeed, Unedited
  <2>3. QED
    BY <1>1, <2>1, <2>2, GroundedFrame DEF AddSeed, call, Unedited
<1>2. CASE Start
  <2>1. \A ref \in DOMAIN auths' : Pins(ref, auths'[ref].doc)
    BY <1>2, LoadedArePinned DEF Start, Unedited
  <2>2. QED
    BY <1>2, <2>1, PinsKept DEF Start
<1>3. CASE Stop
  BY <1>3, PinsKept DEF Stop, call
<1>4. ASSUME NEW ref \in Refs, RecordUse(ref) PROVE Unedited'
  <2>1. \A r \in DOMAIN auths' : Pins(r, auths'[r].doc)
    BY <1>4, UseKeepsDocuments DEF Unedited
  <2>2. QED
    BY <1>4, <2>1, PinsKept DEF RecordUse, call
<1>5. ASSUME NEW c \in Callers, NEW q \in Questions, Ask(c, q) PROVE Unedited'
  <2>1. question'[c] = q /\ reply'[c] = Nil /\ answer'[c] = Nil
    BY <1>5 DEF Ask, Inv, Shape, AllowInv
  <2>2. ASSUME NEW d \in Callers, d # c PROVE question'[d] = question[d]
    BY <1>5, <2>2 DEF Ask, Inv, Shape
  <2>3. \A ref, doc : Pins(ref, doc) => Pins(ref, doc)'
    BY <1>5, PinsFrame DEF Ask
  <2>4. QED
    BY <1>5, <2>1, <2>2, <2>3, GroundedFrame DEF Ask, Unedited
<1>6. ASSUME NEW c \in Callers, Serve(c) PROVE Unedited'
  <2>1. PICK r \in IF question[c].op = "check" THEN CheckReplies(auths, question[c])
                                               ELSE HashReplies(auths, question[c]) :
          reply' = [reply EXCEPT ![c] = r]
    BY <1>6 DEF Serve
  <2>2. r # Nil => Grounded(question[c], Decode(question[c], r))
    BY <1>6, <2>1, ServedIsGrounded DEF Serve, Unedited
  <2>3. answer' = [answer EXCEPT ![c] = Nil]
    BY <1>6 DEF Serve, Inv, Shape, Waiting
  <2>4. QED
    BY <1>6, <2>1, <2>2, <2>3, CallKeepsPins DEF Serve
<1>7. ASSUME NEW c \in Callers, NEW a, Return(c, a), Grounded(question[c], a)
      PROVE  Unedited'
  BY <1>7, CallKeepsPins DEF Return
<1>8. ASSUME NEW c \in Callers, Receive(c) PROVE Unedited'
  BY <1>7, <1>8 DEF Receive, Unedited
<1>9. ASSUME NEW c \in Callers, ReceiveForeign(c) PROVE Unedited'
  <2>1. PICK r \in {Ok(Garbage), Ok(Empty), Failed(Garbage), Failed(Empty)} :
          Return(c, Decode(question[c], r))
    BY <1>9 DEF ReceiveForeign
  <2>2. r.status = "other" \/ r.body = Garbage \/ r.body = Empty
    BY <2>1 DEF Ok, Failed
  <2>3. Grounded(question[c], Decode(question[c], r))
    BY <2>2 DEF Grounded, Decode, Error, Decision, HashAnswer, Garbage, Empty
  <2>4. QED
    BY <1>7, <2>1, <2>3
<1>10. ASSUME NEW c \in Callers, Unreachable(c) PROVE Unedited'
  <2>1. Grounded(question[c], Error)
    BY DEF Grounded, Error
  <2>2. QED
    BY <1>7, <1>10, <2>1 DEF Unreachable
<1>11. CASE UNCHANGED vars
  BY <1>11, PinsKept DEF vars, call, Unedited
<1>12. ASSUME NEW i \in DOMAIN dir, NEW doc \in Grants, EditSeed(i, doc)
       PROVE  FALSE
  BY <1>12 DEF EditSeed
<1>13. QED
  BY <1>12, <1>1, <1>2, <1>3, <1>4, <1>5, <1>6, <1>8, <1>9, <1>10, <1>11
     DEF Next

(* Edits are counted. *)
LEMMA EditsAreCounted ==
    ASSUME [Next]_vars
    PROVE  edits' = edits \/ edits' = edits + 1
<1>1. ASSUME NEW seed \in Seeds, AddSeed(seed) PROVE edits' = edits
  BY <1>1 DEF AddSeed
<1>2. ASSUME NEW i \in DOMAIN dir, NEW doc \in Grants, EditSeed(i, doc)
      PROVE  edits' = edits + 1
  BY <1>2 DEF EditSeed
<1>3. CASE Start
  BY <1>3 DEF Start
<1>4. CASE Stop
  BY <1>4 DEF Stop
<1>5. ASSUME NEW ref \in Refs, RecordUse(ref) PROVE edits' = edits
  BY <1>5 DEF RecordUse
<1>6. ASSUME NEW c \in Callers, NEW q \in Questions, Ask(c, q) PROVE edits' = edits
  BY <1>6 DEF Ask
<1>7. ASSUME NEW c \in Callers, Serve(c) PROVE edits' = edits
  BY <1>7 DEF Serve
<1>8. ASSUME NEW c \in Callers, Receive(c) \/ ReceiveForeign(c) \/ Unreachable(c)
      PROVE  edits' = edits
  BY <1>8 DEF Receive, ReceiveForeign, Unreachable, Return
<1>9. CASE UNCHANGED vars
  BY <1>9 DEF vars
<1>10. QED
  BY <1>1, <1>2, <1>3, <1>4, <1>5, <1>6, <1>7, <1>8, <1>9 DEF Next

(* As long as no file is edited, every reply on its way and every answer   *)
(* rests on what the first file of its ref says. *)
LEMMA PinAlways == Spec => []PinInv
<1>1. Init => PinInv
  <2>1. ASSUME Init PROVE Unedited
    <3>1. PICK seed \in Seeds : dir = <<seed>>
      BY <2>1 DEF Init
    <3>2. dir \in Seq(Seeds)
      BY <3>1
    <3>3. auths = Nil /\ \A c \in Callers : reply[c] = Nil /\ answer[c] = Nil
      BY <2>1 DEF Init
    <3>4. QED
      BY <3>2, <3>3 DEF Unedited
  <2>2. QED
    BY <2>1 DEF Init, PinInv
<1>2. Inv /\ PinInv /\ [Next]_vars => PinInv'
  BY StepKeepsPins, EditsAreCounted DEF PinInv
<1>3. QED
  BY <1>1, <1>2, InvAlways, PTL DEF Spec

(* One hash per intent_ref, for any number of files, restarts and uses.    *)
THEOREM HashesArePinned == Spec => []HashIsPinned
<1>1. PinInv => HashIsPinned
  <2> SUFFICES ASSUME PinInv, edits = 0, NEW c \in Callers, NEW d \in Callers,
                      Answered(c, "hash"), Answered(d, "hash"),
                      question[c].ref = question[d].ref
               PROVE  answer[c].hash = answer[d].hash
    BY DEF HashIsPinned
  <2>1. Unedited
    BY DEF PinInv
  <2>2. PICK doc : Pins(question[c].ref, doc) /\ answer[c].hash = HashOf(doc)
    BY <2>1 DEF Unedited, Answered, Grounded
  <2>3. PICK other : Pins(question[c].ref, other) /\ answer[d].hash = HashOf(other)
    BY <2>1 DEF Unedited, Answered, Grounded
  <2>4. doc = other
    BY <2>1, <2>2, <2>3, PinsOneDocument DEF Unedited
  <2>5. QED
    BY <2>2, <2>3, <2>4
<1>2. QED
  BY <1>1, PinAlways, PTL

-----------------------------------------------------------------------------
(* Rules that are written alike judge alike.                               *)
LEMMA WrittenAlike ==
    ASSUME NEW rule, rule = [equals |-> rule.equals, max |-> rule.max, min |-> rule.min],
           NEW twin, twin = [equals |-> twin.equals, max |-> twin.max, min |-> twin.min],
           EncodeRule(rule) = EncodeRule(twin), NEW projection, NEW field
    PROVE  FieldOutcome(rule, projection, field) = FieldOutcome(twin, projection, field)
<1> DEFINE written(r) == IF r.equals = <<>> THEN Nil ELSE r.equals
<1>1. \A r : r = [equals |-> r.equals, max |-> r.max, min |-> r.min]
             => EncodeRule(r) = [equals |-> written(r), max |-> r.max, min |-> r.min]
  BY DEF EncodeRule
<1>2. written(rule) = written(twin) /\ rule.max = twin.max /\ rule.min = twin.min
  <2> HIDE DEF written
  <2>1. [equals |-> written(rule), max |-> rule.max, min |-> rule.min]
          = [equals |-> written(twin), max |-> twin.max, min |-> twin.min]
    BY <1>1
  <2>2. QED
    BY <2>1
<1>3. ListsValues(rule) <=> ListsValues(twin)
  BY <1>2 DEF ListsValues
<1>4. ListsValues(rule) => rule.equals = twin.equals
  BY <1>2, <1>3 DEF ListsValues
<1>5. \A val : /\ Satisfies(rule, val) <=> Satisfies(twin, val)
               /\ Panics(rule, val) <=> Panics(twin, val)
  BY <1>2, <1>3, <1>4 DEF Satisfies, Panics
<1>6. QED
  BY <1>5 DEF FieldOutcome

(* A hash tells apart any two documents that could judge differently.      *)
LEMMA HashTellsOutcomes ==
    ASSUME NEW doc \in Documents, NEW other \in Documents,
           HashOf(doc) = HashOf(other), NEW projection
    PROVE  CheckOutcomes(doc, projection) = CheckOutcomes(other, projection)
<1>1. Encode(doc) = Encode(other)
  BY DEF HashOf, H, JCS
<1>2. \A d \in Documents : Encode(d).rules = [f \in DOMAIN d.rules |-> EncodeRule(d.rules[f])]
  BY DocumentsAssumption DEF Encode
<1>3. [f \in DOMAIN doc.rules |-> EncodeRule(doc.rules[f])]
        = [f \in DOMAIN other.rules |-> EncodeRule(other.rules[f])]
  BY <1>1, <1>2
<1>4. DOMAIN doc.rules = DOMAIN other.rules
  BY <1>3
<1>5. ASSUME NEW f \in DOMAIN doc.rules
      PROVE  FieldOutcome(doc.rules[f], projection, f)
               = FieldOutcome(other.rules[f], projection, f)
  <2>1. EncodeRule(doc.rules[f]) = EncodeRule(other.rules[f])
    BY <1>3, <1>4
  <2>2. \A d \in Documents : f \in DOMAIN d.rules =>
            d.rules[f] = [equals |-> d.rules[f].equals, max |-> d.rules[f].max,
                          min |-> d.rules[f].min]
    BY DocumentsAssumption
  <2>3. /\ doc.rules[f] = [equals |-> doc.rules[f].equals, max |-> doc.rules[f].max,
                           min |-> doc.rules[f].min]
        /\ other.rules[f] = [equals |-> other.rules[f].equals,
                             max |-> other.rules[f].max, min |-> other.rules[f].min]
    BY <2>2, <1>4
  <2>4. QED
    BY <2>1, <2>3, WrittenAlike
<1>6. {FieldOutcome(doc.rules[f], projection, f) : f \in DOMAIN doc.rules}
        = {FieldOutcome(other.rules[f], projection, f) : f \in DOMAIN other.rules}
  BY <1>4, <1>5
<1>7. QED
  BY <1>6 DEF CheckOutcomes

(* Whoever trusts a hash answered for a ref may trust the allow answered   *)
(* for it: every document with that hash gives the same verdict. *)
THEOREM CommitmentsCarryPermission == Spec => []CommitmentCarriesPermission
<1>1. PinInv => CommitmentCarriesPermission
  <2> SUFFICES ASSUME PinInv, edits = 0, NEW c \in Callers, NEW d \in Callers,
                      Allowed(c), Answered(d, "hash"),
                      question[c].ref = question[d].ref,
                      NEW doc \in Documents,
                      HashConstraints([doc |-> doc, consumed |-> 0]) = answer[d].hash
               PROVE  CheckOutcomes(doc, question[c].projection) = {"allowed"}
    BY DEF CommitmentCarriesPermission
  <2>1. Unedited
    BY DEF PinInv
  <2>2. PICK pinned : /\ Pins(question[c].ref, pinned)
                      /\ CheckOutcomes(pinned, question[c].projection) = {"allowed"}
    BY <2>1 DEF Unedited, Allowed, Answered, Grounded
  <2>3. PICK other : Pins(question[c].ref, other) /\ answer[d].hash = HashOf(other)
    BY <2>1 DEF Unedited, Answered, Grounded
  <2>4. pinned = other /\ pinned \in Documents
    BY <2>1, <2>2, <2>3, PinsOneDocument, GrantsAssumption DEF Unedited, Pins
  <2>5. HashOf(doc) = HashOf(pinned)
    BY <2>3, <2>4 DEF HashConstraints, HashOf
  <2>6. QED
    BY <2>2, <2>4, <2>5, HashTellsOutcomes
<1>2. QED
  BY <1>1, PinAlways, PTL

----------------------------------------------------------------------------
(* Types                                                                   *)

(* What the handlers send. *)
IsReply(r) ==
    \/ r = Aborted \/ r = Failed(Garbage)
    \/ \E o : r = Ok(DecisionBody(o))
    \/ \E h \in Hashes : r = Ok(HashBody(h))

IsForeign(r) == r \in {Ok(Garbage), Ok(Empty), Failed(Garbage), Failed(Empty)}

Answers == {Error} \cup {Decision(b) : b \in BOOLEAN} \cup {HashAnswer(h) : h \in Hashes}

Entries == [doc : Grants, consumed : 0..MaxUses]

FilesOK == /\ dir \in Seq(Seeds) /\ Len(dir) \in 1..MaxFiles
           /\ starts \in 0..MaxStarts /\ edits \in 0..MaxEdits

MemoryOK == auths # Nil => /\ DOMAIN auths \subseteq Refs
                           /\ \A ref \in DOMAIN auths : auths[ref] \in Entries

CallsOK ==
    /\ question \in [Callers -> Questions \cup {Nil}]
    /\ answer \in [Callers -> {Nil} \cup Answers]
    /\ reply = [c \in Callers |-> reply[c]]
    /\ \A c \in Callers : reply[c] # Nil => Waiting(c) /\ IsReply(reply[c])

TypeInv == FilesOK /\ MemoryOK /\ CallsOK

LEMMA TypeInvTypes == TypeInv => TypeOK
<1> SUFFICES ASSUME TypeInv PROVE TypeOK
  OBVIOUS
<1> DEFINE D == {Decision(b) : b \in BOOLEAN}
           X == {HashAnswer(h) : h \in Hashes}
<1>1. answer \in [Callers -> {Nil, Error} \cup D \cup X]
  <2>1. answer \in [Callers -> {Nil} \cup ({Error} \cup D \cup X)]
    BY DEF TypeInv, CallsOK, Answers
  <2> HIDE DEF D, X
  <2>2. QED
    BY <2>1
<1>2. QED
  BY <1>1 DEF TypeInv, FilesOK, MemoryOK, CallsOK, Entries, TypeOK

(* Whatever comes back, the adapter makes an answer of it. *)
LEMMA DecodeAnswers ==
    ASSUME NEW q, NEW r, IsReply(r) \/ IsForeign(r)
    PROVE  Decode(q, r) \in Answers
<1>0. Error \in Answers
  BY DEF Answers
<1>1. \A b \in BOOLEAN : Decision(b) \in Answers
  BY DEF Answers
<1>2. \A h \in Hashes : HashAnswer(h) \in Answers
  BY DEF Answers
<1>3. CASE r = Aborted \/ r = Failed(Garbage) \/ r = Failed(Empty)
  BY <1>0, <1>3 DEF Decode, Aborted, Failed
<1>4. CASE r = Ok(Garbage)
  BY <1>0, <1>4 DEF Decode, Ok, Garbage
<1>5. ASSUME NEW o, r = Ok(DecisionBody(o)) PROVE Decode(q, r) \in Answers
  <2>1. r.status = "2xx" /\ r.body = DecisionBody(o)
    BY <1>5 DEF Ok
  <2>2. r.body.json = TRUE /\ r.body.allowed = (o = "allowed") /\ r.body.hash = Nil
    BY <2>1 DEF DecisionBody, Empty
  <2>3. Decode(q, r) \in {Error, Decision(r.body.allowed)}
    BY <2>1, <2>2 DEF Decode
  <2>4. r.body.allowed \in BOOLEAN
    BY <2>2
  <2>5. QED
    BY <1>0, <1>1, <2>3, <2>4
<1>6. CASE r = Ok(Empty)
  <2>1. r.status = "2xx" /\ r.body = Empty
    BY <1>6 DEF Ok
  <2>2. r.body.json = TRUE /\ r.body.allowed = FALSE /\ r.body.hash = Nil
    BY <2>1 DEF Empty
  <2>3. Decode(q, r) \in {Error, Decision(r.body.allowed)}
    BY <2>1, <2>2 DEF Decode
  <2>4. r.body.allowed \in BOOLEAN
    BY <2>2
  <2>5. QED
    BY <1>0, <1>1, <2>3, <2>4
<1>7. ASSUME NEW h \in Hashes, r = Ok(HashBody(h)) PROVE Decode(q, r) \in Answers
  <2>1. r.status = "2xx" /\ r.body = HashBody(h)
    BY <1>7 DEF Ok
  <2>2. r.body.json = TRUE /\ r.body.allowed = FALSE /\ r.body.hash = h
    BY <2>1 DEF HashBody, Empty
  <2>3. Decode(q, r) \in {Error, Decision(r.body.allowed), HashAnswer(h)}
    BY <2>1, <2>2 DEF Decode
  <2>4. r.body.allowed \in BOOLEAN
    BY <2>2
  <2>5. QED
    BY <1>0, <1>1, <1>2, <2>3, <2>4
<1>8. QED
  BY <1>3, <1>4, <1>5, <1>6, <1>7 DEF IsReply, IsForeign

LEMMA RepliesAreReplies ==
    ASSUME NEW q, MemoryOK, auths # Nil,
           NEW r \in CheckReplies(auths, q) \cup HashReplies(auths, q)
    PROVE  IsReply(r)
<1>1. CASE r \in CheckReplies(auths, q)
  <2>1. r = Failed(Garbage) \/ r = Aborted \/ \E o : r = Ok(DecisionBody(o))
    BY <1>1 DEF CheckReplies
  <2>2. QED
    BY <2>1 DEF IsReply
<1>2. CASE r \in HashReplies(auths, q)
  <2>1. CASE q.ref \notin DOMAIN auths
    BY <1>2, <2>1 DEF HashReplies, IsReply
  <2>2. CASE q.ref \in DOMAIN auths
    <3>1. r = Ok(HashBody(HashConstraints(auths[q.ref])))
      BY <1>2, <2>2 DEF HashReplies
    <3>2. auths[q.ref] \in Entries
      BY <2>2 DEF MemoryOK
    <3>3. PICK doc \in Grants, k \in 0..MaxUses : auths[q.ref] = [doc |-> doc, consumed |-> k]
      BY <3>2 DEF Entries
    <3>4. HashConstraints(auths[q.ref]) \in Hashes
      BY <3>3 DEF Hashes
    <3>5. QED
      BY <3>1, <3>4 DEF IsReply
  <2>3. QED
    BY <2>1, <2>2
<1>3. QED
  BY <1>1, <1>2

LEMMA LoadedOK ==
    ASSUME dir \in Seq(Seeds), Loads(dir)
    PROVE  /\ DOMAIN Load(dir) \subseteq Refs
           /\ \A ref \in DOMAIN Load(dir) : Load(dir)[ref] \in Entries
<1>1. \A seed \in Range(dir) : seed \in [ref : Refs, doc : Grants]
  BY DEF Loads, Seeds, Range
<1>2. DOMAIN Load(dir) = {seed.ref : seed \in Range(dir)}
  BY DEF Load
<1>3. ASSUME NEW ref \in DOMAIN Load(dir) PROVE ref \in Refs /\ Load(dir)[ref] \in Entries
  <2>1. \E seed \in Range(dir) : seed.ref = ref
    BY <1>2
  <2> DEFINE s == CHOOSE seed \in Range(dir) : seed.ref = ref
  <2>2. s \in Range(dir) /\ s.ref = ref
    BY <2>1
  <2>3. s \in [ref : Refs, doc : Grants]
    BY <1>1, <2>2
  <2>4. Load(dir)[ref] = [doc |-> s.doc, consumed |-> 0]
    BY <1>2 DEF Load
  <2> HIDE DEF s
  <2>5. 0 \in 0..MaxUses
    BY AuthorityBounds
  <2>6. QED
    BY <2>2, <2>3, <2>4, <2>5 DEF Entries
<1>4. QED
  BY <1>3

(* A response reaches its caller, or is made for it. *)
LEMMA CallsFrame ==
    ASSUME CallsOK, NEW c \in Callers, Waiting(c), question' = question,
           NEW r, reply' = [reply EXCEPT ![c] = r],
           NEW x, answer' = [answer EXCEPT ![c] = x],
           \/ x = Nil /\ IsReply(r)
           \/ x \in Answers /\ r = Nil
    PROVE  CallsOK'
<1>1. /\ reply'[c] = r /\ answer'[c] = x /\ question'[c] = question[c]
      /\ reply' = [d \in Callers |-> reply'[d]]
      /\ \A d \in Callers : d # c => reply'[d] = reply[d] /\ answer'[d] = answer[d]
  BY DEF CallsOK
<1>2. answer' \in [Callers -> {Nil} \cup Answers]
  <2> HIDE DEF Answers
  <2>1. QED
    BY DEF CallsOK
<1>3. ASSUME NEW d \in Callers, reply'[d] # Nil PROVE Waiting(d)' /\ IsReply(reply'[d])
  <2>1. CASE d = c
    BY <1>1, <1>3, <2>1 DEF Waiting
  <2>2. CASE d # c
    BY <1>1, <1>3, <2>2 DEF CallsOK, Waiting
  <2>3. QED
    BY <2>1, <2>2
<1>4. QED
  BY <1>1, <1>2, <1>3 DEF CallsOK

LEMMA TypesInit == Init => TypeInv
<1> SUFFICES ASSUME Init PROVE TypeInv
  OBVIOUS
<1>1. FilesOK
  <2>1. PICK seed \in Seeds : dir = <<seed>>
    BY DEF Init
  <2>2. dir \in Seq(Seeds) /\ Len(dir) = 1
    BY <2>1
  <2>3. QED
    BY <2>2, AuthorityBounds DEF Init, FilesOK
<1>2. MemoryOK /\ CallsOK
  BY DEF Init, MemoryOK, CallsOK
<1>3. QED
  BY <1>1, <1>2 DEF TypeInv

LEMMA TypesStep == TypeInv /\ [Next]_vars => TypeInv'
<1> SUFFICES ASSUME TypeInv, [Next]_vars PROVE TypeInv'
  OBVIOUS
<1> USE AuthorityBounds
<1>0. FilesOK /\ MemoryOK /\ CallsOK
  BY DEF TypeInv
<1>1. ASSUME UNCHANGED call PROVE CallsOK'
  BY <1>0, <1>1 DEF call, CallsOK, Waiting
<1>2. ASSUME UNCHANGED auths PROVE MemoryOK'
  BY <1>0, <1>2 DEF MemoryOK
<1>3. ASSUME UNCHANGED <<dir, starts, edits>> PROVE FilesOK'
  BY <1>0, <1>3 DEF FilesOK
<1>4. ASSUME NEW seed \in Seeds, AddSeed(seed) PROVE TypeInv'
  <2>1. FilesOK'
    <3> HIDE DEF Seeds
    <3>1. QED
      BY <1>0, <1>4 DEF AddSeed, FilesOK
  <2>2. QED
    BY <1>1, <1>2, <1>4, <2>1 DEF AddSeed, TypeInv
<1>5. ASSUME NEW k \in DOMAIN dir, NEW doc \in Grants, EditSeed(k, doc) PROVE TypeInv'
  <2>1. dir[k] \in [ref : Refs, doc : Grants]
    BY <1>0, <1>5 DEF FilesOK, EditSeed, Seeds
  <2>2. [dir[k] EXCEPT !.doc = doc] \in Seeds
    BY <2>1 DEF Seeds
  <2>3. dir' = [dir EXCEPT ![k] = [dir[k] EXCEPT !.doc = doc]]
    BY <1>5 DEF EditSeed
  <2>4. dir' \in Seq(Seeds) /\ Len(dir') = Len(dir)
    <3>1. PICK z \in Seeds : z = [dir[k] EXCEPT !.doc = doc]
      BY <2>2
    <3> HIDE DEF Seeds
    <3>2. dir' = [dir EXCEPT ![k] = z]
      BY <2>3, <3>1
    <3>3. QED
      BY <1>0, <3>2 DEF FilesOK
  <2>5. FilesOK'
    BY <1>0, <1>5, <2>4 DEF FilesOK, EditSeed
  <2>6. QED
    BY <1>1, <1>2, <1>5, <2>5 DEF EditSeed, TypeInv
<1>6. CASE Start
  <2>1. MemoryOK'
    BY <1>0, <1>6, LoadedOK DEF Start, MemoryOK, FilesOK
  <2>2. FilesOK'
    BY <1>0, <1>6 DEF Start, FilesOK
  <2>3. CallsOK'
    BY <1>0, <1>6 DEF Start, CallsOK, Waiting
  <2>4. QED
    BY <2>1, <2>2, <2>3 DEF TypeInv
<1>7. CASE Stop
  BY <1>1, <1>3, <1>7 DEF Stop, TypeInv, MemoryOK
<1>8. ASSUME NEW ref \in Refs, RecordUse(ref) PROVE TypeInv'
  <2>1. ref \in DOMAIN auths /\ auths[ref] \in Entries /\ auths[ref].consumed < MaxUses
    BY <1>0, <1>8 DEF RecordUse, MemoryOK
  <2>2. [auths[ref] EXCEPT !.consumed = auths[ref].consumed + 1] \in Entries
    BY <2>1 DEF Entries
  <2>3. auths' = [auths EXCEPT ![ref] = [auths[ref] EXCEPT !.consumed = auths[ref].consumed + 1]]
    BY <1>8 DEF RecordUse
  <2>4. DOMAIN auths' = DOMAIN auths
    BY <2>3
  <2>5. \A d \in DOMAIN auths : auths'[d] \in Entries
    <3>1. PICK z \in Entries : z = [auths[ref] EXCEPT !.consumed = auths[ref].consumed + 1]
      BY <2>2
    <3>2. auths' = [auths EXCEPT ![ref] = z]
      BY <2>3, <3>1
    <3> HIDE DEF Entries
    <3>3. QED
      BY <1>0, <1>8, <3>2 DEF MemoryOK, RecordUse
  <2>6. MemoryOK'
    BY <1>0, <1>8, <2>4, <2>5 DEF MemoryOK, RecordUse
  <2>7. QED
    BY <1>1, <1>3, <1>8, <2>6 DEF RecordUse, TypeInv
<1>9. ASSUME NEW c \in Callers, NEW q \in Questions, Ask(c, q) PROVE TypeInv'
  <2>1. reply[c] = Nil
    BY <1>0, <1>9 DEF Ask, CallsOK, Waiting
  <2>2. ASSUME NEW d \in Callers, reply'[d] # Nil PROVE Waiting(d)' /\ IsReply(reply'[d])
    BY <1>0, <1>9, <2>1, <2>2 DEF Ask, CallsOK, Waiting
  <2>3. question' \in [Callers -> Questions \cup {Nil}]
    <3> HIDE DEF Questions
    <3>1. QED
      BY <1>0, <1>9 DEF Ask, CallsOK
  <2>4. CallsOK'
    BY <1>0, <1>9, <2>2, <2>3 DEF Ask, CallsOK
  <2>5. QED
    BY <1>2, <1>3, <1>9, <2>4 DEF Ask, TypeInv
<1>10. ASSUME NEW c \in Callers, Serve(c) PROVE TypeInv'
  <2>1. PICK r \in IF question[c].op = "check" THEN CheckReplies(auths, question[c])
                                               ELSE HashReplies(auths, question[c]) :
            reply' = [reply EXCEPT ![c] = r]
    BY <1>10 DEF Serve
  <2>2. IsReply(r)
    BY <1>0, <1>10, <2>1, RepliesAreReplies DEF Serve
  <2>3. answer' = [answer EXCEPT ![c] = Nil]
    BY <1>0, <1>10 DEF Serve, CallsOK, Waiting
  <2>4. CallsOK'
    BY <1>0, <1>10, <2>1, <2>2, <2>3, CallsFrame DEF Serve
  <2>5. QED
    BY <1>2, <1>3, <1>10, <2>4 DEF Serve, TypeInv
<1>11. ASSUME NEW c \in Callers, NEW x \in Answers, Waiting(c), Return(c, x) PROVE TypeInv'
  <2>1. CallsOK'
    BY <1>0, <1>11, CallsFrame DEF Return
  <2>2. QED
    BY <1>2, <1>3, <1>11, <2>1 DEF Return, TypeInv
<1>12. ASSUME NEW c \in Callers, Receive(c) \/ ReceiveForeign(c) \/ Unreachable(c)
       PROVE  TypeInv'
  <2>1. CASE Receive(c)
    <3>1. IsReply(reply[c])
      BY <1>0, <2>1 DEF Receive, CallsOK
    <3>2. QED
      BY <1>11, <2>1, <3>1, DecodeAnswers DEF Receive
  <2>2. CASE ReceiveForeign(c)
    <3>1. PICK r : IsForeign(r) /\ Return(c, Decode(question[c], r))
      BY <2>2 DEF ReceiveForeign, IsForeign
    <3>2. QED
      BY <1>11, <2>2, <3>1, DecodeAnswers DEF ReceiveForeign
  <2>3. CASE Unreachable(c)
    BY <1>11, <2>3 DEF Unreachable, Answers
  <2>4. QED
    BY <1>12, <2>1, <2>2, <2>3
<1>13. CASE UNCHANGED vars
  BY <1>1, <1>2, <1>3, <1>13 DEF vars, call, TypeInv
<1>14. QED
  BY <1>4, <1>5, <1>6, <1>7, <1>8, <1>9, <1>10, <1>12, <1>13 DEF Next

(* The state stays well formed: every answer is an error, a verdict or the *)
(* hash of a document the operator wrote, and a response is on its way     *)
(* only to somebody who waits for one.                                     *)
THEOREM TypeCorrect == Spec => []TypeOK
<1>1. Spec => []TypeInv
  BY TypesInit, TypesStep, PTL DEF Spec
<1>2. QED
  BY <1>1, TypeInvTypes, PTL

============================================================================
