-------------------------------- MODULE Cli ---------------------------------
(***************************************************************************)
(* cmd/chainbind: commands run side by side, as in a script or by several  *)
(* people, over one package file and one text file.  seal writes the       *)
(* package file, verify and open read it, open writes the text file.       *)
(*                                                                         *)
(* A file is a sequence of chunks, each from one command's output.         *)
(* os.WriteFile truncates, then writes chunk after chunk; os.ReadFile      *)
(* takes what is there.  Key, payload and audience files do not change.    *)
(***************************************************************************)
EXTENDS Naturals, Sequences

CONSTANTS
    Commands,       \* processes, each of one command
    Versions,       \* constraints the authority may hold
    MaxAmends,
    MaxChunks,      \* length of an output
    Nil

ASSUME BoundsAssumption == MaxAmends \in Nat /\ MaxChunks \in Nat
ASSUME CommandsAssumption == Commands \cap {"hole", "damaged", Nil} = {}
ASSUME NilAssumption == Nil \notin Versions \cup {"damaged", "0", "1", "2", "3", "killed"}

VARIABLES
    file,           \* file["package"], file["text"]: chunks, where they exist
    version,        \* what the authority holds now
    amends,
    kind,           \* kind[c]: "seal", "verify" or "open", or Nil
    authority,      \* authority[c]: whether one was named by a flag
    out,            \* out[c]: "package" or "text" if --out was given, or "stdout"
    at,             \* at[c]: the command's step
    exit,           \* exit[c]: its exit code, "killed", or Nil
    read,           \* read[c]: the package it read: its seal, or "damaged"
    hash,           \* hash[c]: of the authority, as answered to a seal
    length,         \* length[c]: of its output
    offset,         \* offset[c]: how much of it is written
    allowed,        \* history: seals the authority has allowed
    answer,         \* history: answer[c], what the authority answered a verify
    overlap         \* history: files that two commands were writing at once

files   == <<file, overlap>>
flags   == <<kind, authority, out>>
service == <<version, amends>>
results == <<read, hash, length, allowed, answer>>
vars    == <<files, flags, service, results, at, exit, offset>>

Targets == {"package", "text"}

exitOK          == "0"
exitOperational == "1"
exitUsage       == "2"
exitNegative    == "3"

Init ==
    /\ file = [f \in {} |-> <<>>] /\ overlap = {}
    /\ version \in Versions /\ amends = 0
    /\ kind = [c \in Commands |-> Nil]
    /\ authority = [c \in Commands |-> FALSE]
    /\ out = [c \in Commands |-> "stdout"]
    /\ at = [c \in Commands |-> "new"] /\ exit = [c \in Commands |-> Nil]
    /\ read = [c \in Commands |-> Nil] /\ hash = [c \in Commands |-> Nil]
    /\ length = [c \in Commands |-> 0] /\ offset = [c \in Commands |-> 0]
    /\ allowed = {} /\ answer = [c \in Commands |-> Nil]

Go(c, step) == at' = [at EXCEPT ![c] = step] /\ UNCHANGED exit

Exit(c, code) == at' = [at EXCEPT ![c] = "ended"] /\ exit' = [exit EXCEPT ![c] = code]

----------------------------------------------------------------------------
(* Flags and inputs                                                        *)

OutOf(k) == CASE k = "seal"   -> {"package", "stdout"}
              [] k = "open"   -> {"text", "stdout"}
              [] k = "verify" -> {"stdout"}

(* A flag missing, unknown or conflicting, a seed directory that cannot be *)
(* loaded, or a seal with no authority, is a usage error.  open takes no   *)
(* authority.                                                              *)
Run(c, k, named, target) ==
    /\ at[c] = "new" /\ target \in OutOf(k)
    /\ k = "open" => ~named
    /\ kind' = [kind EXCEPT ![c] = k]
    /\ authority' = [authority EXCEPT ![c] = named]
    /\ out' = [out EXCEPT ![c] = target]
    /\ \/ Exit(c, exitUsage)
       \/ Go(c, "inputs") /\ (k = "seal" => named)
    /\ UNCHANGED <<files, service, results, offset>>

(* The keys, and a seal's audiences and payload.                           *)
LoadInputs(c) ==
    /\ at[c] = "inputs"
    /\ \/ Exit(c, exitOperational)
       \/ Go(c, IF kind[c] = "seal" THEN "check" ELSE "package")
    /\ UNCHANGED <<files, flags, service, results, offset>>

(* The whole output of command s, and nothing else.                        *)
Output(s) == [k \in 1..length[s] |-> <<s, k>>]

Exists(f)  == f \in DOMAIN file

IsWhole(f) == Exists(f) /\ \E s \in Commands : length[s] > 0 /\ file[f] = Output(s)

(* readPackage: what two seals wrote together seldom parses, and is never  *)
(* what either of them signed.                                             *)
ReadPackage(c) ==
    /\ at[c] = "package"
    /\ \/ \E s \in Commands :
            /\ Exists("package") /\ length[s] > 0 /\ file["package"] = Output(s)
            /\ read' = [read EXCEPT ![c] = s] /\ Go(c, "judge")
       \/ ~IsWhole("package") /\ Exit(c, exitOperational) /\ UNCHANGED read
       \/ /\ Exists("package") /\ file["package"] # <<>> /\ ~IsWhole("package")
          /\ read' = [read EXCEPT ![c] = "damaged"] /\ Go(c, "judge")
    /\ UNCHANGED <<files, flags, service, hash, length, allowed, answer, offset>>

----------------------------------------------------------------------------
(* The library's operations                                                *)

(* Seal, up to the authority's leave ...                                   *)
Check(c) ==
    /\ at[c] = "check"
    /\ \/ Exit(c, exitOperational) /\ UNCHANGED allowed
       \/ Go(c, "hash") /\ allowed' = allowed \cup {c}
    /\ UNCHANGED <<files, flags, service, read, hash, length, answer, offset>>

(* ... and from its constraints to the encoded package.                    *)
SealPackage(c) ==
    /\ at[c] = "hash"
    /\ \/ Exit(c, exitOperational) /\ UNCHANGED <<hash, length>>
       \/ /\ hash' = [hash EXCEPT ![c] = version]
          /\ length' \in {[length EXCEPT ![c] = l] : l \in 1..MaxChunks}
          /\ Go(c, "write")
    /\ UNCHANGED <<files, flags, service, read, allowed, answer, offset>>

(* Mutant: an intent level that was not evaluated is not a failure. *)
VerifyUnevaluated(c) ==
    /\ at[c] = "judge" /\ kind[c] = "verify"
    /\ \/ Exit(c, exitNegative) /\ UNCHANGED answer
       \/ read[c] # "damaged" /\ Exit(c, exitOK) /\ UNCHANGED answer
    /\ UNCHANGED <<files, flags, service, read, hash, length, allowed, offset>>

(* Verify and print its report: what the issuer key given does not attest, *)
(* or the authority does not confirm or is not there to, is a negative     *)
(* answer.  Only a report in JSON is printed with its error looked at.     *)
Verify(c) ==
    /\ at[c] = "judge" /\ kind[c] = "verify"
    /\ \/ \E code \in {exitOperational, exitNegative} : Exit(c, code) /\ UNCHANGED answer
       \/ /\ read[c] # "damaged" /\ authority[c]
          /\ answer' = [answer EXCEPT ![c] = version]
          /\ \/ Exit(c, exitOperational)
             \/ Exit(c, IF version = hash[read[c]] THEN exitOK ELSE exitNegative)
    /\ UNCHANGED <<files, flags, service, read, hash, length, allowed, offset>>

(* Mutant: the error of Open is reported, and the text written all the same. *)
OpenAnyway(c) ==
    /\ at[c] = "judge" /\ kind[c] = "open"
    /\ Go(c, "write") /\ length' \in {[length EXCEPT ![c] = l] : l \in 1..MaxChunks}
    /\ UNCHANGED <<files, flags, service, read, hash, allowed, answer, offset>>

(* Open: under another issuer's or recipient's key, or from a damaged      *)
(* package, no text.                                                       *)
Open(c) ==
    /\ at[c] = "judge" /\ kind[c] = "open"
    /\ \/ Exit(c, exitNegative) /\ UNCHANGED length
       \/ /\ read[c] # "damaged"
          /\ length' \in {[length EXCEPT ![c] = l] : l \in 1..MaxChunks}
          /\ Go(c, "write")
    /\ UNCHANGED <<files, flags, service, read, hash, allowed, answer, offset>>

----------------------------------------------------------------------------
(* writeOutput                                                             *)

(* Stdout takes the output or does not.                                    *)
WriteStdout(c) ==
    /\ at[c] = "write" /\ out[c] = "stdout"
    /\ \E code \in {exitOK, exitOperational} : Exit(c, code)
    /\ UNCHANGED <<files, flags, service, results, offset>>

Writers(f) == {c \in Commands : at[c] = "writing" /\ out[c] = f}

Writing(c) == overlap' = IF Writers(out[c]) \ {c} = {} THEN overlap
                         ELSE overlap \cup {out[c]}

EmptyFile(f) == [g \in DOMAIN file \cup {f} |-> IF g = f THEN <<>> ELSE file[g]]

(* Mutant: the file is opened without O_TRUNC. *)
CreateWithoutTruncating(c) ==
    /\ at[c] = "write" /\ out[c] # "stdout"
    /\ \/ Exit(c, exitOperational) /\ UNCHANGED files
       \/ /\ file' = IF Exists(out[c]) THEN file ELSE EmptyFile(out[c])
          /\ Writing(c) /\ Go(c, "writing")
    /\ UNCHANGED <<flags, service, results, offset>>

Create(c) ==
    /\ at[c] = "write" /\ out[c] # "stdout"
    /\ \/ Exit(c, exitOperational) /\ UNCHANGED files
       \/ /\ file' = EmptyFile(out[c])
          /\ Writing(c) /\ Go(c, "writing")
    /\ UNCHANGED <<flags, service, results, offset>>

(* A chunk at the writer's offset, behind a hole if another has truncated  *)
(* the file meanwhile.                                                     *)
Placed(f, k, chunk) ==
    [m \in 1..(IF k > Len(f) THEN k ELSE Len(f)) |->
        IF m = k THEN chunk ELSE IF m <= Len(f) THEN f[m] ELSE <<"hole", m>>]

WriteChunk(c) ==
    /\ at[c] = "writing" /\ offset[c] < length[c]
    /\ \/ Exit(c, exitOperational) /\ UNCHANGED <<files, offset>>
       \/ /\ offset' = [offset EXCEPT ![c] = @ + 1]
          /\ file' = [file EXCEPT ![out[c]] = Placed(@, offset[c] + 1, <<c, offset[c] + 1>>)]
          /\ UNCHANGED <<overlap, at, exit>>
    /\ UNCHANGED <<flags, service, results>>

Close(c) ==
    /\ at[c] = "writing" /\ offset[c] = length[c]
    /\ \E code \in {exitOK, exitOperational} : Exit(c, code)
    /\ UNCHANGED <<files, flags, service, results, offset>>

Kill(c) ==
    /\ at[c] \notin {"new", "ended"}
    /\ Exit(c, "killed")
    /\ UNCHANGED <<files, flags, service, results, offset>>

Amend(v) ==
    /\ amends < MaxAmends
    /\ version' = v /\ amends' = amends + 1
    /\ UNCHANGED <<files, flags, results, at, exit, offset>>

Next ==
    \/ \E c \in Commands :
        \/ \E k \in {"seal", "verify", "open"}, named \in BOOLEAN,
              target \in {"package", "text", "stdout"} : Run(c, k, named, target)
        \/ LoadInputs(c) \/ ReadPackage(c) \/ Check(c) \/ SealPackage(c)
        \/ Verify(c) \/ Open(c) \/ WriteStdout(c) \/ Create(c) \/ WriteChunk(c)
        \/ Close(c) \/ Kill(c)
    \/ \E v \in Versions : Amend(v)

Spec == Init /\ [][Next]_vars

----------------------------------------------------------------------------
(* Properties                                                              *)

(* main.go, -h: 0 and 3 are answers, and 1 and 2 are not.  verify says 0   *)
(* only of a package as one seal wrote it, allowed by the authority, whose *)
(* constraints it confirmed; seal and open only of an output that is       *)
(* written, by another command at the same time or not; 3 only of a        *)
(* package that was read; and a usage error has done nothing.              *)
ExitCodesAreEarned ==
    \A c \in Commands :
        /\ exit[c] = exitOK /\ kind[c] = "verify" =>
                /\ read[c] \in allowed
                /\ answer[c] # Nil /\ answer[c] = hash[read[c]]
        /\ exit[c] = exitOK /\ kind[c] # "verify" /\ out[c] # "stdout" =>
                offset[c] = length[c] /\ length[c] > 0
        /\ exit[c] = exitNegative => kind[c] # "seal" /\ read[c] # Nil
        /\ exit[c] = exitUsage =>
                read[c] = Nil /\ answer[c] = Nil /\ offset[c] = 0 /\ c \notin allowed

ChunksOf(f) == IF Exists(f) THEN {file[f][k] : k \in DOMAIN file[f]} ELSE {}

(* Nothing that was not earned is ever in a file, for however short a      *)
(* time: packages only of seals that the authority allowed, texts only     *)
(* from a package as one of them wrote it.                                 *)
OnlyEarnedOutput ==
    \A c \in Commands :
        /\ ChunksOf("package") \cap ({c} \X Nat) # {} => c \in allowed
        /\ ChunksOf("text") \cap ({c} \X Nat) # {} => read[c] \in allowed

(* A file holds one whole output, unless somebody is to blame: a command   *)
(* that is still writing it, was killed or exited with 1 while it did so,  *)
(* or wrote it together with another.                                      *)
BrokenFileHasCulprit ==
    \A f \in DOMAIN file :
        ~IsWhole(f) =>
            \/ f \in overlap
            \/ \E c \in Commands : out[c] = f /\ at[c] = "writing"
            \/ \E c \in Commands : out[c] = f /\ offset[c] < length[c]
                                   /\ exit[c] \in {exitOperational, "killed"}

----------------------------------------------------------------------------
(* Types                                                                   *)

Steps == {"new", "inputs", "check", "hash", "package", "judge", "write", "writing", "ended"}
Codes == {exitOK, exitOperational, exitUsage, exitNegative, "killed", Nil}

Chunks == (Commands \cup {"hole"}) \X Nat

FilesOK ==
    /\ DOMAIN file \subseteq Targets /\ overlap \subseteq Targets
    /\ file \in [DOMAIN file -> Seq(Chunks)]

TypeOK ==
    /\ FilesOK
    /\ version \in Versions /\ amends \in 0..MaxAmends
    /\ kind \in [Commands -> {"seal", "verify", "open", Nil}]
    /\ authority \in [Commands -> BOOLEAN]
    /\ out \in [Commands -> Targets \cup {"stdout"}]
    /\ at \in [Commands -> Steps] /\ exit \in [Commands -> Codes]
    /\ read \in [Commands -> Commands \cup {"damaged", Nil}]
    /\ hash \in [Commands -> Versions \cup {Nil}]
    /\ length \in [Commands -> Nat] /\ offset \in [Commands -> Nat]
    /\ allowed \subseteq Commands
    /\ answer \in [Commands -> Versions \cup {Nil}]

============================================================================
