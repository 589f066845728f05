------------------------------ MODULE CliProofs ------------------------------
(***************************************************************************)
(* For any number of commands, any constraints and outputs of any length:  *)
(* the exit codes, the output and the broken files of the command line.    *)
(*                                                                         *)
(* CliInv is carried one part at a time.  What a step does to the          *)
(* command that takes it is read off the action; what it leaves of the     *)
(* others is OthersKeep, used by every part.                               *)
(***************************************************************************)
EXTENDS Cli, SequenceTheorems, TLAPS

----------------------------------------------------------------------------
(* The inductive invariant                                                 *)

(* From here on a command's flags, allowance, package and output are fixed. *)
Settled(c) == at[c] \in {"writing", "ended"}

(* What a command has done before the step it is at.                       *)
CommandInv(c) ==
    /\ at[c] = "new" => read[c] = Nil /\ answer[c] = Nil /\ c \notin allowed
    /\ at[c] # "ended" => exit[c] = Nil
    /\ at[c] # "new" => kind[c] \in {"seal", "verify", "open"} /\ out[c] \in OutOf(kind[c])
    /\ at[c] \in {"check", "hash"} => kind[c] = "seal"
    /\ at[c] \in {"package", "judge"} => kind[c] \in {"verify", "open"}
    /\ at[c] = "judge" => read[c] # Nil
    /\ at[c] \in {"hash", "write", "writing"} /\ kind[c] = "seal" => c \in allowed
    /\ at[c] \in {"write", "writing"} /\ kind[c] # "seal" => kind[c] = "open" /\ read[c] \in Commands
    /\ at[c] \in {"write", "writing"} => length[c] > 0
    /\ at[c] = "writing" => out[c] \in DOMAIN file /\ offset[c] <= length[c]
    /\ ~Settled(c) => offset[c] = 0

(* A seal that was read had been allowed, and its hash is final.           *)
ReadInv == \A c \in Commands : read[c] \in Commands =>
                read[c] \in allowed /\ Settled(read[c])

(* Whose chunk is in a file has earned it, and will not read again.        *)
ChunkInv ==
    \A f \in DOMAIN file : \A k \in DOMAIN file[f] :
        LET s == file[f][k][1]
        IN  s \in Commands =>
                /\ Settled(s) /\ out[s] = f
                /\ f = "package" => s \in allowed
                /\ f = "text" => read[s] \in Commands

(* Where writers never met, the file is what the last one has written.     *)
LastWriter(f, c) ==
    /\ out[c] = f /\ Settled(c) /\ length[c] > 0
    /\ file[f] = [k \in 1..offset[c] |-> <<c, k>>]
    /\ Writers(f) \subseteq {c}
    /\ at[c] = "ended" => \/ offset[c] = length[c]
                          \/ offset[c] < length[c] /\ exit[c] \in {exitOperational, "killed"}

WriterInv == \A f \in DOMAIN file \ overlap : \E c \in Commands : LastWriter(f, c)

CliInv ==
    /\ TypeOK /\ \A c \in Commands : CommandInv(c)
    /\ ReadInv /\ ChunkInv /\ WriterInv /\ ExitCodesAreEarned

----------------------------------------------------------------------------
(* The steps of one command. *)
CommandStep(c) ==
    \/ \E k \in {"seal", "verify", "open"}, named \in BOOLEAN,
          target \in {"package", "text", "stdout"} : Run(c, k, named, target)
    \/ LoadInputs(c) \/ ReadPackage(c) \/ Check(c) \/ SealPackage(c)
    \/ Verify(c) \/ Open(c) \/ WriteStdout(c) \/ Create(c) \/ WriteChunk(c)
    \/ Close(c) \/ Kill(c)

LEMMA StepCases ==
    [Next]_vars => \/ \E c \in Commands : CommandStep(c)
                   \/ \E v \in Versions : Amend(v)
                   \/ UNCHANGED vars
  BY DEF Next, CommandStep

(* The initial states satisfy the invariant. *)
LEMMA InitInv == Init => CliInv
<1> SUFFICES ASSUME Init PROVE CliInv
  OBVIOUS
<1> USE DEF Init
<1>1. TypeOK
  BY BoundsAssumption DEF TypeOK, FilesOK, Targets, Steps, Codes
<1>2. ASSUME NEW c \in Commands PROVE CommandInv(c)
  BY DEF CommandInv, Settled
<1>3. ReadInv
  BY CommandsAssumption DEF ReadInv
<1>4. ChunkInv /\ WriterInv
  BY DEF ChunkInv, WriterInv
<1>5. ExitCodesAreEarned
  BY NilAssumption
     DEF ExitCodesAreEarned, exitOK, exitNegative, exitUsage
<1>6. QED
  BY <1>1, <1>2, <1>3, <1>4, <1>5 DEF CliInv

(* A chunk written behind whatever is there keeps a sequence of chunks. *)
LEMMA PlacedType ==
    ASSUME NEW S, NEW f \in Seq(S), NEW k \in Nat \ {0}, NEW chunk \in S,
           \A m \in Nat : <<"hole", m>> \in S
    PROVE  Placed(f, k, chunk) \in Seq(S)
<1> DEFINE L == IF k > Len(f) THEN k ELSE Len(f)
<1>1. L \in Nat /\ k \in 1..L /\ Len(f) \in Nat /\ DOMAIN f = 1..Len(f)
  OBVIOUS
<1>2. Placed(f, k, chunk) = [m \in 1..L |-> IF m = k THEN chunk
                                ELSE IF m <= Len(f) THEN f[m] ELSE <<"hole", m>>]
  BY DEF Placed
<1> HIDE DEF L
<1>3. ASSUME NEW m \in 1..L
      PROVE  (IF m = k THEN chunk
              ELSE IF m <= Len(f) THEN f[m] ELSE <<"hole", m>>) \in S
  <2>1. m \in Nat /\ (m <= Len(f) => m \in 1..Len(f))
    BY <1>1
  <2>2. m <= Len(f) => f[m] \in S
    BY <2>1, ElementOfSeq
  <2>3. QED
    BY <2>1, <2>2
<1>4. QED
  BY <1>1, <1>2, <1>3

(* A chunk put at the end of what its own command has written. *)
LEMMA PlacedAtEnd ==
    ASSUME NEW c, NEW m \in Nat
    PROVE  Placed([k \in 1..m |-> <<c, k>>], m + 1, <<c, m + 1>>)
              = [k \in 1..(m + 1) |-> <<c, k>>]
<1>1. Len([k \in 1..m |-> <<c, k>>]) = m
  OBVIOUS
<1>2. QED
  BY <1>1 DEF Placed

(* What the step of a command changes, of the command and of the rest. *)
LEMMA Frame ==
    ASSUME TypeOK, NEW c \in Commands, CommandStep(c)
    PROVE  /\ at[c] # "ended"
           /\ \A d \in Commands \ {c} :
                 /\ at'[d] = at[d] /\ exit'[d] = exit[d] /\ kind'[d] = kind[d]
                 /\ out'[d] = out[d] /\ read'[d] = read[d] /\ hash'[d] = hash[d]
                 /\ length'[d] = length[d] /\ offset'[d] = offset[d]
                 /\ answer'[d] = answer[d]
                 /\ d \in allowed' <=> d \in allowed
           /\ allowed \subseteq allowed' /\ version' = version
<1> USE DEF TypeOK, Exit, Go, files, flags, service, results
<1>1. CASE \E k \in {"seal", "verify", "open"}, named \in BOOLEAN,
              target \in {"package", "text", "stdout"} : Run(c, k, named, target)
  BY <1>1 DEF Run
<1>2. CASE LoadInputs(c) \/ Check(c)
  BY <1>2 DEF LoadInputs, Check
<1>3. CASE ReadPackage(c)
  BY <1>3 DEF ReadPackage
<1>4. CASE SealPackage(c)
  BY <1>4 DEF SealPackage
<1>5. CASE Verify(c) \/ Open(c)
  BY <1>5 DEF Verify, Open
<1>6. CASE WriteStdout(c) \/ Create(c)
  BY <1>6 DEF WriteStdout, Create, Writing
<1>7. CASE WriteChunk(c)
  BY <1>7 DEF WriteChunk
<1>8. CASE Close(c) \/ Kill(c)
  BY <1>8 DEF Close, Kill
<1>9. QED
  BY <1>1, <1>2, <1>3, <1>4, <1>5, <1>6, <1>7, <1>8 DEF CommandStep

(* A step of a command keeps the types. *)
LEMMA TypeStep ==
    ASSUME CliInv, NEW c \in Commands, CommandStep(c)
    PROVE  TypeOK'
<1> USE DEF TypeOK, Exit, Go, files, flags, service, results, Steps
<1>0. /\ TypeOK /\ CommandInv(c)
      /\ exitOK \in Codes /\ exitOperational \in Codes /\ exitUsage \in Codes
      /\ exitNegative \in Codes /\ "killed" \in Codes
  BY DEF CliInv, Codes
<1>01. UNCHANGED files => FilesOK'
  BY <1>0 DEF FilesOK
<1>1. CASE \E k \in {"seal", "verify", "open"}, named \in BOOLEAN,
              target \in {"package", "text", "stdout"} : Run(c, k, named, target)
  BY <1>0, <1>01, <1>1 DEF Run, Targets
<1>2. CASE LoadInputs(c) \/ Check(c)
  BY <1>0, <1>01, <1>2 DEF LoadInputs, Check
<1>3. CASE ReadPackage(c)
  <2>1. read' \in [Commands -> Commands \cup {"damaged", Nil}]
    BY <1>0, <1>3 DEF ReadPackage
  <2>2. at' \in [Commands -> Steps] /\ exit' \in [Commands -> Codes]
    <3>1. \/ at' = [at EXCEPT ![c] = "judge"] /\ exit' = exit
          \/ at' = [at EXCEPT ![c] = "ended"] /\ exit' = [exit EXCEPT ![c] = exitOperational]
      BY <1>3 DEF ReadPackage
    <3>2. at \in [Commands -> Steps] /\ exit \in [Commands -> Codes]
      BY <1>0
    <3>3. QED
      BY <1>0, <3>1, <3>2
  <2>3. QED
    BY <1>0, <1>01, <1>3, <2>1, <2>2 DEF ReadPackage
<1>4. CASE SealPackage(c)
  <2>1. length' \in [Commands -> Nat]
    BY <1>0, <1>01, <1>4, BoundsAssumption DEF SealPackage
  <2>2. QED
    BY <1>0, <1>01, <1>4, <2>1 DEF SealPackage
<1>5. CASE Verify(c) \/ Open(c)
  <2>1. length' \in [Commands -> Nat]
    BY <1>0, <1>5, BoundsAssumption DEF Verify, Open
  <2>2. CASE Verify(c)
    BY <1>0, <1>01, <2>1, <2>2 DEF Verify
  <2>3. CASE Open(c)
    BY <1>0, <1>01, <2>1, <2>3 DEF Open
  <2>4. QED
    BY <1>5, <2>2, <2>3
<1>6. CASE WriteStdout(c) \/ Close(c) \/ Kill(c)
  <2>1. /\ UNCHANGED <<files, flags, service, results, offset>>
        /\ at' = [at EXCEPT ![c] = "ended"]
        /\ \E code \in Codes : exit' = [exit EXCEPT ![c] = code]
    BY <1>0, <1>6 DEF WriteStdout, Close, Kill
  <2>2. QED
    BY <1>0, <1>01, <2>1
<1>7. CASE Create(c)
  <2>1. out[c] \in Targets
    BY <1>0, <1>7 DEF Create
  <2>2. /\ DOMAIN EmptyFile(out[c]) = DOMAIN file \cup {out[c]}
        /\ EmptyFile(out[c]) \in [DOMAIN file \cup {out[c]} -> Seq(Chunks)]
    BY <1>0 DEF EmptyFile, FilesOK
  <2>3. overlap' \subseteq Targets
    BY <1>0, <1>7, <2>1 DEF Create, Writing, FilesOK
  <2>4. FilesOK'
    <3>1. CASE file' = EmptyFile(out[c])
      BY <1>0, <2>1, <2>2, <2>3, <3>1 DEF FilesOK
    <3>2. CASE UNCHANGED files
      BY <1>01, <3>2
    <3>3. QED
      BY <1>7, <3>1, <3>2 DEF Create
  <2>5. QED
    BY <1>0, <1>7, <2>3, <2>4 DEF Create
<1>8. CASE WriteChunk(c)
  <2>1. CASE UNCHANGED file
    BY <1>0, <1>01, <1>8, <2>1 DEF WriteChunk
  <2>2. CASE file' # file
    <3> DEFINE k == offset[c] + 1
               g == Placed(file[out[c]], k, <<c, k>>)
    <3>1. file' = [file EXCEPT ![out[c]] = g] /\ out[c] \in DOMAIN file
      BY <1>0, <1>8, <2>2 DEF WriteChunk, CommandInv
    <3>2. <<c, k>> \in Chunks /\ k \in Nat \ {0} /\ \A m \in Nat : <<"hole", m>> \in Chunks
      BY <1>0 DEF Chunks
    <3>3. g \in Seq(Chunks)
      BY <1>0, <3>1, <3>2, PlacedType DEF FilesOK
    <3> HIDE DEF g
    <3>4. FilesOK'
      BY <1>0, <1>8, <2>2, <3>1, <3>3 DEF FilesOK, WriteChunk
    <3>5. QED
      BY <1>0, <1>8, <2>2, <3>4 DEF WriteChunk
  <2>3. QED
    BY <2>1, <2>2
<1>9. QED
  BY <1>1, <1>2, <1>3, <1>4, <1>5, <1>6, <1>7, <1>8 DEF CommandStep

(* Files are created and never removed; only their writer changes them. *)
LEMMA FileFrame ==
    ASSUME CliInv, NEW c \in Commands, CommandStep(c)
    PROVE  /\ DOMAIN file \subseteq DOMAIN file'
           /\ \A f \in DOMAIN file' : f # out[c] => f \in DOMAIN file /\ file'[f] = file[f]
           /\ overlap \subseteq overlap'
           /\ overlap' \subseteq overlap \cup {out[c]}
           /\ ~(Create(c) \/ WriteChunk(c)) => UNCHANGED files
<1> USE DEF files, flags, service, results
<1>0. TypeOK /\ CommandInv(c)
  BY DEF CliInv
<1>1. ~(Create(c) \/ WriteChunk(c)) => UNCHANGED files
  BY DEF CommandStep, Run, LoadInputs, ReadPackage, Check, SealPackage, Verify, Open,
         WriteStdout, Close, Kill
<1>2. CASE Create(c)
  BY <1>0, <1>1, <1>2 DEF Create, Writing, EmptyFile
<1>3. CASE WriteChunk(c)
  BY <1>0, <1>1, <1>3 DEF WriteChunk, TypeOK, FilesOK
<1>4. QED
  BY <1>1, <1>2, <1>3

(* A command's own step keeps what CommandInv says of it ... *)
LEMMA OwnStep ==
    ASSUME CliInv, NEW c \in Commands, CommandStep(c)
    PROVE  CommandInv(c)'
<1> USE DEF CommandInv, TypeOK, Exit, Go, files, flags, service, results, Settled
<1>0. TypeOK /\ CommandInv(c) /\ at[c] # "ended"
  BY Frame DEF CliInv
<1>1. CASE \E k \in {"seal", "verify", "open"}, named \in BOOLEAN,
              target \in {"package", "text", "stdout"} : Run(c, k, named, target)
  BY <1>0, <1>1 DEF Run, OutOf
<1>2. CASE LoadInputs(c)
  BY <1>0, <1>2 DEF LoadInputs, OutOf
<1>3. CASE Check(c)
  BY <1>0, <1>3 DEF Check, OutOf
<1>4. CASE ReadPackage(c)
  BY <1>0, <1>4, CommandsAssumption, NilAssumption DEF ReadPackage, OutOf
<1>5. CASE SealPackage(c)
  BY <1>0, <1>5, BoundsAssumption DEF SealPackage, OutOf
<1>6. CASE Verify(c)
  BY <1>0, <1>6 DEF Verify, OutOf
<1>7. CASE Open(c)
  BY <1>0, <1>7, BoundsAssumption DEF Open, OutOf
<1>8. CASE WriteStdout(c) \/ Close(c) \/ Kill(c)
  BY <1>0, <1>8 DEF WriteStdout, Close, Kill, OutOf
<1>9. CASE Create(c)
  <2>1. at'[c] = "writing" => out[c] \in DOMAIN file'
    BY <1>0, <1>9 DEF Create, EmptyFile
  <2>2. QED
    BY <1>0, <1>9, <2>1 DEF Create, OutOf
<1>10. CASE WriteChunk(c)
  <2>1. DOMAIN file' = DOMAIN file
    BY <1>0, <1>10 DEF WriteChunk
  <2>2. QED
    BY <1>0, <1>10, <2>1 DEF WriteChunk, OutOf
<1>11. QED
  BY <1>1, <1>2, <1>3, <1>4, <1>5, <1>6, <1>7, <1>8, <1>9, <1>10 DEF CommandStep

(* ... and what it says of the others. *)
LEMMA OthersStep ==
    ASSUME CliInv, NEW c \in Commands, CommandStep(c), NEW d \in Commands, d # c
    PROVE  CommandInv(d)'
<1>1. TypeOK /\ CommandInv(d) /\ DOMAIN file \subseteq DOMAIN file'
  BY FileFrame DEF CliInv
<1>2. /\ at'[d] = at[d] /\ exit'[d] = exit[d] /\ kind'[d] = kind[d]
      /\ out'[d] = out[d] /\ read'[d] = read[d] /\ length'[d] = length[d]
      /\ offset'[d] = offset[d] /\ answer'[d] = answer[d]
      /\ d \in allowed' <=> d \in allowed
  BY <1>1, Frame
<1>3. QED
  BY <1>1, <1>2 DEF CommandInv, Settled, OutOf

(* Who is writing or has ended keeps its flags, output and earnings. *)
LEMMA StaySettled ==
    ASSUME CliInv, NEW c \in Commands, CommandStep(c), NEW s \in Commands, Settled(s)
    PROVE  /\ Settled(s)' /\ out'[s] = out[s] /\ length'[s] = length[s]
           /\ read'[s] = read[s] /\ hash'[s] = hash[s] /\ kind'[s] = kind[s]
           /\ s \in allowed => s \in allowed'
<1>0. TypeOK /\ CommandInv(c) /\ at[c] # "ended"
  BY Frame DEF CliInv
<1>1. CASE s # c
  BY <1>0, <1>1, Frame DEF Settled
<1>2. CASE s = c
  <2> USE DEF TypeOK, Exit, Go, files, flags, service, results
  <2>1. WriteChunk(c) \/ Close(c) \/ Kill(c)
    BY <1>0, <1>2 DEF Settled, CommandStep, Run, LoadInputs, ReadPackage, Check,
       SealPackage, Verify, Open, WriteStdout, Create
  <2>2. QED
    BY <1>0, <1>2, <2>1 DEF WriteChunk, Close, Kill, Settled
<1>3. QED
  BY <1>1, <1>2

(* What a file holds after a chunk is written: it, and what was there. *)
LEMMA PlacedChunks ==
    ASSUME NEW f, Len(f) \in Nat, DOMAIN f = 1..Len(f), NEW k \in Nat, NEW chunk,
           NEW m \in DOMAIN Placed(f, k, chunk)
    PROVE  \/ m = k /\ Placed(f, k, chunk)[m] = chunk
           \/ m \in DOMAIN f /\ Placed(f, k, chunk)[m] = f[m]
           \/ Placed(f, k, chunk)[m] = <<"hole", m>>
<1> DEFINE L == IF k > Len(f) THEN k ELSE Len(f)
<1>1. m \in 1..L /\ L \in Nat
  BY DEF Placed
<1>2. Placed(f, k, chunk)[m] = IF m = k THEN chunk
                               ELSE IF m <= Len(f) THEN f[m] ELSE <<"hole", m>>
  BY <1>1 DEF Placed
<1>3. m <= Len(f) => m \in DOMAIN f
  BY <1>1
<1>4. QED
  BY <1>2, <1>3

(* What is read as a whole package is an allowed seal's, and final. *)
LEMMA ReadStep ==
    ASSUME CliInv, NEW c \in Commands, CommandStep(c)
    PROVE  ReadInv'
<1>0. TypeOK /\ ReadInv /\ ChunkInv /\ CommandInv(c)
  BY DEF CliInv
<1>1. ASSUME NEW d \in Commands, read'[d] = read[d], read'[d] \in Commands
      PROVE  read'[d] \in allowed' /\ at'[read'[d]] \in {"writing", "ended"}
  <2>1. PICK s \in Commands : s = read'[d]
    BY <1>1
  <2>2. Settled(s) /\ s \in allowed
    BY <1>0, <1>1, <2>1 DEF ReadInv
  <2>3. s \in allowed' /\ Settled(s)'
    BY <2>2, StaySettled
  <2>4. QED
    BY <2>1, <2>3 DEF Settled
<1>2. ASSUME NEW s \in Commands, Exists("package"), length[s] > 0,
             file["package"] = Output(s)
      PROVE  Settled(s) /\ s \in allowed
  <2>1. /\ "package" \in DOMAIN file /\ 1 \in DOMAIN file["package"]
        /\ file["package"][1] = <<s, 1>>
    BY <1>0, <1>2 DEF Exists, Output, TypeOK
  <2>2. QED
    BY <1>0, <2>1 DEF ChunkInv
<1>3. CASE ReadPackage(c) /\ read'[c] \in Commands
  <2>1. CASE UNCHANGED read
    BY <1>1, <2>1 DEF ReadInv, Settled
  <2>2. PICK s : s = read'[c]
    OBVIOUS
  <2>3. CASE read' # read
    <3>1. /\ s \in Commands /\ Exists("package") /\ length[s] > 0
          /\ file["package"] = Output(s)
      BY <1>0, <1>3, <2>2, <2>3, CommandsAssumption DEF ReadPackage, TypeOK
    <3>2. Settled(s) /\ s \in allowed
      BY <1>2, <3>1
    <3>3. Settled(s)' /\ s \in allowed'
      BY <3>1, <3>2, StaySettled
    <3>4. \A d \in Commands \ {c} : read'[d] = read[d]
      BY <1>0, Frame
    <3>5. QED
      BY <1>1, <2>2, <3>3, <3>4 DEF ReadInv, Settled
  <2>4. QED
    BY <2>1, <2>3
<1>4. CASE ~(ReadPackage(c) /\ read'[c] \in Commands)
  <2>1. \A d \in Commands : read'[d] = read[d] \/ read'[d] \notin Commands
    BY <1>0, <1>4, Frame DEF CommandStep, Run, LoadInputs, Check, SealPackage, Verify,
       Open, WriteStdout, Create, WriteChunk, Close, Kill, results
  <2>2. QED
    BY <1>1, <2>1 DEF ReadInv, Settled
<1>5. QED
  BY <1>3, <1>4

(* Where the chunks of a file come from. *)
LEMMA ChunkOrigin ==
    ASSUME CliInv, NEW c \in Commands, CommandStep(c),
           NEW f \in DOMAIN file', NEW k \in DOMAIN file'[f]
    PROVE  \/ f \in DOMAIN file /\ k \in DOMAIN file[f] /\ file'[f][k] = file[f][k]
           \/ file'[f][k][1] \notin Commands
           \/ WriteChunk(c) /\ f = out[c] /\ file'[f][k][1] = c
<1>0. TypeOK /\ CommandInv(c)
  BY DEF CliInv
<1>1. CASE f # out[c] \/ UNCHANGED files
  BY <1>1, FileFrame DEF files
<1>2. CASE f = out[c] /\ file' # file /\ Create(c)
  <2>1. file' = EmptyFile(out[c])
    BY <1>2 DEF Create, files
  <2>2. QED
    BY <1>2, <2>1 DEF EmptyFile
<1>3. CASE f = out[c] /\ file' # file /\ WriteChunk(c)
  <2> DEFINE o == offset[c] + 1
             g == Placed(file[f], o, <<c, o>>)
  <2>1. f \in DOMAIN file /\ file' = [file EXCEPT ![f] = g]
    BY <1>0, <1>3 DEF WriteChunk, CommandInv, files
  <2>2. /\ <<c, o>> \in Chunks /\ o \in Nat \ {0} /\ file[f] \in Seq(Chunks)
        /\ \A m \in Nat : <<"hole", m>> \in Chunks
    BY <1>0, <2>1 DEF Chunks, TypeOK, FilesOK
  <2>3. \A m \in DOMAIN g : \/ m = o /\ g[m] = <<c, o>>
                            \/ m \in DOMAIN file[f] /\ g[m] = file[f][m]
                            \/ g[m] = <<"hole", m>>
    <3>1. Len(file[f]) \in Nat /\ DOMAIN file[f] = 1..Len(file[f]) /\ o \in Nat
      BY <2>2
    <3> HIDE DEF o
    <3>2. QED
      BY <3>1, PlacedChunks
  <2>4. file'[f] = g
    BY <2>1
  <2> HIDE DEF g
  <2>5. QED
    BY <1>3, <2>1, <2>3, <2>4, CommandsAssumption
<1>4. CASE f = out[c] /\ file' = file /\ file'[f] = file[f]
  BY <1>4
<1>5. QED
  BY <1>1, <1>2, <1>3, <1>4, FileFrame

(* A command writes only what it has earned. *)
LEMMA ChunkStep ==
    ASSUME CliInv, NEW c \in Commands, CommandStep(c)
    PROVE  ChunkInv'
<1> DEFINE Fair(s, f) == /\ Settled(s) /\ out[s] = f
                         /\ f = "package" => s \in allowed
                         /\ f = "text" => read[s] \in Commands
           FairNext(s, f) == /\ at'[s] \in {"writing", "ended"} /\ out'[s] = f
                             /\ f = "package" => s \in allowed'
                             /\ f = "text" => read'[s] \in Commands
<1>0. TypeOK /\ ChunkInv /\ CommandInv(c)
  BY DEF CliInv
<1>1. ASSUME NEW s \in Commands, NEW f, Fair(s, f) PROVE FairNext(s, f)
  BY <1>1, StaySettled DEF Settled
<1>2. ASSUME WriteChunk(c) PROVE Fair(c, out[c])
  BY <1>0, <1>2, NilAssumption DEF CommandInv, WriteChunk, Settled, OutOf
<1>3. ASSUME NEW f \in DOMAIN file', NEW k \in DOMAIN file'[f], file'[f][k][1] \in Commands
      PROVE  FairNext(file'[f][k][1], f)
  <2>1. PICK s \in Commands : s = file'[f][k][1]
    BY <1>3
  <2>2. Fair(s, f)
    <3>1. CASE f \in DOMAIN file /\ k \in DOMAIN file[f] /\ file'[f][k] = file[f][k]
      BY <1>0, <2>1, <3>1 DEF ChunkInv
    <3>2. CASE WriteChunk(c) /\ f = out[c] /\ file'[f][k][1] = c
      BY <1>2, <2>1, <3>2
    <3>3. QED
      BY <1>3, <3>1, <3>2, ChunkOrigin
  <2>3. FairNext(s, f)
    BY <1>1, <2>2
  <2>4. QED
    BY <2>1, <2>3
<1>4. QED
  BY <1>3 DEF ChunkInv, Settled

(* A step by a command that has a witness's file in its hands ends as      *)
(* LastWriter says, and one that has not leaves the file's last writer.    *)
LEMMA WriterStep ==
    ASSUME CliInv, NEW c \in Commands, CommandStep(c)
    PROVE  WriterInv'
<1> USE DEF files, flags, service, results, Exit, Go
<1>0. TypeOK /\ WriterInv /\ CommandInv(c) /\ at[c] # "ended"
  BY Frame DEF CliInv
<1>1. ASSUME NEW f \in DOMAIN file' \ overlap', f = out[c], Create(c), at'[c] = "writing"
      PROVE  LastWriter(f, c)'
  <2>1. /\ file'[f] = <<>> /\ overlap' = overlap /\ Writers(f) \ {c} = {}
        /\ at' = [at EXCEPT ![c] = "writing"] /\ at[c] = "write"
        /\ UNCHANGED <<out, length, offset>>
    BY <1>0, <1>1 DEF Create, Writing, EmptyFile, TypeOK
  <2>2. offset[c] = 0 /\ length[c] > 0
    BY <1>0, <2>1 DEF CommandInv, Settled
  <2>3. Writers(f)' \subseteq {c}
    BY <1>0, <2>1 DEF Writers, TypeOK
  <2>4. file'[f] = [k \in 1..offset'[c] |-> <<c, k>>]
    BY <2>1, <2>2
  <2>5. at'[c] = "writing"
    BY <1>0, <2>1 DEF TypeOK
  <2>6. QED
    BY <1>1, <2>1, <2>2, <2>3, <2>4, <2>5 DEF LastWriter, Settled
<1>2. ASSUME NEW f \in DOMAIN file' \ overlap', f = out[c], WriteChunk(c), offset' # offset
      PROVE  LastWriter(f, c)'
  <2> DEFINE o == offset[c] + 1
  <2>1. /\ file' = [file EXCEPT ![f] = Placed(file[f], o, <<c, o>>)]
        /\ UNCHANGED <<overlap, at, exit, out, length>>
        /\ offset' = [offset EXCEPT ![c] = o] /\ at[c] = "writing" /\ f \in DOMAIN file
    BY <1>0, <1>2 DEF WriteChunk, CommandInv
  <2>2. PICK w \in Commands : LastWriter(f, w)
    BY <1>0, <1>2, <2>1 DEF WriterInv
  <2>3. w = c
    BY <1>2, <2>1, <2>2 DEF LastWriter, Writers
  <2>4. file[f] = [k \in 1..offset[c] |-> <<c, k>>] /\ offset[c] \in Nat
    BY <1>0, <2>2, <2>3 DEF LastWriter, TypeOK
  <2>5. file'[f] = [k \in 1..o |-> <<c, k>>] /\ offset'[c] = o
    <3>1. offset'[c] = o
      BY <1>0, <2>1 DEF TypeOK
    <3>2. file'[f] = Placed(file[f], o, <<c, o>>)
      BY <2>1
    <3>3. Placed(file[f], o, <<c, o>>) = [k \in 1..o |-> <<c, k>>]
      BY <2>4, PlacedAtEnd, Zenon
    <3>4. QED
      BY <3>1, <3>2, <3>3, Zenon
  <2>6. Writers(f)' \subseteq {c}
    BY <2>1, <2>2, <2>3 DEF LastWriter, Writers
  <2>7. QED
    BY <1>2, <2>1, <2>2, <2>3, <2>5, <2>6 DEF LastWriter, Settled
<1>3. ASSUME NEW f \in DOMAIN file' \ overlap',
             ~(f = out[c] /\ Create(c) /\ at'[c] = "writing"),
             ~(f = out[c] /\ WriteChunk(c) /\ offset' # offset),
             NEW w \in Commands, LastWriter(f, w),
             f \in DOMAIN file, file'[f] = file[f]
      PROVE  LastWriter(f, w)'
  <2>1. Settled(w)' /\ out'[w] = out[w] /\ length'[w] = length[w]
    BY <1>3, StaySettled DEF LastWriter
  <2>2. w # c => offset'[w] = offset[w] /\ at'[w] = at[w] /\ exit'[w] = exit[w]
    BY <1>0, Frame
  <2>3. w = c => /\ offset'[c] = offset[c]
                 /\ at'[c] = "ended" =>
                      \/ offset[c] = length[c]
                      \/ offset[c] < length[c] /\ exit'[c] \in {exitOperational, "killed"}
    <3>1. ASSUME w = c PROVE WriteChunk(c) \/ Close(c) \/ Kill(c)
      BY <1>0, <1>3, <3>1 DEF LastWriter, Settled, CommandStep, Run, LoadInputs, ReadPackage,
         Check, SealPackage, Verify, Open, WriteStdout, Create
    <3>2. ASSUME w = c, WriteChunk(c)
          PROVE  /\ offset'[c] = offset[c] /\ offset[c] < length[c]
                 /\ exit'[c] = exitOperational
      <4>1. offset' = offset
        BY <1>3, <3>2 DEF LastWriter
      <4>2. Exit(c, exitOperational)
        BY <1>0, <3>2, <4>1 DEF WriteChunk, TypeOK
      <4>3. QED
        BY <1>0, <3>2, <4>1, <4>2 DEF WriteChunk, TypeOK
    <3>3. QED
      BY <1>0, <1>3, <3>1, <3>2 DEF Close, Kill, CommandInv, LastWriter, Settled, TypeOK
  <2>4. Writers(f)' \subseteq {w}
    <3>1. ASSUME NEW d \in Commands, at'[d] = "writing", out'[d] = f PROVE d \in Writers(f)
      <4>1. CASE d # c
        BY <1>0, <3>1, <4>1, Frame DEF Writers
      <4>2. CASE d = c
        <5>1. ~Create(c)
          BY <1>0, <1>3, <3>1, <4>2 DEF Create
        <5>2. WriteChunk(c)
          BY <1>0, <3>1, <4>2, <5>1 DEF CommandStep, Run, LoadInputs, ReadPackage, Check,
             SealPackage, Verify, Open, WriteStdout, Close, Kill, TypeOK
        <5>3. QED
          BY <1>0, <3>1, <4>2, <5>2 DEF WriteChunk, Writers
      <4>3. QED
        BY <4>1, <4>2
    <3>2. QED
      BY <1>3, <3>1 DEF LastWriter, Writers
  <2>5. QED
    BY <1>3, <2>1, <2>2, <2>3, <2>4 DEF LastWriter
<1>4. ASSUME NEW f \in DOMAIN file' \ overlap',
             ~(f = out[c] /\ Create(c) /\ at'[c] = "writing"),
             ~(f = out[c] /\ WriteChunk(c) /\ offset' # offset)
      PROVE  f \in DOMAIN file /\ file'[f] = file[f]
  <2>1. ASSUME f = out[c] PROVE UNCHANGED files
    <3>1. CASE Create(c)
      BY <1>0, <1>4, <2>1, <3>1 DEF Create, TypeOK
    <3>2. CASE WriteChunk(c)
      BY <1>0, <1>4, <2>1, <3>2 DEF WriteChunk, TypeOK
    <3>3. QED
      BY <3>1, <3>2, FileFrame
  <2>2. QED
    BY <2>1, FileFrame
<1>5. QED
  BY <1>0, <1>1, <1>2, <1>3, <1>4, FileFrame DEF WriterInv

(* An exit code is given once, and by the step that earns it. *)
LEMMA ExitStep ==
    ASSUME CliInv, NEW c \in Commands, CommandStep(c)
    PROVE  ExitCodesAreEarned'
<1> DEFINE Earned(d) ==
        /\ exit[d] = exitOK /\ kind[d] = "verify" =>
                /\ read[d] \in allowed
                /\ answer[d] # Nil /\ answer[d] = hash[read[d]]
        /\ exit[d] = exitOK /\ kind[d] # "verify" /\ out[d] # "stdout" =>
                offset[d] = length[d] /\ length[d] > 0
        /\ exit[d] = exitNegative => kind[d] # "seal" /\ read[d] # Nil
        /\ exit[d] = exitUsage =>
                read[d] = Nil /\ answer[d] = Nil /\ offset[d] = 0 /\ d \notin allowed
<1> USE DEF files, flags, service, results, Exit, Go, TypeOK
<1>0. /\ TypeOK /\ ReadInv /\ ExitCodesAreEarned /\ CommandInv(c) /\ at[c] # "ended"
      /\ exit[c] = Nil
  BY Frame DEF CliInv, CommandInv
<1>1. ASSUME NEW d \in Commands, d # c PROVE Earned(d)'
  <2>1. Earned(d)
    BY <1>0 DEF ExitCodesAreEarned
  <2>2. /\ exit'[d] = exit[d] /\ kind'[d] = kind[d] /\ out'[d] = out[d]
        /\ read'[d] = read[d] /\ length'[d] = length[d] /\ offset'[d] = offset[d]
        /\ answer'[d] = answer[d] /\ (d \in allowed' <=> d \in allowed)
        /\ allowed \subseteq allowed'
    BY <1>0, <1>1, Frame
  <2>3. read[d] \in allowed => hash'[read[d]] = hash[read[d]]
    BY <1>0, <1>1, StaySettled DEF ReadInv
  <2>4. QED
    BY <2>1, <2>2, <2>3
<1>2. Earned(c)'
  <2> USE NilAssumption DEF exitOK, exitOperational, exitUsage, exitNegative
  <2>1. CASE exit'[c] = Nil
    BY <2>1
  <2>2. CASE \E k \in {"seal", "verify", "open"}, named \in BOOLEAN,
                target \in {"package", "text", "stdout"} : Run(c, k, named, target)
    BY <1>0, <2>2 DEF Run, CommandInv, Settled
  <2>3. CASE LoadInputs(c) \/ ReadPackage(c) \/ Check(c) \/ SealPackage(c)
    <3>1. exit'[c] \in {Nil, exitOperational}
      BY <1>0, <2>3 DEF LoadInputs, ReadPackage, Check, SealPackage
    <3>2. QED
      BY <3>1
  <2>4. CASE Verify(c)
    BY <1>0, <2>4, CommandsAssumption DEF Verify, CommandInv, ReadInv
  <2>5. CASE Open(c)
    BY <1>0, <2>5 DEF Open, CommandInv
  <2>6. CASE WriteStdout(c) \/ Create(c) \/ WriteChunk(c) \/ Close(c) \/ Kill(c)
    <3>1. /\ exit'[c] \in {Nil, exitOperational, "killed", exitOK}
          /\ UNCHANGED <<out, length, kind>>
          /\ exit'[c] = exitOK =>
                /\ kind[c] # "verify"
                /\ out[c] # "stdout" =>
                      offset'[c] = offset[c] /\ offset[c] = length[c] /\ length[c] > 0
      BY <1>0, <2>6 DEF WriteStdout, Create, WriteChunk, Close, Kill, CommandInv
    <3>2. QED
      BY <3>1
  <2>7. QED
    BY <2>2, <2>3, <2>4, <2>5, <2>6 DEF CommandStep
<1>3. QED
  BY <1>1, <1>2 DEF ExitCodesAreEarned

(* Amended constraints are no concern of files and commands. *)
LEMMA AmendStep ==
    ASSUME CliInv, \/ \E v \in Versions : Amend(v)
                   \/ UNCHANGED vars
    PROVE  CliInv'
<1>1. /\ UNCHANGED <<files, flags, results, at, exit, offset>>
      /\ version' \in Versions /\ amends' \in 0..MaxAmends
  BY BoundsAssumption DEF Amend, CliInv, TypeOK, vars, service
<1> USE <1>1 DEF files, flags, results
<1>2. TypeOK'
  <2>1. FilesOK'
    BY DEF CliInv, TypeOK, FilesOK
  <2>2. QED
    BY <2>1 DEF CliInv, TypeOK
<1>3. ASSUME NEW d \in Commands PROVE CommandInv(d)'
  BY DEF CliInv, CommandInv, Settled, OutOf
<1>4. ReadInv' /\ ChunkInv'
  BY DEF CliInv, ReadInv, ChunkInv, Settled
<1>5. WriterInv'
  BY DEF CliInv, WriterInv, LastWriter, Settled, Writers
<1>6. ExitCodesAreEarned'
  BY DEF CliInv, ExitCodesAreEarned
<1>7. QED
  BY <1>2, <1>3, <1>4, <1>5, <1>6 DEF CliInv

(* The invariant is inductive. *)
LEMMA StepInv == CliInv /\ [Next]_vars => CliInv'
<1> SUFFICES ASSUME CliInv, [Next]_vars PROVE CliInv'
  OBVIOUS
<1>1. ASSUME NEW c \in Commands, CommandStep(c) PROVE CliInv'
  <2>1. TypeOK'
    BY <1>1, TypeStep
  <2>2. ASSUME NEW d \in Commands PROVE CommandInv(d)'
    BY <1>1, OwnStep, OthersStep
  <2>3. ReadInv' /\ ChunkInv'
    BY <1>1, ReadStep, ChunkStep
  <2>4. WriterInv' /\ ExitCodesAreEarned'
    BY <1>1, WriterStep, ExitStep
  <2>5. QED
    BY <2>1, <2>2, <2>3, <2>4 DEF CliInv
<1>2. QED
  BY <1>1, AmendStep, StepCases

(* Every reachable state of any commands satisfies the invariant. *)
THEOREM CliInvariant == Spec => []CliInv
  BY InitInv, StepInv, PTL DEF Spec

(* Exit codes say what happened: 0 and 3 are answers, 2 did nothing. *)
THEOREM ExitCodes == Spec => []ExitCodesAreEarned
<1>1. CliInv => ExitCodesAreEarned
  BY DEF CliInv
<1>2. QED
  BY <1>1, CliInvariant, PTL

(* No package that was not allowed and no text that was not opened is in a *)
(* file, not even for a moment and not even in part. *)
THEOREM EarnedOutput == Spec => []OnlyEarnedOutput
<1>1. ASSUME CliInv, NEW c \in Commands, NEW f, ChunksOf(f) \cap ({c} \X Nat) # {}
      PROVE  /\ f = "package" => c \in allowed
             /\ f = "text" => read[c] \in allowed
  <2>1. PICK k : f \in DOMAIN file /\ k \in DOMAIN file[f] /\ file[f][k] \in {c} \X Nat
    BY <1>1 DEF ChunksOf, Exists
  <2>2. file[f][k][1] = c
    BY <2>1
  <2>3. /\ f = "package" => c \in allowed
        /\ f = "text" => read[c] \in Commands
    BY <1>1, <2>1, <2>2 DEF CliInv, ChunkInv
  <2>4. QED
    BY <1>1, <2>3 DEF CliInv, ReadInv
<1>2. CliInv => OnlyEarnedOutput
  BY <1>1 DEF OnlyEarnedOutput
<1>3. QED
  BY <1>2, CliInvariant, PTL

(* A file that is no command's whole output was written by two at once, or *)
(* by one that has not finished or says so. *)
THEOREM CulpritExists == Spec => []BrokenFileHasCulprit
<1>1. CliInv => BrokenFileHasCulprit
  <2> SUFFICES ASSUME CliInv, NEW f \in DOMAIN file, ~IsWhole(f), f \notin overlap
               PROVE  \/ \E c \in Commands : out[c] = f /\ at[c] = "writing"
                      \/ \E c \in Commands : out[c] = f /\ offset[c] < length[c]
                                             /\ exit[c] \in {exitOperational, "killed"}
    BY DEF BrokenFileHasCulprit
  <2>1. PICK c \in Commands : LastWriter(f, c)
    BY DEF CliInv, WriterInv
  <2>2. offset[c] # length[c] \/ at[c] = "writing"
    <3>1. offset[c] = length[c] => IsWhole(f)
      BY <2>1 DEF LastWriter, IsWhole, Exists, Output
    <3>2. QED
      BY <3>1
  <2>3. QED
    BY <2>1, <2>2 DEF LastWriter, Settled
<1>2. QED
  BY <1>1, CliInvariant, PTL

============================================================================
