--------------------------- MODULE EvidenceDirProofs ---------------------------
(***************************************************************************)
(* For any number of processes, runs, inputs and files, with write errors  *)
(* and deaths at any point: a directory that verifies holds the evidence   *)
(* of one input, and an exit code of 0 means what it says to a process     *)
(* that had the directory to itself.                                       *)
(*                                                                         *)
(* The first needs of the directory only that no file is ever anything but *)
(* absent, torn or what was computed for it from some input: the hashes    *)
(* then pick the input. The second needs that a process that is alone has  *)
(* behind it only files of its own, which is inductive once being alone is *)
(* known to exclude every other writer. The pilot's packet is the first    *)
(* once more, through the hashes its documents hold of one another.        *)
(***************************************************************************)
EXTENDS PilotDir, TLAPS, SequenceTheorems

(* Content, with the command as a parameter.                               *)
ContentOf(c, f, in) ==
  IF f = Commands[c].root
  THEN [body |-> Commands[c].output[f][in], of |-> in,
        pins |-> [b \in Commands[c].bound |-> Commands[c].output[b][in]]]
  ELSE [body |-> Commands[c].output[f][in]]

LEMMA ContentIs == \A f, in : Content(f, in) = ContentOf(command, f, in)
  BY DEF Content, ContentOf, Root, Bound, Output

Stages == {"idle", "running", "writing", "exited", "dead"}

Typed ==
  /\ command \in DOMAIN Commands
  /\ pc \in [Procs[command] -> Stages]
  /\ input \in [Procs[command] -> Commands[command].inputs]
  /\ next \in [Procs[command] -> Nat]
  /\ opened \in [Procs[command] -> BOOLEAN]
  /\ code \in [Procs[command] -> Nat]
  /\ alone \in [Procs[command] -> BOOLEAN]
  /\ \A p \in Procs[command] :
       next[p] >= 1 /\ (pc[p] = "running" => next[p] = 1)

(* A name holds nothing, half a file or what some input makes it.          *)
Held(k) ==
  {Absent, Torn} \cup {ContentOf(command, Commands[command].files[k], in) :
                         in \in Commands[command].inputs}

Stored ==
  /\ disk = [k \in DOMAIN Commands[command].files |-> disk[k]]
  /\ \A k \in DOMAIN Commands[command].files : disk[k] \in Held(k)

(* A process that is alone is the only one writing, and unless it goes on  *)
(* after an error the files behind it are its own.                         *)
Exclusive ==
  \A p, q \in Procs[command] :
    pc[p] = "writing" /\ alone[p] /\ pc[q] = "writing" => p = q

OwnFiles(p) ==
  \A k \in DOMAIN Commands[command].files :
    k < next[p] => disk[k] = ContentOf(command, Commands[command].files[k], input[p])

Behind ==
  \A p \in Procs[command] :
    pc[p] = "writing" /\ alone[p] /\ ~Commands[command].ignoresWriteErrors => OwnFiles(p)

IInv == Typed /\ Stored /\ Exclusive /\ Behind

LEMMA FilesFacts ==
  ASSUME NEW c \in DOMAIN Commands
  PROVE  /\ Len(Commands[c].files) \in Nat
         /\ DOMAIN Commands[c].files = 1..Len(Commands[c].files)
  BY CommandAssumption

LEMMA InitIInv == Init => IInv
<1>. SUFFICES ASSUME Init PROVE IInv
  OBVIOUS
<1>1. command \in DOMAIN Commands
  BY DEF Init
<1>2. (CHOOSE in \in Inputs : TRUE) \in Inputs
  BY <1>1, CommandAssumption DEF Inputs
<1>3. Typed
  BY <1>1, <1>2 DEF Init, Typed, Processes, Inputs, Stages
<1>4. Stored
  BY DEF Init, Stored, Held, Files
<1>5. Exclusive /\ Behind
  BY DEF Init, Exclusive, Behind, Processes
<1>. QED BY <1>3, <1>4, <1>5 DEF IInv

LEMMA StepTyped ==
  ASSUME Typed, NEW p \in Procs[command], Step(p) PROVE Typed'
<1>. USE DEF Typed, Stages
<1>0. /\ command' = command
      /\ \A in \in Commands[command].inputs : in.fails \in Nat
      /\ Commands[command].noDirectoryCode \in Nat
  BY CommandAssumption DEF Step, Start, Refuse, NoDirectory, BeginWriting, OpenFile,
     FillFile, WriteFails, Finish, Die
<1>1. ASSUME NEW in \in Inputs, Start(p, in) PROVE Typed'
  BY <1>0, <1>1 DEF Start, Inputs
<1>2. CASE Refuse(p)
  BY <1>0, <1>2 DEF Refuse, Exit
<1>3. CASE NoDirectory(p)
  BY <1>0, <1>3 DEF NoDirectory, Exit
<1>4. CASE BeginWriting(p)
  <2>1. alone' \in [Procs[command] -> BOOLEAN]
    BY <1>4 DEF BeginWriting, Processes
  <2>. QED BY <1>0, <1>4, <2>1 DEF BeginWriting
<1>5. CASE OpenFile(p)
  BY <1>0, <1>5 DEF OpenFile, Writing
<1>6. CASE FillFile(p)
  BY <1>0, <1>6 DEF FillFile, Writing
<1>7. CASE WriteFails(p)
  <2>1. /\ pc[p] = "writing" /\ opened' = [opened EXCEPT ![p] = FALSE]
        /\ UNCHANGED <<input, alone>>
    BY <1>7 DEF WriteFails, Writing
  <2>2. \/ next' = [next EXCEPT ![p] = @ + 1] /\ UNCHANGED <<pc, code>>
        \/ pc' = [pc EXCEPT ![p] = "exited"] /\ code' = [code EXCEPT ![p] = 1] /\ next' = next
    BY <1>7, ZenonT(30) DEF WriteFails, Exit
  <2>. QED BY <1>0, <2>1, <2>2
<1>8. CASE Finish(p)
  <2>1. (IF input[p].leaks \cap Commands[command].checked # {} THEN 4 ELSE 0) \in Nat
    OBVIOUS
  <2>. QED BY <1>0, <1>8, <2>1 DEF Finish, Exit
<1>9. CASE Die(p)
  BY <1>0, <1>9 DEF Die
<1>. QED BY <1>1, <1>2, <1>3, <1>4, <1>5, <1>6, <1>7, <1>8, <1>9 DEF Step

LEMMA StepStored ==
  ASSUME Typed, Stored, NEW p \in Procs[command], Step(p) PROVE Stored'
<1>1. CASE OpenFile(p)
  <2>1. command' = command /\ disk' = [disk EXCEPT ![next[p]] = Torn]
    BY <1>1 DEF OpenFile
  <2>. QED BY <2>1 DEF Stored, Held
<1>2. CASE FillFile(p)
  <2>. DEFINE new == ContentOf(command, Commands[command].files[next[p]], input[p])
  <2>1. command' = command /\ disk' = [disk EXCEPT ![next[p]] = new]
    BY <1>2, ContentIs DEF FillFile, Files
  <2>2. new \in Held(next[p])
    BY DEF Typed, Held
  <2>. HIDE DEF new
  <2>3. /\ disk' = [k \in DOMAIN Commands[command].files |-> disk'[k]]
        /\ \A k \in DOMAIN Commands[command].files : disk'[k] \in Held(k)
    BY <2>1, <2>2 DEF Stored
  <2>. QED BY <2>1, <2>3 DEF Stored, Held
<1>3. CASE \/ \E in \in Inputs : Start(p, in)
           \/ Refuse(p) \/ NoDirectory(p) \/ BeginWriting(p)
           \/ WriteFails(p) \/ Finish(p) \/ Die(p)
  <2>1. command' = command /\ disk' = disk
    BY <1>3 DEF Start, Refuse, NoDirectory, BeginWriting, WriteFails, Finish, Die
  <2>. QED BY <2>1 DEF Stored, Held
<1>. QED BY <1>1, <1>2, <1>3 DEF Step

LEMMA StepExclusive ==
  ASSUME Typed, Exclusive, NEW p \in Procs[command], Step(p) PROVE Exclusive'
<1>0. command' = command
  BY DEF Step, Start, Refuse, NoDirectory, BeginWriting, OpenFile, FillFile, WriteFails,
     Finish, Die
<1>1. CASE BeginWriting(p)
  <2>. DEFINE others == {q \in Procs[command] \ {p} : pc[q] = "writing"}
  <2>1. /\ pc' = [pc EXCEPT ![p] = "writing"]
        /\ alone' = [q \in Procs[command] |-> IF q = p THEN others = {}
                                              ELSE alone[q] /\ q \notin others]
    BY <1>1 DEF BeginWriting, Processes
  <2>. SUFFICES ASSUME NEW a \in Procs[command], NEW b \in Procs[command],
                       pc'[a] = "writing", alone'[a], pc'[b] = "writing"
                PROVE  a = b
    BY <1>0 DEF Exclusive
  <2>2. CASE a = p
    BY <2>1, <2>2 DEF Typed
  <2>3. CASE a # p
    BY <2>1, <2>3 DEF Typed
  <2>. QED BY <2>2, <2>3
<1>2. CASE ~BeginWriting(p)
  <2>1. alone' = alone /\ \A q \in Procs[command] : pc'[q] = "writing" => pc[q] = "writing"
    BY <1>2 DEF Step, Start, Refuse, NoDirectory, OpenFile, FillFile, WriteFails, Finish,
       Die, Exit, Writing, Typed
  <2>. QED BY <1>0, <2>1 DEF Exclusive
<1>. QED BY <1>1, <1>2

LEMMA StepBehind ==
  ASSUME Typed, Stored, Exclusive, Behind, NEW p \in Procs[command], Step(p) PROVE Behind'
<1>0. command' = command
  BY DEF Step, Start, Refuse, NoDirectory, BeginWriting, OpenFile, FillFile, WriteFails,
     Finish, Die
<1>. SUFFICES ASSUME NEW q \in Procs[command], pc'[q] = "writing", alone'[q],
                     ~Commands[command].ignoresWriteErrors,
                     NEW k \in DOMAIN Commands[command].files, k < next'[q]
              PROVE  disk'[k] = ContentOf(command, Commands[command].files[k], input'[q])
  BY <1>0 DEF Behind, OwnFiles
<1>a. k \in Nat /\ k >= 1
  BY FilesFacts DEF Typed
<1>b. pc[q] = "writing" /\ alone[q] /\ k < next[q]
        => disk[k] = ContentOf(command, Commands[command].files[k], input[q])
  BY DEF Behind, OwnFiles
<1>c. pc[q] = "writing" /\ alone[q] /\ pc[p] = "writing" => p = q
  BY DEF Exclusive
<1>1. CASE BeginWriting(p)
  <2>1. /\ pc[p] = "running" /\ next' = next /\ UNCHANGED <<disk, input>>
        /\ q # p => pc[q] = "writing" /\ alone[q]
    BY <1>1 DEF BeginWriting, Processes, Typed
  <2>2. q # p
    BY <1>a, <2>1 DEF Typed
  <2>. QED BY <1>b, <2>1, <2>2
<1>2. CASE OpenFile(p)
  <2>1. /\ pc[p] = "writing" /\ pc' = pc /\ alone' = alone /\ next' = next /\ input' = input
        /\ disk' = [disk EXCEPT ![next[p]] = Torn]
    BY <1>2 DEF OpenFile, Writing
  <2>2. p = q /\ k # next[p]
    BY <1>c, <1>a, <2>1 DEF Typed
  <2>3. disk'[k] = disk[k]
    BY <2>1, <2>2 DEF Stored
  <2>. QED BY <1>b, <2>1, <2>3
<1>3. CASE FillFile(p)
  <2>1. /\ pc[p] = "writing" /\ pc' = pc /\ alone' = alone /\ input' = input
        /\ next' = [next EXCEPT ![p] = @ + 1]
        /\ disk' = [disk EXCEPT ![next[p]] =
                      ContentOf(command, Commands[command].files[next[p]], input[p])]
    BY <1>3, ContentIs DEF FillFile, Writing, Files
  <2>2. p = q /\ next'[q] = next[q] + 1 /\ next[q] \in Nat
    BY <1>c, <2>1 DEF Typed
  <2>3. CASE k = next[q]
    BY <2>1, <2>2, <2>3 DEF Stored
  <2>4. CASE k # next[q]
    <3>1. k < next[q]
      BY <1>a, <2>2, <2>4
    <3>2. disk'[k] = disk[k]
      BY <2>1, <2>2, <2>4 DEF Stored
    <3>. QED BY <1>b, <2>1, <3>1, <3>2
  <2>. QED BY <2>3, <2>4
<1>4. CASE WriteFails(p)
  <2>1. /\ pc'[p] = "exited" /\ pc' = [pc EXCEPT ![p] = "exited"]
        /\ UNCHANGED <<disk, input, alone, next>>
    BY <1>4 DEF WriteFails, IgnoresWriteErrors, Exit, Typed
  <2>. QED BY <1>b, <2>1 DEF Typed
<1>5. CASE \E in \in Inputs : Start(p, in)
  <2>1. /\ pc'[p] = "running" /\ disk' = disk /\ alone' = alone
        /\ q # p => pc'[q] = pc[q] /\ next'[q] = next[q] /\ input'[q] = input[q]
    BY <1>5 DEF Start, Typed
  <2>. QED BY <1>b, <2>1
<1>6. CASE Refuse(p) \/ NoDirectory(p) \/ Finish(p) \/ Die(p)
  <2>1. /\ UNCHANGED <<disk, input, next, alone>>
        /\ pc'[p] # "writing" /\ (q # p => pc'[q] = pc[q])
    BY <1>6 DEF Refuse, NoDirectory, Finish, Die, Exit, Typed
  <2>. QED BY <1>b, <2>1
<1>. QED BY <1>1, <1>2, <1>3, <1>4, <1>5, <1>6 DEF Step

LEMMA StepIInv == IInv /\ [Next]_vars => IInv'
<1>. SUFFICES ASSUME IInv, [Next]_vars PROVE IInv'
  OBVIOUS
<1>1. CASE Next
  <2>1. PICK p \in Procs[command] : Step(p)
    BY <1>1 DEF Next, Processes
  <2>. QED BY <2>1, StepTyped, StepStored, StepExclusive, StepBehind DEF IInv
<1>2. CASE UNCHANGED vars
  <2>1. Typed'
    BY <1>2 DEF vars, IInv, Typed
  <2>2. Stored'
    BY <1>2 DEF vars, IInv, Stored, Held
  <2>3. Exclusive'
    BY <1>2 DEF vars, IInv, Exclusive
  <2>4. Behind'
    BY <1>2 DEF vars, IInv, Behind, OwnFiles
  <2>. QED BY <2>1, <2>2, <2>3, <2>4 DEF IInv
<1>. QED BY <1>1, <1>2

LEMMA PlaceFacts ==
  ASSUME NEW f, f \in {Files[k] : k \in DOMAIN Files}
  PROVE  Place(f) \in DOMAIN Files /\ Files[Place(f)] = f
  BY DEF Place

(* A directory whose root file is whole and matches every file it has the  *)
(* hash of holds, in each of these, the evidence of the input that the     *)
(* root names, whatever processes failed, died or ran at the same time.    *)
THEOREM VerifiedDirectory == Spec => []VerifiedIsOneRun
<1>1. IInv => VerifiedIsOneRun
  <2>. SUFFICES ASSUME IInv, Verifies, NEW b \in Bound
                PROVE  disk[Place(b)] = Content(b, disk[Place(Root)].of)
    BY DEF VerifiedIsOneRun
  <2>. USE DEF Whole
  <2>1. command \in DOMAIN Commands
    BY DEF IInv, Typed
  <2>2. ASSUME NEW f \in {Root} \cup Bound
        PROVE  f \in {Files[k] : k \in DOMAIN Files}
    BY <2>1, CommandAssumption DEF Root, Bound, Files
  <2>3. ASSUME NEW f \in {Root} \cup Bound, Whole(f)
        PROVE  \E in \in Inputs : disk[Place(f)] = Content(f, in)
    <3>1. Place(f) \in DOMAIN Files /\ Files[Place(f)] = f
      BY <2>2, PlaceFacts
    <3>2. disk[Place(f)] \in Held(Place(f))
      BY <3>1 DEF IInv, Stored, Files
    <3>. QED BY <2>3, <3>1, <3>2, ContentIs DEF Held, Files, Inputs
  <2>4. PICK in \in Inputs : disk[Place(Root)] = Content(Root, in)
    BY <2>3 DEF Verifies
  <2>5. PICK own \in Inputs : disk[Place(b)] = Content(b, own)
    BY <2>3 DEF Verifies
  <2>6. disk[Place(Root)].of = in /\ disk[Place(Root)].pins[b] = Output[b][in]
    BY <2>4 DEF Content
  <2>7. CASE b = Root
    BY <2>4, <2>6, <2>7
  <2>8. CASE b # Root
    <3>1. disk[Place(b)] = [body |-> Output[b][own]]
      BY <2>5, <2>8 DEF Content
    <3>2. Output[b][own] = Output[b][in]
      BY <2>6, <3>1 DEF Verifies
    <3>3. Content(b, in) = [body |-> Output[b][in]]
      BY <2>8 DEF Content
    <3>. QED BY <2>6, <3>1, <3>2, <3>3
  <2>. QED BY <2>7, <2>8
<1>. QED BY <1>1, InitIInv, StepIInv, PTL DEF Spec

(* A process of a command that stops at write errors, and that no other    *)
(* process wrote beside, exits with 0 only when every file is there, whole *)
(* and its own.                                                            *)
THEOREM ZeroIsPublished == Spec => ExitZeroPublishes
<1>1. ASSUME IInv, [Next]_vars
      PROVE  [\A p \in Processes :
                ~IgnoresWriteErrors
                  /\ pc[p] = "writing" /\ pc'[p] = "exited" /\ code'[p] = 0 /\ alone[p]
                  => \A k \in DOMAIN Files : disk[k] = Content(Files[k], input[p])]_vars
  <2>. SUFFICES ASSUME ~(UNCHANGED vars), NEW p \in Procs[command], ~IgnoresWriteErrors,
                       pc[p] = "writing", pc'[p] = "exited", code'[p] = 0, alone[p],
                       NEW k \in DOMAIN Files
                PROVE  disk[k] = Content(Files[k], input[p])
    BY DEF Processes
  <2>1. PICK q \in Procs[command] : Step(q)
    BY <1>1 DEF Next, Processes
  <2>2. q = p
    BY <2>1, <1>1 DEF IInv, Typed, Step, Start, Refuse, NoDirectory, BeginWriting, OpenFile,
       FillFile, WriteFails, Finish, Die, Exit, Writing
  <2>3. Finish(p)
    <3>1. ~WriteFails(p)
      BY <1>1 DEF WriteFails, Exit, IInv, Typed
    <3>. QED BY <2>1, <2>2, <3>1, <1>1 DEF IInv, Typed, Step, Start, Refuse, NoDirectory,
            BeginWriting, OpenFile, FillFile, Die, Exit
  <2>4. k < next[p]
    BY <1>1, <2>3, FilesFacts DEF Finish, Files, IInv, Typed
  <2>5. disk[k] = ContentOf(command, Commands[command].files[k], input[p])
    BY <1>1, <2>4 DEF IInv, Behind, OwnFiles, Files, IgnoresWriteErrors
  <2>. QED BY <2>5, ContentIs DEF Files
<1>. QED BY <1>1, InitIInv, StepIInv, PTL DEF Spec, ExitZeroPublishes

-----------------------------------------------------------------------------
(* A file that is whole is what some input makes it. *)
LEMMA WholeIsComputed ==
  ASSUME IInv, NEW f \in {Files[k] : k \in DOMAIN Files}, Whole(f)
  PROVE  \E in \in Inputs : disk[Place(f)] = Content(f, in)
<1>1. Place(f) \in DOMAIN Files /\ Files[Place(f)] = f
  BY PlaceFacts
<1>2. disk[Place(f)] \in Held(Place(f))
  BY <1>1 DEF IInv, Stored, Files
<1>. QED BY <1>1, <1>2, ContentIs DEF Held, Files, Inputs, Whole

Bodies == {"extract-casefile.json", "redaction.jsonl", "bank-reconcile-report.json"}

(* In the directory of kobold-pilot it is what the workflow computes.      *)
LEMMA WholeIsWorkflow ==
  ASSUME IInv, command = "pilot", NEW f \in Bodies \cup {"pilot-packet.json"}, Whole(f)
  PROVE  \E in \in Inputs : Written(f) = FileContent(in)[f]
<1>1. /\ "pilot" \in DOMAIN Commands
      /\ Files = Commands["pilot"].files /\ Root = Commands["pilot"].root
      /\ Inputs = Commands["pilot"].inputs /\ Output = Commands["pilot"].output
      /\ Bound = Commands["pilot"].bound
  BY DEF IInv, Typed, Files, Root, Inputs, Output, Bound
<1>2. {Root} \subseteq {Files[k] : k \in DOMAIN Files}
  BY <1>1, CommandAssumption
<1>3. f \in {Files[k] : k \in DOMAIN Files}
  BY <1>1, <1>2, PilotAssumption DEF Bodies
<1>4. PICK in \in Inputs : disk[Place(f)] = Content(f, in)
  BY <1>3, WholeIsComputed
<1>5. Written(f) = Output[f][in]
  BY <1>4 DEF Written, Content
<1>6. Output[f][in] = FileContent(in)[f]
  BY <1>1, <1>3, <1>4, PilotAssumption
<1>. QED BY <1>5, <1>6

LEMMA FileContentIs ==
  ASSUME NEW in
  PROVE  /\ FileContent(in)["extract-casefile.json"] = Extract(in).casefile
         /\ FileContent(in)["redaction.jsonl"] = RedactionLines
         /\ FileContent(in)["bank-reconcile-report.json"] = Report(in).json
         /\ FileContent(in)["pilot-packet.json"] = PilotPacket(in)
BY DEF FileContent

(* The packet of an input, as what it says. *)
LEMMA PacketSays ==
  ASSUME NEW in
  PROVE  /\ PilotPacket(in).complete
         /\ PilotPacket(in).date = in.date /\ PilotPacket(in).unit = in.unit
         /\ PilotPacket(in).system = in.system
         /\ DOMAIN PilotPacket(in).sources = 1..5
         /\ PilotPacket(in).sources[1] =
              [name |-> "extract_profile", sha |-> Sha(Extract(in).casefile)]
         /\ PilotPacket(in).sources[2] =
              [name |-> "redaction_policy", sha |-> Sha(RedactionLines)]
         /\ PilotPacket(in).sources[3] =
              [name |-> "bank_reconcile", sha |-> Sha(Report(in).json)]
<1>. DEFINE arts == Artifacts(in)
            i == [unit |-> in.unit, date |-> in.date, system |-> in.system,
                  copybook |-> DetailCopybook, notes |-> in.notes, artifacts |-> arts]
<1>1. /\ DOMAIN arts = 1..5
      /\ arts[1] = Artifact("extract_profile", Extract(in).casefile)
      /\ arts[2] = Artifact("redaction_policy", RedactionLines)
      /\ arts[3] = Artifact("bank_reconcile", Report(in).json)
  BY DEF Artifacts
<1>2. PilotPacket(in) = Packet(i)
  BY DEF PilotPacket
<1>3. \A n, x : Artifact(n, x).name = n /\ Artifact(n, x).content = x
  BY DEF Artifact
<1>. HIDE DEF arts
<1>4. /\ i.artifacts = arts /\ i.date = in.date /\ i.unit = in.unit /\ i.system = in.system
  OBVIOUS
<1>. HIDE DEF i
<1>5. Required \ {i.artifacts[k].name : k \in DOMAIN i.artifacts} = {}
  BY <1>1, <1>3, <1>4 DEF Required
<1>6. /\ Packet(i).complete /\ Packet(i).date = in.date /\ Packet(i).unit = in.unit
      /\ Packet(i).system = in.system
      /\ Packet(i).sources = [k \in DOMAIN arts |-> [name |-> arts[k].name, sha |-> Sha(arts[k].content)]]
  BY <1>4, <1>5 DEF Packet
<1>. QED BY <1>1, <1>2, <1>3, <1>6

LEMMA SameDigest == \A x, y : Sha(x) = Sha(y) => x = y
  BY DEF Sha

LEMMA PairIsSeq ==
  ASSUME NEW S, NEW f \in [1..2 -> S]
  PROVE  f \in Seq(S) /\ Len(f) = 2
<1>1. f \in Seq(S)
  BY SeqDef
<1>2. DOMAIN f = 1..Len(f) /\ Len(f) \in Nat
  BY <1>1, LenProperties
<1>. QED BY <1>1, <1>2

LEMMA ThreeAndTwo ==
  ASSUME NEW S, NEW s \in Seq(S), NEW t \in Seq(S), Len(s) = 3, Len(t) = 2
  PROVE  /\ DOMAIN (s \o t) = 1..5
         /\ (s \o t)[4] = t[1] /\ (s \o t)[5] = t[2]
<1>1. /\ s \o t \in Seq(S) /\ Len(s \o t) = Len(s) + Len(t)
      /\ \A i \in 1..(Len(s) + Len(t)) :
           (s \o t)[i] = IF i <= Len(s) THEN s[i] ELSE t[i - Len(s)]
  BY ConcatProperties
<1>2. DOMAIN (s \o t) = 1..Len(s \o t)
  BY <1>1, LenProperties
<1>. QED BY <1>1, <1>2

(* The operator's view is bound to what the caller adds to the sources.    *)
LEMMA ReportSays ==
  ASSUME NEW in
  PROVE  /\ Bears(Report(in).json.sources, "EXTRACT.PROFILE.1", Extract(in).casefile)
         /\ Bears(Report(in).json.sources, "PRIVACY.REDACTION.1", RedactionLines)
         /\ Report(in).json.batch = Batch(in)
<1>. DEFINE extra == ExtraSources(in)
            i == [batch |-> Batch(in), custody |-> Custody(in), banking |-> BankingOutcome,
                  db2 |-> NoDb2, privacy |-> [redacted |-> 3, tokenized |-> 3], extra |-> extra]
            own == <<Source("BANK.1", i.banking.casefile), Source("BANK.2", i.banking.casefile),
                     Source("POSTING.1", i.custody.casefile)>>
            added == [k \in DOMAIN i.extra |-> Source(i.extra[k].court, i.extra[k].casefile)]
<1>1. Report(in) = BankReconcileReport(i)
  BY DEF Report
<1>2. /\ DOMAIN extra = 1..2
      /\ extra[1] = [court |-> "EXTRACT.PROFILE.1", casefile |-> Extract(in).casefile]
      /\ extra[2] = [court |-> "PRIVACY.REDACTION.1", casefile |-> RedactionLines]
  BY DEF ExtraSources
<1>. HIDE DEF extra
<1>3. i.extra = extra /\ i.batch = Batch(in) /\ i.db2 = NoDb2
  OBVIOUS
<1>. HIDE DEF i
<1>4. /\ Report(in).json.batch = Batch(in)
      /\ Report(in).json.sources = SourceEvidence(i)
  BY <1>1, <1>3 DEF BankReconcileReport
<1>5. /\ DOMAIN added = 1..2
      /\ added[1] = [court |-> "EXTRACT.PROFILE.1", sha |-> Sha(Extract(in).casefile)]
      /\ added[2] = [court |-> "PRIVACY.REDACTION.1", sha |-> Sha(RedactionLines)]
  BY <1>2, <1>3 DEF Source
<1>6. SourceEvidence(i) = own \o <<>> \o added
  BY <1>3 DEF SourceEvidence
<1>7. added = [k \in 1..2 |-> added[k]]
  BY <1>5
<1>. DEFINE S == {own[1], own[2], own[3], added[1], added[2]}
<1>8. own \in Seq(S) /\ Len(own) = 3
  OBVIOUS
<1>9. \A k \in 1..2 : added[k] \in S
  OBVIOUS
<1>. HIDE DEF added, own, S
<1>10. added \in Seq(S) /\ Len(added) = 2
  <2>1. added \in [1..2 -> S]
    BY <1>7, <1>9
  <2>. QED BY <2>1, PairIsSeq
<1>11. own \o <<>> = own
  BY <1>8
<1>12. /\ DOMAIN (own \o added) = 1..5
       /\ (own \o added)[4] = added[1] /\ (own \o added)[5] = added[2]
  BY <1>8, <1>10, ThreeAndTwo
<1>13. SourceEvidence(i) = own \o added
  BY <1>6, <1>11
<1>. DEFINE sources == own \o added
<1>14. Report(in).json.sources = sources
  BY <1>4, <1>13
<1>15. DOMAIN sources = 1..5 /\ sources[4] = added[1] /\ sources[5] = added[2]
  BY <1>12
<1>. HIDE DEF sources
<1>16. /\ Bears(sources, "EXTRACT.PROFILE.1", Extract(in).casefile)
       /\ Bears(sources, "PRIVACY.REDACTION.1", RedactionLines)
  BY <1>5, <1>15 DEF Bears
<1>. QED BY <1>4, <1>14, <1>16

(* A packet that is whole and matches the three documents it cannot do     *)
(* without is of one workflow with them, whatever other runs, errors and    *)
(* deaths left in the directory, for any arguments of any number of runs.   *)
THEOREM OneWorkflow == Spec => []PacketIsOneWorkflow
<1>1. IInv => PacketIsOneWorkflow
  <2>. DEFINE packet == Written("pilot-packet.json")
              bound == {k \in DOMAIN packet.sources : packet.sources[k].name \in DOMAIN ArtifactFile}
              extract == Written("extract-casefile.json")
              report == Written("bank-reconcile-report.json")
  <2>. SUFFICES ASSUME IInv, command = "pilot", Whole("pilot-packet.json"),
                       \A k \in bound : /\ Whole(ArtifactFile[packet.sources[k].name])
                                        /\ Sha(Written(ArtifactFile[packet.sources[k].name]))
                                             = packet.sources[k].sha
                PROVE  /\ packet.complete
                       /\ Bears(report.sources, "EXTRACT.PROFILE.1", extract)
                       /\ Bears(report.sources, "PRIVACY.REDACTION.1", Written("redaction.jsonl"))
                       /\ extract.provenance.profile.date = packet.date
                       /\ report.batch = [unit |-> packet.unit, date |-> packet.date,
                                          system |-> packet.system]
    BY DEF PacketIsOneWorkflow
  <2>1. PICK in \in Inputs : packet = PilotPacket(in)
    BY WholeIsWorkflow, FileContentIs
  <2>2. /\ ArtifactFile["extract_profile"] = "extract-casefile.json"
        /\ ArtifactFile["redaction_policy"] = "redaction.jsonl"
        /\ ArtifactFile["bank_reconcile"] = "bank-reconcile-report.json"
        /\ {"extract_profile", "redaction_policy", "bank_reconcile"} \subseteq DOMAIN ArtifactFile
    BY DEF ArtifactFile
  <2>3. /\ DOMAIN packet.sources = 1..5
        /\ packet.sources[1] = [name |-> "extract_profile", sha |-> Sha(Extract(in).casefile)]
        /\ packet.sources[2] = [name |-> "redaction_policy", sha |-> Sha(RedactionLines)]
        /\ packet.sources[3] = [name |-> "bank_reconcile", sha |-> Sha(Report(in).json)]
        /\ packet.complete /\ packet.date = in.date /\ packet.unit = in.unit
        /\ packet.system = in.system
    BY <2>1, PacketSays
  <2>7. \A k \in DOMAIN packet.sources : packet.sources[k].name \in DOMAIN ArtifactFile =>
          Sha(Written(ArtifactFile[packet.sources[k].name])) = packet.sources[k].sha
    OBVIOUS
  <2>. HIDE DEF packet
  <2>4. /\ extract = Extract(in).casefile
        /\ Written("redaction.jsonl") = RedactionLines
        /\ report = Report(in).json
    <3>1. /\ Sha(extract) = Sha(Extract(in).casefile)
          /\ Sha(Written("redaction.jsonl")) = Sha(RedactionLines)
          /\ Sha(report) = Sha(Report(in).json)
      BY <2>2, <2>3, <2>7
    <3>. QED BY <3>1, SameDigest
  <2>5. Extract(in).casefile.provenance.profile.date = in.date
    BY DEF Extract, ExtractManifest
  <2>6. Batch(in) = [unit |-> in.unit, date |-> in.date, system |-> in.system]
    BY DEF Batch
  <2>. QED BY <2>4, <2>5, <2>6, <2>3, ReportSays
<1>. QED BY <1>1, InitIInv, StepIInv, PTL DEF Spec
===============================================================================
