------------------------------ MODULE EvidenceDir ------------------------------
(***************************************************************************)
(* How the two commands that publish evidence, kobold-recon                *)
(* (src/src/bin/recon.rs) and kobold-pilot (src/src/bin/pilot.rs), leave   *)
(* it in their output directory. Both compute every file in memory, create *)
(* the directory and write the files one after the other, in place; one of *)
(* the files, the Root, holds the hashes of others, the Bound ones. Any    *)
(* step may fail, a process may die between any two, and nothing keeps two *)
(* processes apart that were given the same directory.                     *)
(***************************************************************************)
EXTENDS Integers, Sequences, FiniteSets

CONSTANTS
  Procs,       \* Procs[command]: processes given the same --out
  MaxRuns,     \* MaxRuns[command]: bound on the processes started
  Commands,    \* what is known of each command, see below
  Absent, Torn

(* A command has                                                           *)
(*   inputs               what a process can be run on                     *)
(*   files                the names it writes, in that order               *)
(*   root, bound          the file with hashes, those it has the hashes of *)
(*   output[f][in]        what file f is computed to be, hashes apart      *)
(*   checked              the files searched for cleartext at the end      *)
(*   ignoresWriteErrors   whether it goes on when a file cannot be written *)
(*   noDirectoryCode      its exit code when --out cannot be created       *)
ASSUME CommandAssumption ==
  \A c \in DOMAIN Commands :
    /\ Commands[c].files \in Seq(STRING)
    /\ {Commands[c].root} \cup Commands[c].bound
         \subseteq {Commands[c].files[k] : k \in DOMAIN Commands[c].files}
    /\ Commands[c].inputs # {}
    /\ \A in \in Commands[c].inputs : in.fails \in Nat
    /\ Commands[c].noDirectoryCode \in Nat

VARIABLES
  command,   \* the one whose output directory this is
  disk,      \* what each name in the directory holds
  pc,        \* of each process: "idle", "running", "writing", "exited" or "dead"
  input,     \* what it was run on
  next,      \* the file it is at
  opened,    \* whether that file is created and not yet filled
  code,      \* its exit code
  alone,     \* whether no other process has been writing while it was
  runs       \* processes started

vars == <<command, disk, pc, input, next, opened, code, alone, runs>>

Files == Commands[command].files
Root == Commands[command].root
Bound == Commands[command].bound
Output == Commands[command].output
Inputs == Commands[command].inputs
IgnoresWriteErrors == Commands[command].ignoresWriteErrors
Processes == Procs[command]

Init ==
  /\ command \in DOMAIN Commands
  /\ disk = [k \in DOMAIN Files |-> Absent]
  /\ pc = [p \in Processes |-> "idle"]
  /\ input = [p \in Processes |-> CHOOSE in \in Inputs : TRUE]
  /\ next = [p \in Processes |-> 1]
  /\ opened = [p \in Processes |-> FALSE]
  /\ code = [p \in Processes |-> 0]
  /\ alone = [p \in Processes |-> TRUE]
  /\ runs = 0

Place(f) == CHOOSE k \in DOMAIN Files : Files[k] = f

(* Mutant of Content: the files are hashed as they are found on disk. *)
ContentReadBack(f, in) ==
  IF f = Root
  THEN [body |-> Output[f][in], of |-> in,
        pins |-> [b \in Bound |-> IF disk[Place(b)] \in {Absent, Torn}
                                  THEN Output[b][in] ELSE disk[Place(b)].body]]
  ELSE [body |-> Output[f][in]]

(* The pins are hashes of what was computed, taken as that content itself. *)
Content(f, in) ==
  IF f = Root
  THEN [body |-> Output[f][in], of |-> in, pins |-> [b \in Bound |-> Output[b][in]]]
  ELSE [body |-> Output[f][in]]

Start(p, in) ==
  /\ runs < MaxRuns[command]
  /\ pc[p] \in {"idle", "exited", "dead"}
  /\ pc' = [pc EXCEPT ![p] = "running"]
  /\ input' = [input EXCEPT ![p] = in]
  /\ next' = [next EXCEPT ![p] = 1]
  /\ opened' = [opened EXCEPT ![p] = FALSE]
  /\ runs' = runs + 1
  /\ UNCHANGED <<command, disk, code, alone>>

Exit(p, c) ==
  /\ pc' = [pc EXCEPT ![p] = "exited"]
  /\ code' = [code EXCEPT ![p] = c]

(* Arguments, an unreadable copybook or data file, a refusal by the        *)
(* library: the run ends before it touches the directory.                  *)
Refuse(p) ==
  /\ pc[p] = "running"
  /\ input[p].fails # 0
  /\ Exit(p, input[p].fails)
  /\ UNCHANGED <<command, disk, input, next, opened, alone, runs>>

NoDirectory(p) ==
  /\ pc[p] = "running"
  /\ input[p].fails = 0
  /\ Exit(p, Commands[command].noDirectoryCode)
  /\ UNCHANGED <<command, disk, input, next, opened, alone, runs>>

BeginWriting(p) ==
  LET others == {q \in Processes \ {p} : pc[q] = "writing"} IN
  /\ pc[p] = "running"
  /\ input[p].fails = 0
  /\ pc' = [pc EXCEPT ![p] = "writing"]
  /\ alone' = [q \in Processes |-> IF q = p THEN others = {}
                               ELSE alone[q] /\ q \notin others]
  /\ UNCHANGED <<command, disk, input, next, opened, code, runs>>

Writing(p) == pc[p] = "writing" /\ next[p] <= Len(Files)

(* std::fs::write opens and truncates, then writes. *)
OpenFile(p) ==
  /\ Writing(p) /\ ~opened[p]
  /\ disk' = [disk EXCEPT ![next[p]] = Torn]
  /\ opened' = [opened EXCEPT ![p] = TRUE]
  /\ UNCHANGED <<command, pc, input, next, code, alone, runs>>

FillFile(p) ==
  /\ Writing(p) /\ opened[p]
  /\ disk' = [disk EXCEPT ![next[p]] = Content(Files[next[p]], input[p])]
  /\ opened' = [opened EXCEPT ![p] = FALSE]
  /\ next' = [next EXCEPT ![p] = @ + 1]
  /\ UNCHANGED <<command, pc, input, code, alone, runs>>

(* Mutant of WriteFails: the error of the last file is not looked at. *)
WriteFailsButLast(p) ==
  /\ Writing(p)
  /\ opened' = [opened EXCEPT ![p] = FALSE]
  /\ IF IgnoresWriteErrors \/ next[p] = Len(Files)
     THEN next' = [next EXCEPT ![p] = @ + 1] /\ UNCHANGED <<pc, code>>
     ELSE Exit(p, 1) /\ UNCHANGED next
  /\ UNCHANGED <<command, disk, input, alone, runs>>

(* The open fails, or the write after it: kobold-recon stops with exit     *)
(* code 1, kobold-pilot goes on to the next file.                          *)
WriteFails(p) ==
  /\ Writing(p)
  /\ opened' = [opened EXCEPT ![p] = FALSE]
  /\ IF IgnoresWriteErrors
     THEN next' = [next EXCEPT ![p] = @ + 1] /\ UNCHANGED <<pc, code>>
     ELSE Exit(p, 1) /\ UNCHANGED next
  /\ UNCHANGED <<command, disk, input, alone, runs>>

Finish(p) ==
  /\ pc[p] = "writing"
  /\ next[p] > Len(Files)
  /\ Exit(p, IF input[p].leaks \cap Commands[command].checked # {} THEN 4 ELSE 0)
  /\ UNCHANGED <<command, disk, input, next, opened, alone, runs>>

(* The process is killed, or the machine goes down. *)
Die(p) ==
  /\ pc[p] \in {"running", "writing"}
  /\ pc' = [pc EXCEPT ![p] = "dead"]
  /\ UNCHANGED <<command, disk, input, next, opened, code, alone, runs>>

Step(p) ==
  \/ \E in \in Inputs : Start(p, in)
  \/ Refuse(p)
  \/ NoDirectory(p)
  \/ BeginWriting(p)
  \/ OpenFile(p)
  \/ FillFile(p)
  \/ WriteFails(p)
  \/ Finish(p)
  \/ Die(p)

Next == \E p \in Processes : Step(p)

Spec == Init /\ [][Next]_vars
-----------------------------------------------------------------------------
(* What a reader of the directory can check: the file with the hashes is   *)
(* whole and every file it has the hash of matches.                        *)
Verifies ==
  /\ disk[Place(Root)] \notin {Absent, Torn}
  /\ \A b \in Bound :
       /\ disk[Place(b)] \notin {Absent, Torn}
       /\ disk[Place(b)].body = disk[Place(Root)].pins[b]

(* Whatever died, failed or ran at the same time: a directory that         *)
(* verifies holds, in every file with a hash, the evidence of the input    *)
(* that the root names.                                                    *)
VerifiedIsOneRun ==
  Verifies => \A b \in Bound : disk[Place(b)] = Content(b, disk[Place(Root)].of)

(* A run of kobold-recon that exits with 0, and had the directory to       *)
(* itself, leaves every file there, whole and its own. (kobold-pilot does  *)
(* not look at the errors of its writes.)                                  *)
ExitZeroPublishes ==
  [][\A p \in Processes :
       ~IgnoresWriteErrors
         /\ pc[p] = "writing" /\ pc'[p] = "exited" /\ code'[p] = 0 /\ alone[p]
         => \A k \in DOMAIN Files : disk[k] = Content(Files[k], input[p])]_vars
================================================================================
