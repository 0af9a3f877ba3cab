----------------------------- MODULE MCEvidenceDir -----------------------------
(* kobold-recon, started by two processes: three files, an input that is    *)
(* refused, two that differ in what they decode to and two that differ in   *)
(* the fixture's name only.                                                 *)
(* kobold-pilot, started again by one: five files; the pilot id is what    *)
(* can carry the text that is searched for. What it writes is what         *)
(* PilotPacket computes.                                                    *)
EXTENDS PilotDir

MCInput(id, decodes, fails, leaks) ==
  [id |-> id, decodes |-> decodes, fails |-> fails, leaks |-> leaks]

MCReconFiles == <<"expected.jsonl", "audit.json", "unsupported.json">>
MCReconBound == {"expected.jsonl"}
MCReconInputs ==
  {MCInput("a", "x", 0, {}), MCInput("b", "x", 0, {}), MCInput("c", "y", 0, {}),
   MCInput("bad", "x", 1, {})}
MCReconOutput ==
  [f \in {MCReconFiles[k] : k \in DOMAIN MCReconFiles} |->
     [in \in MCReconInputs |-> in.decodes]]

(* Of the files of the packet: three of the five bound by a hash, the one   *)
(* with the hashes, and one of the two that nothing binds.                  *)
MCPilotFiles ==
  <<"extract-casefile.json", "redaction.jsonl", "bank-reconcile-report.json",
    "pilot-packet.json", "pilot-packet.md">>
MCPilotBound == {"extract-casefile.json", "redaction.jsonl", "bank-reconcile-report.json"}
MCPilotChecked == {"redaction.jsonl", "bank-reconcile-report.json", "pilot-packet.json"}
MCArguments(unit, date, notes, fails, leaks) ==
  [unit |-> unit, date |-> date, system |-> "s", notes |-> notes, fails |-> fails, leaks |-> leaks]

(* The second run has another day, or other notes and the leaking unit.     *)
MCPilotInputs ==
  {MCArguments("u", "day 1", "n", 0, {}), MCArguments("u", "day 2", "n", 0, {}),
   MCArguments("leaky", "day 1", "m", 0, {"bank-reconcile-report.json", "pilot-packet.json"}),
   MCArguments("u", "day 1", "n", 2, {})}
MCPilotOutput ==
  [f \in {MCPilotFiles[k] : k \in DOMAIN MCPilotFiles} |->
     [in \in MCPilotInputs |-> FileContent(in)[f]]]

MCCommands ==
  [recon |-> [inputs |-> MCReconInputs, files |-> MCReconFiles, root |-> "audit.json",
              bound |-> MCReconBound, output |-> MCReconOutput, checked |-> {},
              ignoresWriteErrors |-> FALSE, noDirectoryCode |-> 1],
   pilot |-> [inputs |-> MCPilotInputs, files |-> MCPilotFiles, root |-> "pilot-packet.json",
              bound |-> MCPilotBound, output |-> MCPilotOutput, checked |-> MCPilotChecked,
              ignoresWriteErrors |-> TRUE, noDirectoryCode |-> 5]]

MCProcs == [recon |-> {"p1", "p2"}, pilot |-> {"p1"}]
MCMaxRuns == [recon |-> 3, pilot |-> 2]
================================================================================
