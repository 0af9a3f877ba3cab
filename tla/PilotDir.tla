-------------------------------- MODULE PilotDir --------------------------------
(***************************************************************************)
(* The output directory of kobold-pilot: what the command of EvidenceDir   *)
(* with that name writes is what PilotPacket computes from its arguments.  *)
(***************************************************************************)
EXTENDS EvidenceDir, PilotPacket

(* The packet is the file with the hashes; the three documents it cannot do *)
(* without are in the directory, and every file holds what was computed.    *)
ASSUME PilotAssumption ==
  "pilot" \in DOMAIN Commands =>
    LET pilot == Commands["pilot"]
        files == {pilot.files[k] : k \in DOMAIN pilot.files}
    IN  /\ pilot.root = "pilot-packet.json"
        /\ {"extract-casefile.json", "redaction.jsonl", "bank-reconcile-report.json"} \subseteq files
        /\ \A f \in files, in \in pilot.inputs : pilot.output[f][in] = FileContent(in)[f]
-----------------------------------------------------------------------------
ArtifactFile ==
  [extract_profile |-> "extract-casefile.json", redaction_policy |-> "redaction.jsonl",
   bank_reconcile |-> "bank-reconcile-report.json"]

Whole(f) == disk[Place(f)] \notin {Absent, Torn}
Written(f) == disk[Place(f)].body

Bears(sources, court, document) ==
  \E k \in DOMAIN sources : sources[k].court = court /\ sources[k].sha = Sha(document)

(* A packet whose own hashes match the files of a directory is of one       *)
(* workflow all the way down, whatever earlier runs, failed writes and      *)
(* deaths left there: it is complete, the operator's view in that directory *)
(* is bound to the extract casefile and the redaction that are there too,   *)
(* and unit and day are the same in all of them.                            *)
PacketIsOneWorkflow ==
  command = "pilot" /\ Whole("pilot-packet.json") =>
    LET packet == Written("pilot-packet.json")
        bound == {k \in DOMAIN packet.sources : packet.sources[k].name \in DOMAIN ArtifactFile}
        extract == Written("extract-casefile.json")
        report == Written("bank-reconcile-report.json")
    IN  (\A k \in bound :
           LET f == ArtifactFile[packet.sources[k].name]
           IN  Whole(f) /\ Sha(Written(f)) = packet.sources[k].sha)
        => /\ packet.complete
           /\ Bears(report.sources, "EXTRACT.PROFILE.1", extract)
           /\ Bears(report.sources, "PRIVACY.REDACTION.1", Written("redaction.jsonl"))
           /\ extract.provenance.profile.date = packet.date
           /\ report.batch = [unit |-> packet.unit, date |-> packet.date, system |-> packet.system]
================================================================================
