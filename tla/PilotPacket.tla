------------------------------ MODULE PilotPacket ------------------------------
(***************************************************************************)
(* How the evidence of a pilot run is put together (src/src/extract.rs,    *)
(* src/src/bank_reconcile.rs, src/src/pilot.rs, src/src/bin/pilot.rs):     *)
(* the casefile of the extract, the operator's view over what the courts   *)
(* returned, the packet over the artifacts, and the calls kobold-pilot     *)
(* makes. Each binds others by hashes of what it is given.                 *)
(*                                                                         *)
(* A document is a record of what it says; a digest tells its input apart. *)
(***************************************************************************)
EXTENDS Naturals, Sequences, SequencesExt

CONSTANT NoDb2

Sha(document) == [sha |-> document]

ExtractManifest(copybook, data, profile) ==
  LET manifest == [file |-> Sha(data), copybook |-> Sha(copybook), profile |-> profile]
  IN  [manifest |-> manifest, casefile |-> [provenance |-> manifest, copybook |-> Sha(copybook)]]
-----------------------------------------------------------------------------
Source(court, casefile) == [court |-> court, sha |-> Sha(casefile)]

(* The casefiles the view is bound to: BANK.1 and BANK.2 are the same one,  *)
(* and what the caller adds is bound as it is given.                        *)
SourceEvidence(i) ==
  <<Source("BANK.1", i.banking.casefile), Source("BANK.2", i.banking.casefile),
    Source("POSTING.1", i.custody.casefile)>>
  \o (IF i.db2 = NoDb2 THEN <<>> ELSE <<Source("DB2HOST.1", i.db2.casefile)>>)
  \o [k \in DOMAIN i.extra |-> Source(i.extra[k].court, i.extra[k].casefile)]

Flagged(db2, state) ==
  IF db2 = NoDb2 THEN 0 ELSE Len(SelectSeq(db2.states, LAMBDA s : s.state = state))

Levelled(findings, level) ==
  [k \in DOMAIN findings |-> [finding |-> findings[k], level |-> level]]

(* The view takes the totals of one court and the custody of another, and   *)
(* does not ask whether they are of one file; the counts of dirty and of    *)
(* redacted fields are the caller's.                                        *)
BankReconcileReport(i) ==
  LET db2Findings == IF i.db2 = NoDb2 THEN <<>> ELSE i.db2.findings IN
  [json  |-> [sources  |-> SourceEvidence(i), batch |-> i.batch,
              file     |-> i.custody.file,
              controls |-> i.banking.summary,
              verdict  |-> IF i.banking.balanced THEN "matched" ELSE "mismatch",
              custody  |-> i.custody.sequences,
              nulls    |-> Flagged(i.db2, "null"), truncated |-> Flagged(i.db2, "truncated"),
              dirty    |-> Len(db2Findings), privacy |-> i.privacy],
   sarif |-> Levelled(i.banking.findings, "error") \o Levelled(db2Findings, "warning")
               \o Levelled(i.custody.findings, "warning")]
-----------------------------------------------------------------------------
Required == {"extract_profile", "redaction_policy", "bank_reconcile"}

(* The packet binds each artifact it is given; one that is required and     *)
(* absent makes it incomplete.                                              *)
Packet(i) ==
  LET missing == Required \ {i.artifacts[k].name : k \in DOMAIN i.artifacts} IN
  [unit |-> i.unit, date |-> i.date, system |-> i.system,
   copybook |-> Sha(i.copybook), notes |-> Sha(i.notes),
   sources |-> [k \in DOMAIN i.artifacts |->
                  [name |-> i.artifacts[k].name, sha |-> Sha(i.artifacts[k].content)]],
   complete |-> missing = {}]
-----------------------------------------------------------------------------
(* What kobold-pilot runs on is in its code: an extract of three details    *)
(* and a trailer that balances, and a buffer of its own of three sequence   *)
(* numbers for the custody.                                                 *)
DetailCopybook == "detail.cpy"
DeclaredExtract == "two debits, a credit and a trailer"
SequenceBuffer == "three sequence numbers"

Batch(args) == [unit |-> args.unit, date |-> args.date, system |-> args.system]

Extract(args) == ExtractManifest(DetailCopybook, DeclaredExtract, [date |-> args.date])

RedactionLines == [redacted |-> "the details of the declared extract"]

Custody(args) ==
  LET manifest == [batch |-> Batch(args), file |-> Sha(SequenceBuffer)]
  IN  [casefile |-> manifest, file |-> manifest.file, findings |-> <<>>,
       sequences |-> [least |-> 1, greatest |-> 3]]

BankingOutcome ==
  [casefile |-> [file |-> Sha(DeclaredExtract)], balanced |-> TRUE, findings |-> <<>>,
   summary |-> [count |-> 3, debit |-> 15000, credit |-> 3000]]

(* Mutant of ExtraSources: the manifest is bound instead of the casefile.   *)
ExtraSourcesManifest(args) ==
  <<[court |-> "EXTRACT.PROFILE.1", casefile |-> Extract(args).manifest],
    [court |-> "PRIVACY.REDACTION.1", casefile |-> RedactionLines]>>

ExtraSources(args) ==
  <<[court |-> "EXTRACT.PROFILE.1", casefile |-> Extract(args).casefile],
    [court |-> "PRIVACY.REDACTION.1", casefile |-> RedactionLines]>>

Report(args) ==
  BankReconcileReport(
    [batch |-> Batch(args), custody |-> Custody(args), banking |-> BankingOutcome, db2 |-> NoDb2,
     privacy |-> [redacted |-> 3, tokenized |-> 3], extra |-> ExtraSources(args)])

(* The two sides of the diff are copies of one constant.                    *)
DiffReport == [verdict |-> "match", oracle |-> "not"]

ToolingMap == [of |-> "the first record, redacted"]

Artifact(name, content) == [name |-> name, content |-> content]

Artifacts(args) ==
  <<Artifact("extract_profile", Extract(args).casefile),
    Artifact("redaction_policy", RedactionLines),
    Artifact("bank_reconcile", Report(args).json),
    Artifact("diff", DiffReport),
    Artifact("tooling_export", ToolingMap)>>

PilotPacket(args) ==
  Packet([unit |-> args.unit, date |-> args.date, system |-> args.system,
          copybook |-> DetailCopybook, notes |-> args.notes, artifacts |-> Artifacts(args)])

(* What each file is computed to be, before any is written. The Markdown    *)
(* files say what the JSON ones do.                                         *)
FileContent(args) ==
  [f \in {"extract-casefile.json", "redaction.jsonl", "bank-reconcile-report.json",
          "bank-reconcile-report.md", "diff-report.json", "tooling-export.json",
          "pilot-packet.json", "pilot-packet.md"} |->
     CASE f = "extract-casefile.json" -> Extract(args).casefile
       [] f = "redaction.jsonl" -> RedactionLines
       [] f \in {"bank-reconcile-report.json", "bank-reconcile-report.md"} -> Report(args).json
       [] f = "diff-report.json" -> DiffReport
       [] f = "tooling-export.json" -> ToolingMap
       [] OTHER -> PilotPacket(args)]
================================================================================
