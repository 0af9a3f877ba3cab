------------------------------- MODULE Redaction -------------------------------
(***************************************************************************)
(* The two outputs a redaction policy governs: the evidence of             *)
(* redact_record (src/src/privacy.rs) and the map tooling_export           *)
(* (src/src/tooling.rs) writes for other programs, both made of the decoded*)
(* fields of one record. The export may be made without a policy.          *)
(*                                                                         *)
(* A field is [name, category, value, raw]. A digest tells its input       *)
(* apart and is written <<"sha", input>>.                                  *)
(***************************************************************************)
EXTENDS Integers, Sequences, SequencesExt, FiniteSetsExt

CONSTANTS Calls, NoPolicy, Hidden, Null

(* The record is redacted under a policy; its export may be without one.   *)
CallsTyped ==
  \A c \in Calls :
    /\ c.fields \in Seq(ToSet(c.fields))
    /\ c.policy # NoPolicy /\ c.policy.rules \in Seq(ToSet(c.policy.rules))

VARIABLES
  call,      \* [parses, fields, policy, exportPolicy]
  pc,        \* "start", "redact", "export", "done" or "error"
  at,        \* fields seen by the pass that runs
  evidence,  \* the fields of the redacted record
  export,    \* the fields of the tooling map
  findings   \* names withheld for want of a rule

vars == <<call, pc, at, evidence, export, findings>>

Actions == {"allow", "keep_hash", "hide_raw", "tokenize"}

Sha(x) == <<"sha", x>>

Rules(policy, name) == {k \in DOMAIN policy.rules : policy.rules[k].field = name}

(* Of several rules for a name the first one counts. *)
Rule(policy, name) == policy.rules[Min(Rules(policy, name))].action

Unlisted(policy, name) == Rules(policy, name) = {}

Init ==
  /\ call \in Calls
  /\ pc = "start"
  /\ at = 0
  /\ evidence = <<>> /\ export = <<>> /\ findings = <<>>

Fail ==
  /\ pc = "start" /\ ~call.parses
  /\ pc' = "error"
  /\ UNCHANGED <<call, at, evidence, export, findings>>

Begin ==
  /\ pc = "start" /\ call.parses
  /\ pc' = "redact"
  /\ UNCHANGED <<call, at, evidence, export, findings>>

Field == call.fields[at + 1]
Reading(pass) == pc = pass /\ at < Len(call.fields)

(* Groups are in neither output. *)
SkipGroup ==
  /\ Reading("redact") \/ Reading("export")
  /\ Field.category = "group"
  /\ at' = at + 1
  /\ UNCHANGED <<call, pc, evidence, export, findings>>
-----------------------------------------------------------------------------
ActionFor(policy, name) ==
  IF ~Unlisted(policy, name) THEN Rule(policy, name)
  ELSE IF policy.default = "deny" THEN "keep_hash" ELSE "allow"

Token(scope, value) == <<"token", scope, value>>

(* What is written of a field under an action: the hashes always, the value *)
(* when it is allowed, the bytes unless they are hidden or replaced.        *)
Redacted(f, action, scope) ==
  [name     |-> f.name,
   redacted |-> action # "allow",
   value    |-> CASE action = "allow" -> f.value
                  [] action = "tokenize" -> Token(scope, f.value)
                  [] OTHER -> Hidden,
   raw      |-> IF action \in {"allow", "keep_hash"} THEN f.raw ELSE Hidden,
   valueSha |-> Sha(f.value), rawSha |-> Sha(f.raw)]

RedactField ==
  /\ Reading("redact")
  /\ Field.category # "group"
  /\ evidence' = Append(evidence,
       Redacted(Field, ActionFor(call.policy, Field.name), call.policy.scope))
  /\ findings' = IF Unlisted(call.policy, Field.name) /\ call.policy.default = "deny"
                 THEN Append(findings, Field.name) ELSE findings
  /\ at' = at + 1
  /\ UNCHANGED <<call, pc, export>>

BeginExport ==
  /\ pc = "redact" /\ at = Len(call.fields)
  /\ pc' = "export"
  /\ at' = 0
  /\ UNCHANGED <<call, evidence, export, findings>>
-----------------------------------------------------------------------------
(* Mutant of Status: a field that no rule lists is exported in clear.       *)
StatusUnlistedShown(policy, name) ==
  IF policy = NoPolicy THEN [status |-> "not_redacted", redacted |-> FALSE]
  ELSE IF ~Unlisted(policy, name)
       THEN [status |-> Rule(policy, name), redacted |-> Rule(policy, name) # "allow"]
  ELSE [status |-> policy.default, redacted |-> FALSE]

(* The export decides for itself what a policy hides.                       *)
Status(policy, name) ==
  IF policy = NoPolicy THEN [status |-> "not_redacted", redacted |-> FALSE]
  ELSE IF ~Unlisted(policy, name)
       THEN [status |-> Rule(policy, name), redacted |-> Rule(policy, name) # "allow"]
  ELSE [status |-> policy.default, redacted |-> policy.default = "deny"]

(* The bytes themselves are never exported. *)
Exported(f, s) ==
  [name     |-> f.name, status |-> s.status, redacted |-> s.redacted,
   value    |-> IF s.redacted THEN Null ELSE f.value,
   valueSha |-> IF s.redacted THEN Sha(f.value) ELSE Null,
   rawSha   |-> Sha(f.raw)]

ExportField ==
  /\ Reading("export")
  /\ Field.category # "group"
  /\ export' = Append(export, Exported(Field, Status(call.exportPolicy, Field.name)))
  /\ at' = at + 1
  /\ UNCHANGED <<call, pc, evidence, findings>>

Return ==
  /\ pc = "export" /\ at = Len(call.fields)
  /\ pc' = "done"
  /\ UNCHANGED <<call, at, evidence, export, findings>>

Terminated == pc \in {"done", "error"} /\ UNCHANGED vars

Next ==
  \/ Fail \/ Begin \/ SkipGroup
  \/ RedactField \/ BeginExport
  \/ ExportField \/ Return
  \/ Terminated

Spec == Init /\ [][Next]_vars
-----------------------------------------------------------------------------
TypeOK ==
  /\ pc \in {"start", "redact", "export", "done", "error"}
  /\ at \in 0..Len(call.fields)
  /\ Len(export) <= Len(evidence)
  /\ Len(findings) <= Len(evidence)

(* Under one policy the two outputs, which decide separately, are of the    *)
(* same fields and hide the same ones: a value is in clear in both or in    *)
(* neither, and only where a rule, or a default that lets unlisted fields   *)
(* pass, allows it. A field that is hidden still has both its hashes in     *)
(* both outputs, so each can be checked against the other.                  *)
OutputsHideTheSame ==
  pc = "done" /\ call.exportPolicy = call.policy =>
    /\ Len(evidence) = Len(export)
    /\ \A k \in DOMAIN export :
         LET f == evidence[k] IN
         /\ export[k].name = f.name
         /\ export[k].redacted = f.redacted
         /\ ~f.redacted => export[k].value = f.value
         /\ f.redacted =>
              /\ f.value \in {Hidden, Token(call.policy.scope, f.valueSha[2])}
              /\ export[k].value = Null
              /\ export[k].valueSha = f.valueSha
         /\ export[k].rawSha = f.rawSha
         /\ f.redacted <=>
              LET named == {r \in DOMAIN call.policy.rules : call.policy.rules[r].field = f.name}
              IN  \/ named = {} /\ call.policy.default = "deny"
                  \/ \E r \in named : /\ \A q \in named : r <= q
                                      /\ call.policy.rules[r].action # "allow"
================================================================================
