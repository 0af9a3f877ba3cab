------------------------------ MODULE FieldCourts ------------------------------
(***************************************************************************)
(* What is said of the fields of records: the operator's totals and        *)
(* decoding of a file, the Db2 state of declared pairs, the value profiles *)
(* and the two outputs under a redaction policy. A program calls one of    *)
(* them and waits for its answer; they share no state, so a behaviour is   *)
(* a call of one of them (the value profiles being three in a row).        *)
(***************************************************************************)
EXTENDS Integers, Sequences, SequencesExt

CONSTANTS
  Idle,            \* what the variables of the other courts hold
  NoBytes, NoOutput, NotNumber, NoName, NoPolicy, Hidden, Null,
  SumLimit,        \* sums are -SumLimit - 1 .. SumLimit
  Junk,            \* bytes an edited picture or a condition rejects
  FileCalls, PairCalls, ProfileCalls, RedactCalls   \* the calls of each court

VARIABLES
  court,                                        \* the one that was called
  call, pc,                                     \* of all
  idx, sums, condTrue, invalid, unsupported, objects, output,  \* of Operator
  at, findings,                                 \* of the other three
  states,                                       \* of Db2Host
  hits, statuses, entries,                      \* of ValueProfiles
  evidence, export                              \* of Redaction

totalVars == <<idx, sums, condTrue, invalid, unsupported, objects, output>>
pairVars == <<states>>
profileVars == <<hits, statuses, entries>>
redactVars == <<evidence, export>>

-----------------------------------------------------------------------------
OP == INSTANCE Operator WITH Calls <- FileCalls
DB == INSTANCE Db2Host WITH Calls <- PairCalls
VP == INSTANCE ValueProfiles WITH Calls <- ProfileCalls
RD == INSTANCE Redaction WITH Calls <- RedactCalls

ASSUME FileCallsTyped == OP!CallsTyped
ASSUME PairCallsTyped == DB!CallsTyped
ASSUME ProfileCallsTyped == VP!CallsTyped
ASSUME RedactionCallsTyped == RD!CallsTyped

NoTotals ==
  /\ idx = Idle /\ sums = Idle /\ condTrue = Idle /\ invalid = Idle
  /\ unsupported = Idle /\ objects = Idle /\ output = Idle
NoPairs == states = Idle
NoProfiles == hits = Idle /\ statuses = Idle /\ entries = Idle
NoRedaction == evidence = Idle /\ export = Idle

Init ==
  \/ /\ court = "operator" /\ OP!Init
     /\ at = Idle /\ findings = Idle /\ NoPairs /\ NoProfiles /\ NoRedaction
  \/ court = "db2host_evaluate" /\ DB!Init /\ NoTotals /\ NoProfiles /\ NoRedaction
  \/ court = "value_profiles" /\ VP!Init /\ NoTotals /\ NoPairs /\ NoRedaction
  \/ court = "redaction" /\ RD!Init /\ NoTotals /\ NoPairs /\ NoProfiles

Next ==
  \/ /\ court = "operator" /\ OP!Next
     /\ UNCHANGED <<court, at, findings, pairVars, profileVars, redactVars>>
  \/ /\ court = "db2host_evaluate" /\ DB!Next
     /\ UNCHANGED <<court, totalVars, profileVars, redactVars>>
  \/ /\ court = "value_profiles" /\ VP!Next
     /\ UNCHANGED <<court, totalVars, pairVars, redactVars>>
  \/ /\ court = "redaction" /\ RD!Next
     /\ UNCHANGED <<court, totalVars, pairVars, profileVars>>

vars == <<court, call, pc, totalVars, at, findings, pairVars, profileVars, redactVars>>

Spec == Init /\ [][Next]_vars
-----------------------------------------------------------------------------
(* The type invariant of the court that was called. *)
TypeOK ==
  /\ court = "operator" => OP!TypeOK
  /\ court = "db2host_evaluate" => DB!TypeOK
  /\ court = "value_profiles" => VP!TypeOK
  /\ court = "redaction" => RD!TypeOK

(* control_totals sums valid values exactly, up to the limit of the integer.*)
SumsExact == court = "operator" => OP!SumsExact

(* control_totals accounts for every field of every record, and calls       *)
(* invalid what decode_records_json and explain_field call invalid.         *)
EveryFieldAccounted == court = "operator" => OP!EveryFieldAccounted

(* db2host_evaluate never takes a pair for present, null or truncated that  *)
(* its indicator does not say to be.                                        *)
NothingSilentlyPresent == court = "db2host_evaluate" => DB!NothingSilentlyPresent

(* date_validate judges every declared date once, by its markers or by its  *)
(* bytes.                                                                   *)
DatesJudgedOnce == court = "value_profiles" => VP!DatesJudgedOnce

(* redact_record and tooling_export hide the same fields under one policy.  *)
OutputsHideTheSame == court = "redaction" => RD!OutputsHideTheSame

(* Valid digits of a cp500 file are documented as decoded, not dirty.       *)
EbcdicDigitsAreValid == court = "operator" => OP!EbcdicDigitsAreValid
================================================================================
