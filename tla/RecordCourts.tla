------------------------------ MODULE RecordCourts ------------------------------
(***************************************************************************)
(* The courts that judge one declared artifact in one call: record-type    *)
(* routing, batch control totals, the structural diff, transforms of a     *)
(* record and the custody of a posting unit. A program calls one of them   *)
(* and waits for its answer; they share no state, so a behaviour is a call *)
(* of one of them.                                                         *)
(***************************************************************************)
EXTENDS Integers, Sequences, SequencesExt

CONSTANTS
  Idle,            \* what the variables of the other courts hold
  NoNumber, NoType, NoOutput, NoHash, NoAmount, Malformed, NoField, Dirty,
  IntMax,          \* machine integers are -IntMax - 1 .. IntMax
  Garbage,         \* operands a literal that is no decimal may turn into
  PostingRecords,  \* the records posting units are made of
  BatchCalls, RouteCalls, DiffCalls, TransformCalls, PostingCalls  \* the calls of each court

VARIABLES
  court,                               \* the one that was called
  call, pc,                            \* of all
  idx,                                 \* of BatchControl and Posting
  amounts, observed, verdict,          \* of BatchControl
  entries, byType, routed, unmatched, output,  \* of VariantRoute
  at,                                  \* of Diff and Transform
  findings,                            \* of Diff, Transform and Posting
  matched,                             \* of Diff
  after, applied, delta,               \* of Transform
  chain, seqValues, txnValues, result  \* of Posting

batchVars == <<amounts, observed, verdict>>
routeVars == <<entries, byType, routed, unmatched, output>>
diffVars == <<matched>>
transformVars == <<after, applied, delta>>
postingVars == <<chain, seqValues, txnValues, result>>

-----------------------------------------------------------------------------
BC == INSTANCE BatchControl WITH Calls <- BatchCalls
VR == INSTANCE VariantRoute WITH Calls <- RouteCalls
DF == INSTANCE Diff WITH Calls <- DiffCalls
TR == INSTANCE Transform WITH Calls <- TransformCalls
PO == INSTANCE Posting WITH Calls <- PostingCalls, Records <- PostingRecords

ASSUME BatchCallsTyped == BC!CallsTyped
ASSUME RouteCallsTyped == VR!CallsTyped
ASSUME DiffCallsTyped == DF!CallsTyped
ASSUME TransformCallsTyped == TR!CallsTyped
ASSUME PostingCallsTyped == PO!CallsTyped

NoBatch == amounts = Idle /\ observed = Idle /\ verdict = Idle
NoRouting ==
  entries = Idle /\ byType = Idle /\ routed = Idle /\ unmatched = Idle /\ output = Idle
NoDiff == matched = Idle
NoTransform == after = Idle /\ applied = Idle /\ delta = Idle
NoPosting == chain = Idle /\ seqValues = Idle /\ txnValues = Idle /\ result = Idle

Init ==
  \/ /\ court = "batch_control" /\ BC!Init
     /\ at = Idle /\ findings = Idle /\ NoRouting /\ NoDiff /\ NoTransform /\ NoPosting
  \/ /\ court = "variant_route" /\ VR!Init
     /\ idx = Idle /\ at = Idle /\ findings = Idle
     /\ NoBatch /\ NoDiff /\ NoTransform /\ NoPosting
  \/ /\ court = "diff_artifacts" /\ DF!Init
     /\ pc = Idle /\ idx = Idle /\ NoBatch /\ NoRouting /\ NoTransform /\ NoPosting
  \/ /\ court = "reconcile_transform" /\ TR!Init
     /\ idx = Idle /\ NoBatch /\ NoRouting /\ NoDiff /\ NoPosting
  \/ /\ court = "posting_manifest" /\ PO!Init
     /\ at = Idle /\ NoBatch /\ NoRouting /\ NoDiff /\ NoTransform

Next ==
  \/ /\ court = "batch_control" /\ BC!Next
     /\ UNCHANGED <<court, at, findings, routeVars, diffVars, transformVars, postingVars>>
  \/ /\ court = "variant_route" /\ VR!Next
     /\ UNCHANGED <<court, idx, at, findings, batchVars, diffVars, transformVars, postingVars>>
  \/ /\ court = "diff_artifacts" /\ DF!Next
     /\ UNCHANGED <<court, pc, idx, batchVars, routeVars, transformVars, postingVars>>
  \/ /\ court = "reconcile_transform" /\ TR!Next
     /\ UNCHANGED <<court, idx, batchVars, routeVars, diffVars, postingVars>>
  \/ /\ court = "posting_manifest" /\ PO!Next
     /\ UNCHANGED <<court, at, batchVars, routeVars, diffVars, transformVars>>

vars ==
  <<court, call, pc, idx, at, findings,
    batchVars, routeVars, diffVars, transformVars, postingVars>>

Spec == Init /\ [][Next]_vars
-----------------------------------------------------------------------------
(* The type invariant of the court that was called. *)
TypeOK ==
  /\ court = "batch_control" => BC!TypeOK
  /\ court = "variant_route" => VR!TypeOK
  /\ court = "diff_artifacts" => DF!TypeOK
  /\ court = "reconcile_transform" => TR!TypeOK
  /\ court = "posting_manifest" => PO!TypeOK

(* batch_control decides every batch whose numbers fit, in both builds, and *)
(* a debug build reports a matching total only of amounts that sum to it.   *)
MatchExact == court = "batch_control" => BC!MatchExact

(* variant_route guesses no record onto a layout and counts each once.     *)
NeverGuessed == court = "variant_route" => VR!NeverGuessed

(* diff_artifacts matches exactly when the compared dimensions are equal.  *)
VerdictExact == court = "diff_artifacts" => DF!VerdictExact

(* reconcile_transform changes the storage of applied targets only.        *)
OnlyAppliedTargetsChange == court = "reconcile_transform" => TR!OnlyAppliedTargetsChange

(* In reconcile_transform the amounts of applied transforms add up.        *)
TransformsCompose == court = "reconcile_transform" => TR!TransformsCompose

(* posting_manifest lists exactly the numbers and ids that repeat.         *)
DuplicatesExact == court = "posting_manifest" => PO!DuplicatesExact

(* A posting unit it has nothing to say of is complete.                    *)
CleanContiguousIsComplete == court = "posting_manifest" => PO!CleanContiguousIsComplete

(* Its last chain hash fixes the records of the unit and their order.      *)
ChainBindsOrder == court = "posting_manifest" => PO!ChainBindsOrder
================================================================================
