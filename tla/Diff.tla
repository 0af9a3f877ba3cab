--------------------------------- MODULE Diff ---------------------------------
(***************************************************************************)
(* diff_artifacts (src/src/diff.rs): what a run produced is compared with  *)
(* a declared artifact, in the dimensions the target allows, one dimension *)
(* per step. Fields and control totals are lists of a name and a value,    *)
(* looked up by name through a map in which a later entry replaces an      *)
(* earlier one.                                                            *)
(***************************************************************************)
EXTENDS Integers, Sequences, SequencesExt, FiniteSetsExt

CONSTANTS Calls, NoHash

(* Fields and totals are lists of pairs. *)
CallsTyped ==
  \A c \in Calls : \A side \in {c.actual, c.expected} :
    /\ side.findingIds \in Seq(ToSet(side.findingIds))
    /\ \A list \in {side.fields, side.totals} :
         /\ list \in Seq(ToSet(list))
         /\ \A k \in DOMAIN list : list[k] = <<list[k][1], list[k][2]>>

Dimensions == <<"field_values", "finding_ids", "control_totals", "audit_hashes">>

VARIABLES
  call,      \* [actual, expected, oracle, allowed], never written
  at,        \* the dimension to compare next
  findings,  \* {<<rule, name>>}
  matched    \* the verdict, FALSE until it is given

vars == <<call, at, findings, matched>>

Init ==
  /\ call \in Calls
  /\ at = 1
  /\ findings = {}
  /\ matched = FALSE

(* The value of a name, as a set that is empty when the name is absent. *)
Lookup(list, name) ==
  LET places == {k \in DOMAIN list : list[k][1] = name}
  IN  IF places = {} THEN {} ELSE {list[Max(places)][2]}

Entries(list) == {<<list[k][1], list[k][2]>> : k \in DOMAIN list}
Names(list) == {e[1] : e \in Entries(list)}

(* Mutant of ExtraNames: what only the actual side has is not looked at. *)
ExtraNamesNone(actual, expected) == {}

ExtraNames(actual, expected) == Names(actual) \ Names(expected)

(* Every expected entry is held against the one value the map has. *)
FieldFindings ==
  LET actual == call.actual.fields
      expected == call.expected.fields
      Missing == {e \in Entries(expected) : Lookup(actual, e[1]) = {}}
      Wrong == {e \in Entries(expected) \ Missing : Lookup(actual, e[1]) # {e[2]}}
  IN  {<<"missing-field", e[1]>> : e \in Missing}
      \cup {<<"field-mismatch", e[1]>> : e \in Wrong}
      \cup {<<"extra-field", n>> : n \in ExtraNames(actual, expected)}

(* Finding ids are compared as sets. *)
FindingFindings ==
  IF ToSet(call.actual.findingIds) = ToSet(call.expected.findingIds) THEN {}
  ELSE {<<"finding-set-mismatch", "finding_ids">>}

TotalFindings ==
  LET actual == call.actual.totals
      expected == call.expected.totals
      Wrong == {e \in Entries(expected) : Lookup(actual, e[1]) # {e[2]}}
  IN  {<<"control-total-mismatch", e[1]>> : e \in Wrong}
      \cup {<<"control-total-mismatch", n>> : n \in ExtraNames(actual, expected)}

HashFindings ==
  IF call.actual.hash = call.expected.hash THEN {}
  ELSE {<<"hash-mismatch", "audit_hashes">>}

FindingsOf(dimension) ==
  CASE dimension = "field_values" -> FieldFindings
    [] dimension = "finding_ids" -> FindingFindings
    [] dimension = "control_totals" -> TotalFindings
    [] dimension = "audit_hashes" -> HashFindings

Dimension == Dimensions[at]

Compare ==
  /\ at <= Len(Dimensions) /\ Dimension \in call.allowed
  /\ findings' = findings \cup FindingsOf(Dimension)
  /\ at' = at + 1
  /\ UNCHANGED <<call, matched>>

(* A dimension the target does not name is not compared. *)
Skip ==
  /\ at <= Len(Dimensions) /\ Dimension \notin call.allowed
  /\ at' = at + 1
  /\ UNCHANGED <<call, findings, matched>>

TargetNotOracle == <<"target-not-oracle", "target">>

(* A match with a target that is no admitted oracle carries a note that    *)
(* says so.                                                                *)
Conclude ==
  /\ at = Len(Dimensions) + 1
  /\ matched' = (findings = {})
  /\ findings' = IF findings = {} /\ call.oracle # "admitted"
                 THEN {TargetNotOracle} ELSE findings
  /\ at' = at + 1
  /\ UNCHANGED call

Concluded == at = Len(Dimensions) + 2
Terminated == Concluded /\ UNCHANGED vars

Next == Compare \/ Skip \/ Conclude \/ Terminated

Spec == Init /\ [][Next]_vars
-----------------------------------------------------------------------------
TypeOK ==
  /\ at \in 1..(Len(Dimensions) + 2)
  /\ matched \in BOOLEAN
  /\ matched => Concluded

(* Two lists say the same when each entry of one is an entry of the other, *)
(* as often as in the other: the reading a declared target invites.        *)
Occurrences(list, e) == Cardinality({k \in DOMAIN list : list[k] = e})
SameEntries(a, b) ==
  \A e \in Entries(a) \cup Entries(b) : Occurrences(a, e) = Occurrences(b, e)

Unique(list) == \A j, k \in DOMAIN list : list[j][1] = list[k][1] => j = k
NamesUnique ==
  \A side \in {call.actual, call.expected} : Unique(side.fields) /\ Unique(side.totals)

EqualUnderTarget ==
  /\ "field_values" \in call.allowed => SameEntries(call.actual.fields, call.expected.fields)
  /\ "control_totals" \in call.allowed => SameEntries(call.actual.totals, call.expected.totals)
  /\ "finding_ids" \in call.allowed =>
       \A f \in ToSet(call.actual.findingIds \o call.expected.findingIds) :
         Contains(call.actual.findingIds, f) <=> Contains(call.expected.findingIds, f)
  /\ "audit_hashes" \in call.allowed => call.actual.hash = call.expected.hash

(* Where a name appears once on each side the verdict is exact, in         *)
(* whatever order the entries are listed: a match is equality in every     *)
(* compared dimension, and any difference, an extra name too, denies it.   *)
VerdictExact == Concluded /\ NamesUnique => (matched <=> EqualUnderTarget)
================================================================================
