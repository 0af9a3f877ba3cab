----------------------------- MODULE ValueProfiles -----------------------------
(***************************************************************************)
(* The declared profiles of a record's values, in the order they are used: *)
(* sentinel_scan (src/src/sentinel.rs) finds the declared markers,         *)
(* date_validate (src/src/date_profile.rs) takes its hits and judges the   *)
(* declared dates, currency_validate (src/src/currency.rs) looks at the    *)
(* declared amounts. The caller passes the hits on, of whatever record     *)
(* they are; both manifests name the record they are about.                *)
(*                                                                         *)
(* A record is its decoded fields [name, raw, value, scale]; a byte of raw *)
(* is its two nibbles, raw is empty where the record is too short, scale   *)
(* is the number of characters after the last point of the decoded text.   *)
(***************************************************************************)
EXTENDS Integers, Sequences, SequencesExt, FiniteSetsExt

CONSTANTS Calls, NoName

(* The bytes of a field are pairs of nibbles. *)
CallsTyped ==
  \A c \in Calls :
    /\ c.markers \in Seq(ToSet(c.markers)) /\ c.dates \in Seq(ToSet(c.dates))
    /\ c.amounts \in Seq(ToSet(c.amounts))
    /\ c.record \in Seq(ToSet(c.record))
    /\ \A k \in DOMAIN c.record : c.record[k].raw \in Seq(Nat \X Nat)

VARIABLES
  call,      \* [parses, scanned, record, markers, dates, amounts]
  pc,        \* "start", "markers", "dates", "amounts", "done" or "error"
  at,        \* declarations of the profile seen
  hits,      \* the <<field, marker>> found in the scanned record
  statuses,  \* <<field, status>> of the dates
  entries,   \* what is written of the amounts
  findings   \* <<rule, field>>

vars == <<call, pc, at, hits, statuses, entries, findings>>

Named(record, name) == {k \in DOMAIN record : record[k].name = name}

(* All three keep the fields by name: the last one of a name. *)
Field(record, name) == record[Max(Named(record, name))]
-----------------------------------------------------------------------------
Init ==
  /\ call \in Calls
  /\ pc = "start"
  /\ at = 0
  /\ hits = {} /\ statuses = <<>> /\ entries = <<>> /\ findings = <<>>

Fail ==
  /\ pc = "start" /\ ~call.parses
  /\ pc' = "error"
  /\ UNCHANGED <<call, at, hits, statuses, entries, findings>>

Begin ==
  /\ pc = "start" /\ call.parses
  /\ pc' = "markers"
  /\ UNCHANGED <<call, at, hits, statuses, entries, findings>>

(* One profile after the other. *)
NextProfile(here, declared, there) ==
  /\ pc = here /\ at = Len(declared)
  /\ pc' = there
  /\ at' = 0
  /\ UNCHANGED <<call, hits, statuses, entries, findings>>

Scanned == NextProfile("markers", call.markers, "dates")
Validated == NextProfile("dates", call.dates, "amounts")
Return == NextProfile("amounts", call.amounts, "done")

Missing(here, declared, record, rule) ==
  /\ pc = here /\ at < Len(declared)
  /\ Named(record, declared[at + 1].field) = {}
  /\ findings' = Append(findings, <<rule, declared[at + 1].field>>)
  /\ at' = at + 1
  /\ UNCHANGED <<call, pc, hits, statuses, entries>>

MissingMarked == Missing("markers", call.markers, call.scanned, "no field")
MissingDate == Missing("dates", call.dates, call.record, "missing field")
MissingAmount == Missing("amounts", call.amounts, call.record, "missing amount")
-----------------------------------------------------------------------------
Matches(rule, field) == IF rule.on = "value" THEN field.value = rule.is ELSE field.raw = rule.is

ScanField ==
  LET declared == call.markers[at + 1]
      found == {r \in DOMAIN declared.rules :
                  Matches(declared.rules[r], Field(call.scanned, declared.field))}
  IN  /\ pc = "markers" /\ at < Len(call.markers)
      /\ Named(call.scanned, declared.field) # {}
      /\ hits' = hits \cup {<<declared.field, declared.rules[r].id>> : r \in found}
      /\ at' = at + 1
      /\ UNCHANGED <<call, pc, statuses, entries, findings>>
-----------------------------------------------------------------------------
Number(digits) ==
  LET n[k \in 0..Len(digits)] == IF k = 0 THEN 0 ELSE 10 * n[k - 1] + digits[k][2]
  IN  n[Len(digits)]

IsLeap(y) == (y % 4 = 0 /\ y % 100 # 0) \/ y % 400 = 0

DaysInMonth(y, m) ==
  CASE m \in {1, 3, 5, 7, 8, 10, 12} -> 31
    [] m \in {4, 6, 9, 11} -> 30
    [] m = 2 -> IF IsLeap(y) THEN 29 ELSE 28
    [] OTHER -> 0

Size(format) == IF format = "YYYYMMDD" THEN 8 ELSE 5

(* The raw bytes are read as ASCII digits, whatever the encoding.           *)
IsFormat(raw, format) ==
  Len(raw) = Size(format) /\ \A k \in DOMAIN raw : raw[k][1] = 3 /\ raw[k][2] <= 9

InCalendar(raw, format) ==
  IF format = "YYYYMMDD"
  THEN LET y == Number(SubSeq(raw, 1, 4))
           m == Number(SubSeq(raw, 5, 6))
           d == Number(SubSeq(raw, 7, 8))
       IN  m \in 1..12 /\ d \in 1..DaysInMonth(y, m)
  ELSE LET y == Number(SubSeq(raw, 1, 2))
       IN  Number(SubSeq(raw, 3, 5)) \in 1..(IF IsLeap(2000 + y) THEN 366 ELSE 365)

Validate(raw, format) ==
  IF ~IsFormat(raw, format) THEN "invalid_format"
  ELSE IF InCalendar(raw, format) THEN "valid" ELSE "invalid_calendar"

(* Mutant of Exempt: a field is exempt when any field has a marker.         *)
ExemptAny(field) == hits # {}

(* A field of that name had a marker in the record that was scanned.        *)
Exempt(field) == \E h \in hits : h[1] = field

(* The finding about an undeclared sentinel is added to an invalid calendar *)
(* date, not to a wrong format.                                             *)
DateFindings(declared, status) ==
  CASE status = "invalid_format" -> << <<"format", declared.field>> >>
    [] status = "invalid_calendar" ->
         << <<"calendar", declared.field>> >>
           \o (IF declared.requires THEN << <<"undeclared", declared.field>> >> ELSE <<>>)
    [] OTHER -> <<>>

ValidateDate ==
  LET declared == call.dates[at + 1]
      status == IF Exempt(declared.field) THEN "declared_sentinel"
                ELSE Validate(Field(call.record, declared.field).raw, declared.format)
  IN  /\ pc = "dates" /\ at < Len(call.dates)
      /\ Named(call.record, declared.field) # {}
      /\ statuses' = Append(statuses, <<declared.field, status>>)
      /\ findings' = findings \o DateFindings(declared, status)
      /\ at' = at + 1
      /\ UNCHANGED <<call, pc, hits, entries>>
-----------------------------------------------------------------------------
(* A field that is declared to be something else than an amount.            *)
RefuseAmount ==
  LET declared == call.amounts[at + 1] IN
  /\ pc = "amounts" /\ at < Len(call.amounts)
  /\ Named(call.record, declared.field) # {}
  /\ declared.role # "amount"
  /\ findings' = Append(findings, <<"not amount", declared.field>>)
  /\ entries' = Append(entries, [field |-> declared.field, role |-> declared.role])
  /\ at' = at + 1
  /\ UNCHANGED <<call, pc, hits, statuses>>

(* The scale is compared and the code looked up; nothing is admitted as     *)
(* money.                                                                   *)
CheckAmount ==
  LET declared == call.amounts[at + 1]
      matches == Field(call.record, declared.field).scale = declared.scale
      codes == Named(call.record, declared.code)
  IN  /\ pc = "amounts" /\ at < Len(call.amounts)
      /\ Named(call.record, declared.field) # {}
      /\ declared.role = "amount"
      /\ findings' = findings
           \o (IF ~matches /\ declared.strict THEN << <<"scale", declared.field>> >> ELSE <<>>)
           \o (IF declared.code # NoName /\ codes = {} THEN << <<"code", declared.code>> >>
               ELSE <<>>)
      /\ entries' = Append(entries,
           [field |-> declared.field, role |-> "amount", scaleMatch |-> matches,
            code |-> IF codes = {} THEN NoName ELSE Field(call.record, declared.code).value])
      /\ at' = at + 1
      /\ UNCHANGED <<call, pc, hits, statuses>>

Terminated == pc \in {"done", "error"} /\ UNCHANGED vars

Next ==
  \/ Fail \/ Begin
  \/ MissingMarked \/ ScanField \/ Scanned
  \/ MissingDate \/ ValidateDate \/ Validated
  \/ MissingAmount \/ RefuseAmount \/ CheckAmount \/ Return
  \/ Terminated

Spec == Init /\ [][Next]_vars
-----------------------------------------------------------------------------
TypeOK ==
  /\ pc \in {"start", "markers", "dates", "amounts", "done", "error"}
  /\ at \in Nat
  /\ \A k \in DOMAIN statuses :
       statuses[k][2] \in {"valid", "invalid_format", "invalid_calendar", "declared_sentinel"}
  /\ Len(entries) <= Len(call.amounts)

(* The days of a year that exist, counted by hand: thirty-one of each       *)
(* month but those that end earlier.                                        *)
Days(y) ==
  ((1..12) \X (1..31))
    \ (({4, 6, 9, 11} \X {31}) \cup {<<2, 30>>, <<2, 31>>}
       \cup (IF y % 4 # 0 \/ (y % 25 = 0 /\ y % 16 # 0) THEN {<<2, 29>>} ELSE {}))

RealDate(raw, format) ==
  /\ IsFormat(raw, format)
  /\ IF format = "YYYYMMDD"
     THEN <<Number(SubSeq(raw, 5, 6)), Number(SubSeq(raw, 7, 8))>>
            \in Days(Number(SubSeq(raw, 1, 4)))
     ELSE Number(SubSeq(raw, 3, 5)) \in 1..Cardinality(Days(2000 + Number(SubSeq(raw, 1, 2))))

(* A rule declared for the field matches it in the record that was scanned. *)
Marked(field) ==
  \E k \in DOMAIN call.markers :
    /\ call.markers[k].field = field
    /\ Named(call.scanned, field) # {}
    /\ \E r \in DOMAIN call.markers[k].rules :
         Matches(call.markers[k].rules[r], Field(call.scanned, field))

(* Every declared date that the record has is judged once, in the order     *)
(* declared: as a marker exactly when a rule of its own matched it where    *)
(* the markers were looked for, else by its own bytes, valid exactly when   *)
(* they are a day of the calendar, and with a finding when they are not. So *)
(* when the manifests of the two courts name one record no bad date goes    *)
(* unmentioned, unless it is itself a declared marker.                      *)
DatesJudgedOnce ==
  pc = "done" =>
    LET present == {k \in DOMAIN call.dates : Named(call.record, call.dates[k].field) # {}} IN
    /\ Len(statuses) = Cardinality(present)
    /\ \A k \in present :
         LET d == call.dates[k]
             raw == Field(call.record, d.field).raw
             judged == statuses[Cardinality({j \in present : j <= k})]
         IN  /\ judged[1] = d.field
             /\ judged[2] = "declared_sentinel" <=> Marked(d.field)
             /\ judged[2] = "valid" <=> ~Marked(d.field) /\ RealDate(raw, d.format)
             /\ judged[2] \in {"invalid_format", "invalid_calendar"} =>
                  \E f \in DOMAIN findings : findings[f] \in {"format", "calendar"} \X {d.field}
================================================================================
