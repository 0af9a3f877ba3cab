------------------------------- MODULE Banking -------------------------------
(***************************************************************************)
(* reconcile_banking (src/src/banking.rs) as a state machine: one step per *)
(* record of the file, then one step that compares what the trailer        *)
(* declared with what was observed and returns the result.                 *)
(*                                                                         *)
(* Cents are i64. MinCents..MaxCents is that range, scaled down for        *)
(* checking. How the crate was built comes with the call: a debug build    *)
(* panics when a sum leaves the range, a release build wraps.              *)
(***************************************************************************)
EXTENDS BankingProfile

CONSTANTS MinCents, MaxCents

ASSUME RangeAssumption ==
  /\ MinCents \in Int /\ MaxCents \in Int
  /\ MinCents <= 0 /\ 0 <= MaxCents

VARIABLES
  call,           \* the arguments, never written
  pc,             \* "start", "reading", "done", "error" or "panicked"
  idx,            \* records consumed
  findings,       \* (rule, what it is about), in the order they are pushed
  variantCounts,  \* how many records each declared variant received
  obs,            \* observed count, debit and credit
  decl,           \* declared count, debit and credit, NoField until a trailer
  result          \* NoField until the function returns Ok

vars == <<call, pc, idx, findings, variantCounts, obs, decl, result>>

OverflowChecks == call.build = "debug"

Width == MaxCents - MinCents + 1
Fits(n) == MinCents <= n /\ n <= MaxCents

(* Mutants of Wrap: an unbounded and a saturating addition. *)
WrapNever(n) == n
WrapSaturates(n) ==
  IF n < MinCents THEN MinCents ELSE IF n > MaxCents THEN MaxCents ELSE n

Wrap(n) == ((n - MinCents) % Width) + MinCents

Finding(rule, record) == [rule |-> rule, record |-> record]

RecordRules == {"UNKNOWN-RECORD-TYPE", "UNKNOWN-POLARITY", "DIRTY-DETAIL"}
FileRules == {"PROFILE-INCONSISTENT", "CONTROL-MISMATCH", "NO-TRAILER"}

Occurrences(rule) ==
  Cardinality({k \in DOMAIN findings : findings[k].rule = rule})

Init ==
  /\ call \in Calls
  /\ pc = "start"
  /\ idx = 0
  /\ findings = <<>>
  /\ variantCounts = [name \in VariantNames |-> 0]
  /\ obs = [t \in Totals |-> 0]
  /\ decl = [t \in Totals |-> NoField]
  /\ result = NoField

(* record_len = 0 is refused before anything is read. *)
RefuseZeroLength ==
  /\ pc = "start"
  /\ call.recordLen = 0
  /\ pc' = "error"
  /\ UNCHANGED <<call, idx, findings, variantCounts, obs, decl, result>>

(* Mutant of CheckProfile: the role of the amount field is not looked at. *)
CheckProfileBlind ==
  /\ pc = "start"
  /\ call.recordLen > 0
  /\ pc' = "reading"
  /\ UNCHANGED <<call, idx, findings, variantCounts, obs, decl, result>>

(* The profile check only reports: the loop runs, and sums, either way. *)
CheckProfile ==
  /\ pc = "start"
  /\ call.recordLen > 0
  /\ findings' = IF AmountRole(call) = "Amount" THEN findings
                 ELSE Append(findings, Finding("PROFILE-INCONSISTENT", 0))
  /\ pc' = "reading"
  /\ UNCHANGED <<call, idx, variantCounts, obs, decl, result>>

Reading == pc = "reading" /\ idx < Len(call.data)
Rec == call.data[idx + 1]

Advance == idx' = idx + 1 /\ UNCHANGED <<call, pc, result>>

CountVariant ==
  variantCounts' = [variantCounts EXCEPT ![VariantOf(Rec)] = @ + 1]

Report(rule) == findings' = Append(findings, Finding(rule, idx + 1))

(* Mutant of UnknownRecordType: the record is skipped in silence. *)
UnknownRecordTypeSkipped ==
  /\ Reading
  /\ ~IsRouted(Rec)
  /\ Advance
  /\ UNCHANGED <<findings, variantCounts, obs, decl>>

(* An undeclared discriminator is reported and the record skipped. *)
UnknownRecordType ==
  /\ Reading
  /\ ~IsRouted(Rec)
  /\ Report("UNKNOWN-RECORD-TYPE")
  /\ Advance
  /\ UNCHANGED <<variantCounts, obs, decl>>

(* A detail with a clean amount and a declared indicator is added to its   *)
(* side, unless the addition overflows in a build that checks.             *)
PostDetail(side) ==
  /\ Reading
  /\ IsDetail(Rec) /\ SideOf(Rec) = side
  /\ OverflowChecks => Fits(obs[side] + Rec.amount)
  /\ obs' = [obs EXCEPT !["count"] = @ + 1,
                        ![side] = Wrap(@ + Rec.amount)]
  /\ CountVariant
  /\ Advance
  /\ UNCHANGED <<findings, decl>>

OverflowPanic(side) ==
  /\ Reading
  /\ IsDetail(Rec) /\ SideOf(Rec) = side
  /\ OverflowChecks /\ ~Fits(obs[side] + Rec.amount)
  /\ pc' = "panicked"
  /\ UNCHANGED <<call, idx, findings, variantCounts, obs, decl, result>>

(* Mutant of ReportDetail: no finding. *)
ReportDetailSilent(side, rule) ==
  /\ Reading
  /\ IsDetail(Rec) /\ SideOf(Rec) = side
  /\ obs' = [obs EXCEPT !["count"] = @ + 1]
  /\ CountVariant
  /\ Advance
  /\ UNCHANGED <<findings, decl>>
(* A detail that cannot be posted is still counted, and reported once.     *)
ReportDetail(side, rule) ==
  /\ Reading
  /\ IsDetail(Rec) /\ SideOf(Rec) = side
  /\ Report(rule)
  /\ obs' = [obs EXCEPT !["count"] = @ + 1]
  /\ CountVariant
  /\ Advance
  /\ UNCHANGED decl

UnknownPolarity == ReportDetail("unknown", "UNKNOWN-POLARITY")
DirtyDetail == ReportDetail("dirty", "DIRTY-DETAIL")

(* Mutant of ReadTrailer: a field that does not parse keeps its old value. *)
ReadTrailerMerging ==
  /\ Reading
  /\ IsTrailer(Rec)
  /\ decl' = [t \in Totals |->
                IF Rec.trailer[t] = NoField THEN decl[t] ELSE Rec.trailer[t]]
  /\ CountVariant
  /\ Advance
  /\ UNCHANGED <<findings, obs>>

(* Every trailer replaces all three declared numbers, with None where its  *)
(* field does not parse.                                                   *)
ReadTrailer ==
  /\ Reading
  /\ IsTrailer(Rec)
  /\ decl' = Rec.trailer
  /\ CountVariant
  /\ Advance
  /\ UNCHANGED <<findings, obs>>

(* Any other declared variant (a header) is only counted. *)
OtherVariant ==
  /\ Reading
  /\ IsRouted(Rec) /\ ~IsDetail(Rec) /\ ~IsTrailer(Rec)
  /\ CountVariant
  /\ Advance
  /\ UNCHANGED <<findings, obs, decl>>

(* One declared-vs-observed comparison: at most one finding. *)
CheckTotal(t) ==
  IF decl[t] = obs[t] THEN <<>>
  ELSE IF decl[t] = NoField THEN <<Finding("NO-TRAILER", 0)>>
  ELSE <<Finding("CONTROL-MISMATCH", 0)>>

(* balanced = c_ok && d_ok && r_ok && findings.is_empty() *)
Balanced(reported) == (\A t \in Totals : decl[t] = obs[t]) /\ reported = <<>>

(* The result returned: the verdict is the exit code, the casefile counts  *)
(* whole records only, the summary counts findings by rule.                *)
BankingResult(reported) ==
  [balanced          |-> Balanced(reported),
   verdict           |-> IF Balanced(reported) THEN 0 ELSE 1,
   recordCount       |-> Len(call.data) - (IF call.partialTail THEN 1 ELSE 0),
   unknownTypes      |-> Occurrences("UNKNOWN-RECORD-TYPE"),
   unknownPolarities |-> Occurrences("UNKNOWN-POLARITY")]

(* The end of the file: the three checks, then the verdict over everything *)
(* that was reported.                                                      *)
Reconcile ==
  /\ pc = "reading"
  /\ idx = Len(call.data)
  /\ findings' = findings \o CheckTotal("count") \o CheckTotal("debit")
                          \o CheckTotal("credit")
  /\ result' = BankingResult(findings')
  /\ pc' = "done"
  /\ UNCHANGED <<call, idx, variantCounts, obs, decl>>

Returned == pc \in {"done", "error", "panicked"}

(* The caller keeps the result; nothing moves any more. *)
Terminated == Returned /\ UNCHANGED vars

ReadRecord ==
  \/ UnknownRecordType
  \/ \E side \in {"debit", "credit"} : PostDetail(side) \/ OverflowPanic(side)
  \/ UnknownPolarity
  \/ DirtyDetail
  \/ ReadTrailer
  \/ OtherVariant

Next ==
  \/ RefuseZeroLength
  \/ CheckProfile
  \/ ReadRecord
  \/ Reconcile
  \/ Terminated

(* The function is straight-line code with a finite loop: a step that can  *)
(* be taken is taken.                                                      *)
Spec == Init /\ [][Next]_vars /\ WF_vars(Next)
-----------------------------------------------------------------------------
FindingType == [rule : RecordRules \cup FileRules, record : Nat]

ResultType ==
  [balanced : BOOLEAN, verdict : {0, 1}, recordCount : Int,
   unknownTypes : Nat, unknownPolarities : Nat]

(* The type invariant. *)
TypeOK ==
  /\ call \in Calls
  /\ pc \in {"start", "reading", "done", "error", "panicked"}
  /\ idx \in 0..Len(call.data)
  /\ findings \in Seq(FindingType)
  /\ variantCounts \in [VariantNames -> Nat]
  /\ obs \in [Totals -> Int]
  /\ Fits(obs["debit"]) /\ Fits(obs["credit"])
  /\ decl \in [Totals -> Int \cup {NoField}]
  /\ result \in ResultType \cup {NoField}

Flagged(rule, i) ==
  \E k \in DOMAIN findings : findings[k] = Finding(rule, i)

RuleFor(rec) ==
  IF ~IsRouted(rec) THEN "UNKNOWN-RECORD-TYPE"
  ELSE IF SideOf(rec) = "unknown" THEN "UNKNOWN-POLARITY" ELSE "DIRTY-DETAIL"

Unpostable(rec) ==
  ~IsRouted(rec) \/ (IsDetail(rec) /\ SideOf(rec) \in {"unknown", "dirty"})

(* "Fail closed" per record: of the records read so far, exactly those the *)
(* court could not route or post carry a finding, that finding is the one  *)
(* its cause calls for, and it is pushed once. Records are neither dropped *)
(* in silence nor blamed twice, whatever precedes or follows them.         *)
EveryRefusalReported ==
  \A i \in 1..idx :
    IF Unpostable(call.data[i])
    THEN /\ Flagged(RuleFor(call.data[i]), i)
         /\ \A j, k \in DOMAIN findings :
               findings[j].record = i /\ findings[k].record = i => j = k
    ELSE \A k \in DOMAIN findings : findings[k].record # i

(* The declared numbers always come together from the last trailer read,   *)
(* never a count from one trailer and a total from another, and stay None  *)
(* until there is one.                                                     *)
DeclaredFromLastTrailer ==
  LET trailers == {i \in 1..idx : IsTrailer(call.data[i])}
  IN  \/ trailers = {} /\ \A t \in Totals : decl[t] = NoField
      \/ \E last \in trailers :
            /\ \A i \in trailers : i <= last
            /\ decl = call.data[last].trailer

(* The observed count is the number of details read, clean or not and      *)
(* before or after a trailer.                                              *)
ObservedCountExact ==
  obs["count"] = Cardinality({i \in 1..idx : IsDetail(call.data[i])})

(* BankingResult.findings is "non-empty iff the file did not reconcile",   *)
(* and the exit code says the same thing.                                  *)
FindingsIffUnbalanced ==
  pc = "done" =>
    /\ result.balanced <=> findings = <<>>
    /\ result.balanced <=> result.verdict = 0

(* A balanced result means the profile calls the amount field money, every *)
(* record was routed, every detail posted, the last trailer declared all   *)
(* three numbers and they are the observed ones.                           *)
BalancedIsEarned ==
  pc = "done" /\ result.balanced =>
    /\ AmountRole(call) = "Amount"
    /\ \A i \in DOMAIN call.data : ~Unpostable(call.data[i])
    /\ \E i \in DOMAIN call.data :
          /\ IsTrailer(call.data[i])
          /\ \A j \in DOMAIN call.data : IsTrailer(call.data[j]) => j <= i
          /\ call.data[i].trailer = obs

(* The records of a variant, and those refused under a rule. *)
Received(name) ==
  {i \in DOMAIN call.data : IsRouted(call.data[i]) /\ VariantOf(call.data[i]) = name}

Refused(rule) ==
  {i \in DOMAIN call.data : Unpostable(call.data[i]) /\ RuleFor(call.data[i]) = rule}

(* The casefile accounts for every chunk of the file: each is in the count *)
(* of exactly its own variant or is an unknown record type, and of what is *)
(* refused for its indicator none is missing. Its record_count leaves out  *)
(* a trailing partial chunk, which the loop nevertheless reads.            *)
CasefileAccountsForFile ==
  pc = "done" =>
    /\ \A name \in VariantNames : variantCounts[name] = Cardinality(Received(name))
    /\ result.unknownTypes = Cardinality(Refused("UNKNOWN-RECORD-TYPE"))
    /\ result.unknownPolarities = Cardinality(Refused("UNKNOWN-POLARITY"))
    /\ Len(call.data) = result.recordCount + (IF call.partialTail THEN 1 ELSE 0)

(* README.md: "Only amount fields are summed". A profile that does not     *)
(* declare the amount field money observes no debit and no credit.         *)
OnlyAmountsSummed ==
  AmountRole(call) # "Amount" => obs["debit"] = 0 /\ obs["credit"] = 0

(* What the caller sees of a call that is still running, or has ended.     *)
Outcome ==
  IF pc = "done" THEN (IF result.balanced THEN "balanced" ELSE "warned")
  ELSE IF pc = "error" THEN "refused"
  ELSE IF pc = "panicked" THEN "aborted"
  ELSE "pending"

(* The court's promise, under the mapping of the loop onto one decision.   *)
Court == INSTANCE BankingCourt WITH case <- call, outcome <- Outcome

(* reconcile_banking implements the promise of BankingCourt: whatever the  *)
(* order of records, the outcome is the one the arguments alone determine, *)
(* and it is always reached.                                               *)
ImplementsCourt == Court!Spec
=============================================================================
