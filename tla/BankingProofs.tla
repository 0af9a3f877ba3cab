---------------------------- MODULE BankingProofs ----------------------------
(***************************************************************************)
(* Theorems about the banking court for every profile, every set of calls  *)
(* and every cents range.                                                  *)
(***************************************************************************)
EXTENDS Banking, TLAPS, FiniteSetTheorems, SequenceTheorems, WellFoundedInduction

(* A routed record has a first matching row, so its variant is one of the  *)
(* declared names.                                                         *)
LEMMA VariantDeclared ==
  ASSUME NEW rec, IsRouted(rec)
  PROVE  VariantOf(rec) \in VariantNames
<1>1. RowsFor(rec) \subseteq Nat
  BY ProfileAssumption DEF RowsFor
<1>2. PICK k \in RowsFor(rec) : \A j \in RowsFor(rec) : ~(<<j, k>> \in OpToRel(<, Nat))
  BY <1>1, NatLessThanWellFounded, WFMin DEF IsRouted
<1>3. ASSUME NEW j \in RowsFor(rec) PROVE k <= j
  <2>1. SUFFICES ASSUME j < k PROVE FALSE
    BY <1>1
  <2>2. <<j, k>> \in Nat \X Nat /\ <<j, k>>[1] < <<j, k>>[2]
    BY <1>1, <2>1
  <2>. QED
    BY <1>2, <2>2, Zenon DEF OpToRel
<1>4. (CHOOSE m \in RowsFor(rec) : \A j \in RowsFor(rec) : m <= j) \in RowsFor(rec)
  BY <1>3
<1>. QED
  BY <1>4 DEF VariantOf, VariantNames, RowsFor

(* Wrapping lands in the range and leaves numbers of the range alone. *)
LEMMA WrapFits ==
  ASSUME NEW n \in Int
  PROVE  Wrap(n) \in Int /\ Fits(Wrap(n)) /\ (Fits(n) => Wrap(n) = n)
<1>1. Width \in Int /\ Width > 0
  BY RangeAssumption DEF Width
<1>2. (n - MinCents) % Width \in 0..(Width - 1)
  BY <1>1, RangeAssumption
<1>3. ASSUME Fits(n) PROVE (n - MinCents) % Width = n - MinCents
  BY <1>1, <1>3, RangeAssumption DEF Fits, Width
<1>. QED
  BY <1>1, <1>2, <1>3, RangeAssumption DEF Wrap, Fits, Width

(* The record a reading step looks at. *)
LEMMA RecType ==
  ASSUME TypeOK, Reading
  PROVE  /\ idx \in Nat /\ idx + 1 \in 1..Len(call.data)
         /\ Len(call.data) \in Nat /\ DOMAIN call.data = 1..Len(call.data)
         /\ Rec \in Records
         /\ Rec.amount \in Int \cup {NoField}
         /\ Rec.trailer \in [Totals -> Int \cup {NoField}]
<1>1. call.data \in Seq(Records)
  BY ProfileAssumption DEF TypeOK
<1>2. idx \in Nat /\ idx + 1 \in 1..Len(call.data) /\ Len(call.data) \in Nat
  BY <1>1 DEF TypeOK, Reading
<1>3. Rec \in Records
  BY <1>1, <1>2 DEF Rec
<1>. QED
  BY <1>1, <1>2, <1>3, ProfileAssumption

(* A finding about the file as a whole and not about a record of it. *)
AboutFile(f) == f.record = 0 /\ f.rule \in FileRules

(* What a check appends. *)
LEMMA CheckTotalType ==
  ASSUME NEW t \in Totals
  PROVE  /\ CheckTotal(t) \in Seq(FindingType)
         /\ CheckTotal(t) = <<>> <=> decl[t] = obs[t]
         /\ \A k \in DOMAIN CheckTotal(t) : AboutFile(CheckTotal(t)[k])
<1>. DEFINE a == Finding("NO-TRAILER", 0)  b == Finding("CONTROL-MISMATCH", 0)
<1>1. a \in FindingType /\ b \in FindingType /\ AboutFile(a) /\ AboutFile(b)
  BY DEF Finding, FindingType, FileRules, AboutFile
<1>. HIDE DEF a, b
<1>2. /\ <<a>> \in Seq(FindingType) /\ <<b>> \in Seq(FindingType)
      /\ <<a>> # <<>> /\ <<b>> # <<>>
      /\ DOMAIN <<a>> = {1} /\ DOMAIN <<b>> = {1}
      /\ <<a>>[1] = a /\ <<b>>[1] = b
  BY <1>1
<1>3. CASE decl[t] = obs[t]
  BY <1>3 DEF CheckTotal
<1>4. CASE decl[t] # obs[t] /\ decl[t] = NoField
  BY <1>1, <1>2, <1>4 DEF CheckTotal, a
<1>5. CASE decl[t] # obs[t] /\ decl[t] # NoField
  BY <1>1, <1>2, <1>5 DEF CheckTotal, b
<1>. QED
  BY <1>3, <1>4, <1>5

(* The findings after the three checks: the old ones, then findings about  *)
(* the file; none at all exactly when there were none and all totals agree.*)
LEMMA ReconcileFindings ==
  ASSUME TypeOK, Reconcile
  PROVE  /\ findings' \in Seq(FindingType)
         /\ Len(findings) <= Len(findings')
         /\ \A k \in 1..Len(findings) : findings'[k] = findings[k]
         /\ \A k \in (Len(findings) + 1)..Len(findings') : AboutFile(findings'[k])
         /\ findings' = <<>> <=> findings = <<>> /\ \A t \in Totals : decl[t] = obs[t]
<1>. DEFINE c == CheckTotal("count")
            d == CheckTotal("debit")
            r == CheckTotal("credit")
<1>1. /\ c \in Seq(FindingType) /\ d \in Seq(FindingType) /\ r \in Seq(FindingType)
      /\ \A k \in DOMAIN c : AboutFile(c[k])
      /\ \A k \in DOMAIN d : AboutFile(d[k])
      /\ \A k \in DOMAIN r : AboutFile(r[k])
      /\ (c = <<>> /\ d = <<>> /\ r = <<>>) <=> \A t \in Totals : decl[t] = obs[t]
  BY CheckTotalType DEF Totals
<1>2. findings \in Seq(FindingType) /\ findings' = ((findings \o c) \o d) \o r
  BY DEF TypeOK, Reconcile
<1>. HIDE DEF c, d, r
<1>3. /\ findings \o c \in Seq(FindingType)
      /\ (findings \o c) \o d \in Seq(FindingType)
      /\ findings' \in Seq(FindingType)
  BY <1>1, <1>2, ConcatProperties
<1>4. findings' = <<>> <=> findings = <<>> /\ c = <<>> /\ d = <<>> /\ r = <<>>
  BY <1>1, <1>2, <1>3, ConcatEqualIffEmpty
<1>5. /\ Len(findings) <= Len(findings')
      /\ \A k \in 1..Len(findings) : findings'[k] = findings[k]
      /\ \A k \in (Len(findings) + 1)..Len(findings') : AboutFile(findings'[k])
  <2>1. /\ Len(findings \o c) = Len(findings) + Len(c)
        /\ \A k \in 1..Len(findings \o c) :
              (findings \o c)[k] = IF k <= Len(findings) THEN findings[k]
                                   ELSE c[k - Len(findings)]
    BY <1>1, <1>2, ConcatProperties
  <2>2. /\ Len((findings \o c) \o d) = Len(findings \o c) + Len(d)
        /\ \A k \in 1..Len((findings \o c) \o d) :
              ((findings \o c) \o d)[k] =
                 IF k <= Len(findings \o c) THEN (findings \o c)[k]
                 ELSE d[k - Len(findings \o c)]
    BY <1>1, <1>3, ConcatProperties
  <2>3. /\ Len(findings') = Len((findings \o c) \o d) + Len(r)
        /\ \A k \in 1..Len(findings') :
              findings'[k] = IF k <= Len((findings \o c) \o d)
                             THEN ((findings \o c) \o d)[k]
                             ELSE r[k - Len((findings \o c) \o d)]
    BY <1>1, <1>2, <1>3, ConcatProperties
  <2>. DEFINE fc == findings \o c  fcd == fc \o d  f2 == findings'
              n == Len(findings)  nc == Len(c)  nd == Len(d)  nr == Len(r)
  <2>4. n \in Nat /\ nc \in Nat /\ nd \in Nat /\ nr \in Nat
        /\ DOMAIN c = 1..nc /\ DOMAIN d = 1..nd /\ DOMAIN r = 1..nr
    BY <1>1, <1>2
  <2>5. Len(fc) = n + nc /\ Len(fcd) = n + nc + nd /\ Len(f2) = n + nc + nd + nr
    BY <2>1, <2>2, <2>3, <2>4
  <2>6. ASSUME NEW k \in 1..n PROVE f2[k] = findings[k]
    BY <2>1, <2>2, <2>3, <2>4, <2>5
  <2>7. ASSUME NEW k \in (n + 1)..Len(f2) PROVE AboutFile(f2[k])
    <3>1. CASE k <= n + nc
      <4>1. k - n \in DOMAIN c /\ f2[k] = c[k - n]
        BY <2>1, <2>2, <2>3, <2>4, <2>5, <3>1
      <4>. QED BY <1>1, <4>1
    <3>2. CASE n + nc < k /\ k <= n + nc + nd
      <4>1. k - (n + nc) \in DOMAIN d /\ f2[k] = d[k - (n + nc)]
        BY <2>1, <2>2, <2>3, <2>4, <2>5, <3>2
      <4>. QED BY <1>1, <4>1
    <3>3. CASE n + nc + nd < k
      <4>1. k - (n + nc + nd) \in DOMAIN r /\ f2[k] = r[k - (n + nc + nd)]
        BY <2>1, <2>2, <2>3, <2>4, <2>5, <3>3
      <4>. QED BY <1>1, <4>1
    <3>. QED BY <2>4, <2>5, <3>1, <3>2, <3>3
  <2>. QED BY <2>4, <2>5, <2>6, <2>7
<1>. QED
  BY <1>1, <1>3, <1>4, <1>5
(* How many findings of a rule there are is a natural number. *)
LEMMA OccurrencesType ==
  ASSUME TypeOK, NEW rule
  PROVE  Occurrences(rule) \in Nat
<1>. DEFINE hits == {k \in DOMAIN findings : findings[k].rule = rule}
<1>1. DOMAIN findings = 1..Len(findings) /\ Len(findings) \in Nat
  BY DEF TypeOK
<1>2. IsFiniteSet(1..Len(findings))
  BY <1>1, FS_Interval
<1>3. hits \subseteq 1..Len(findings)
  BY <1>1
<1>4. IsFiniteSet(hits)
  BY <1>2, <1>3, FS_Subset
<1>. QED
  BY <1>4, FS_CardinalityType DEF Occurrences

(* A finding about a record extends the findings by one. *)
LEMMA ReportType ==
  ASSUME TypeOK, Reading, NEW rule \in RecordRules, Report(rule)
  PROVE  /\ findings' \in Seq(FindingType)
         /\ Len(findings') = Len(findings) + 1
         /\ \A k \in 1..Len(findings) : findings'[k] = findings[k]
         /\ findings'[Len(findings) + 1] = Finding(rule, idx + 1)
<1>1. Finding(rule, idx + 1) \in FindingType
  BY RecType DEF Finding, FindingType
<1>. QED
  BY <1>1, AppendProperties DEF Report, TypeOK

(* TypeOK: cents never leave the range of i64, in either build. *)
THEOREM TypeCorrect == Spec => []TypeOK
<1>1. Init => TypeOK
  <2>1. SUFFICES ASSUME Init PROVE TypeOK
    OBVIOUS
  <2>2. call.data \in Seq(Records)
    BY <2>1, ProfileAssumption DEF Init
  <2>3. idx \in 0..Len(call.data)
    BY <2>1, <2>2 DEF Init
  <2>. QED
    BY <2>1, <2>3, RangeAssumption DEF Init, TypeOK, Totals, Fits
<1>2. TypeOK /\ [Next]_vars => TypeOK'
  <2>. SUFFICES ASSUME TypeOK, [Next]_vars PROVE TypeOK'
    OBVIOUS
  <2>1. CASE RefuseZeroLength
    BY <2>1 DEF RefuseZeroLength, TypeOK, Fits
  <2>2. CASE CheckProfile
    <3>1. Finding("PROFILE-INCONSISTENT", 0) \in FindingType
      BY DEF Finding, FindingType, FileRules
    <3>2. findings' \in Seq(FindingType)
      BY <2>2, <3>1, AppendProperties DEF CheckProfile, TypeOK
    <3>. QED
      BY <2>2, <3>2 DEF CheckProfile, TypeOK, Fits
  <2>3. CASE UnknownRecordType
    <3>1. Reading /\ Report("UNKNOWN-RECORD-TYPE") /\ "UNKNOWN-RECORD-TYPE" \in RecordRules
      BY <2>3 DEF UnknownRecordType, RecordRules
    <3>2. findings' \in Seq(FindingType)
      BY <3>1, ReportType
    <3>3. idx' \in 0..Len(call'.data)
      BY <2>3, <3>1, RecType DEF UnknownRecordType, Advance
    <3>. QED
      BY <2>3, <3>2, <3>3 DEF UnknownRecordType, Advance, TypeOK, Fits
  <2>4. ASSUME NEW side \in {"debit", "credit"}, PostDetail(side)
        PROVE  TypeOK'
    <3>1. Reading /\ IsRouted(Rec) /\ Rec.amount \in Int
      BY <2>4, RecType DEF PostDetail, IsDetail, SideOf
    <3>2. variantCounts' \in [VariantNames -> Nat]
      BY <2>4, <3>1, VariantDeclared DEF PostDetail, CountVariant, TypeOK
    <3>3. obs[side] + Rec.amount \in Int
      BY <3>1 DEF TypeOK, Totals
    <3>4. obs' \in [Totals -> Int] /\ Fits(obs'["debit"]) /\ Fits(obs'["credit"])
      <4>. DEFINE w == Wrap(obs[side] + Rec.amount)
      <4>1. w \in Int /\ Fits(w)
        BY <3>3, WrapFits
      <4>2. obs' = [obs EXCEPT !["count"] = @ + 1, ![side] = w]
        BY <2>4 DEF PostDetail, TypeOK, Totals
      <4>. HIDE DEF w
      <4>3. /\ obs' \in [Totals -> Int]
            /\ obs'["debit"] = IF side = "debit" THEN w ELSE obs["debit"]
            /\ obs'["credit"] = IF side = "credit" THEN w ELSE obs["credit"]
        BY <4>1, <4>2 DEF TypeOK, Totals
      <4>. QED
        BY <4>1, <4>3 DEF TypeOK
    <3>5. idx' \in 0..Len(call'.data)
      BY <2>4, <3>1, RecType DEF PostDetail, Advance
    <3>. QED
      BY <2>4, <3>2, <3>4, <3>5 DEF PostDetail, Advance, TypeOK, Fits
  <2>5. ASSUME NEW side \in {"debit", "credit"}, OverflowPanic(side)
        PROVE  TypeOK'
    BY <2>5 DEF OverflowPanic, TypeOK, Fits
  <2>6. ASSUME NEW side, NEW rule \in RecordRules, ReportDetail(side, rule)
        PROVE  TypeOK'
    <3>1. Reading /\ IsRouted(Rec) /\ Report(rule)
      BY <2>6 DEF ReportDetail, IsDetail
    <3>2. findings' \in Seq(FindingType)
      BY <3>1, ReportType
    <3>3. variantCounts' \in [VariantNames -> Nat]
      BY <2>6, <3>1, VariantDeclared DEF ReportDetail, CountVariant, TypeOK
    <3>4. obs' \in [Totals -> Int] /\ obs'["debit"] = obs["debit"]
          /\ obs'["credit"] = obs["credit"]
      BY <2>6 DEF ReportDetail, TypeOK, Totals
    <3>5. idx' \in 0..Len(call'.data)
      BY <2>6, <3>1, RecType DEF ReportDetail, Advance
    <3>. QED
      BY <2>6, <3>2, <3>3, <3>4, <3>5 DEF ReportDetail, Advance, TypeOK, Fits
  <2>7. CASE UnknownPolarity
    BY <2>6, <2>7 DEF UnknownPolarity, RecordRules
  <2>8. CASE DirtyDetail
    BY <2>6, <2>8 DEF DirtyDetail, RecordRules
  <2>9. CASE ReadTrailer
    <3>1. Reading /\ IsRouted(Rec)
      BY <2>9 DEF ReadTrailer, IsTrailer
    <3>2. variantCounts' \in [VariantNames -> Nat]
      BY <2>9, <3>1, VariantDeclared DEF ReadTrailer, CountVariant, TypeOK
    <3>3. decl' \in [Totals -> Int \cup {NoField}] /\ idx' \in 0..Len(call'.data)
      BY <2>9, <3>1, RecType DEF ReadTrailer, Advance
    <3>. QED
      BY <2>9, <3>2, <3>3 DEF ReadTrailer, Advance, TypeOK, Fits
  <2>10. CASE OtherVariant
    <3>1. Reading /\ IsRouted(Rec)
      BY <2>10 DEF OtherVariant
    <3>2. variantCounts' \in [VariantNames -> Nat]
      BY <2>10, <3>1, VariantDeclared DEF OtherVariant, CountVariant, TypeOK
    <3>3. idx' \in 0..Len(call'.data)
      BY <2>10, <3>1, RecType DEF OtherVariant, Advance
    <3>. QED
      BY <2>10, <3>2, <3>3 DEF OtherVariant, Advance, TypeOK, Fits
  <2>11. CASE Reconcile
    <3>1. findings' \in Seq(FindingType)
      BY <2>11, ReconcileFindings
    <3>2. Len(call.data) \in Nat
      BY ProfileAssumption DEF TypeOK
    <3>3. Balanced(findings') \in BOOLEAN
      BY DEF Balanced
    <3>4. result' \in ResultType
      BY <2>11, <3>2, <3>3, OccurrencesType DEF Reconcile, BankingResult, ResultType
    <3>. QED
      BY <2>11, <3>1, <3>4 DEF Reconcile, TypeOK, Fits
  <2>12. CASE UNCHANGED vars
    BY <2>12 DEF vars, TypeOK, Fits
  <2>. QED
    BY <2>1, <2>2, <2>3, <2>4, <2>5, <2>7, <2>8, <2>9, <2>10, <2>11, <2>12
       DEF Next, ReadRecord, Terminated
<1>. QED
  BY <1>1, <1>2, PTL DEF Spec
-----------------------------------------------------------------------------
(***************************************************************************)
(* Every step either consumes one record, with exactly the effects its     *)
(* classification calls for, or consumes none and leaves the books alone.  *)
(***************************************************************************)
ReadsOne ==
  /\ Reading
  /\ idx' = idx + 1
  /\ UNCHANGED <<call, pc, result>>
  /\ obs'["count"] = obs["count"] + (IF IsDetail(Rec) THEN 1 ELSE 0)
  /\ decl' = IF IsTrailer(Rec) THEN Rec.trailer ELSE decl
  /\ IF IsRouted(Rec) THEN CountVariant ELSE UNCHANGED variantCounts
  /\ IF Unpostable(Rec) THEN Report(RuleFor(Rec)) ELSE UNCHANGED findings

ReadsNone ==
  /\ UNCHANGED <<call, idx, variantCounts, obs, decl>>
  /\ Len(findings) <= Len(findings')
  /\ \A k \in 1..Len(findings) : findings'[k] = findings[k]
  /\ \A k \in (Len(findings) + 1)..Len(findings') : AboutFile(findings'[k])

LEMMA ReadOrNot ==
  ASSUME TypeOK, [Next]_vars
  PROVE  ReadsOne \/ ReadsNone
<1>1. Len(findings) \in Nat
  BY DEF TypeOK
<1>2. ASSUME UNCHANGED <<call, idx, findings, variantCounts, obs, decl>> PROVE ReadsNone
  BY <1>1, <1>2 DEF ReadsNone
<1>3. CASE RefuseZeroLength
  BY <1>2, <1>3 DEF RefuseZeroLength
<1>4. CASE CheckProfile
  <2>1. Finding("PROFILE-INCONSISTENT", 0) \in FindingType
        /\ AboutFile(Finding("PROFILE-INCONSISTENT", 0))
    BY DEF Finding, FindingType, FileRules, AboutFile
  <2>2. CASE AmountRole(call) = "Amount"
    BY <1>2, <1>4, <2>2 DEF CheckProfile
  <2>3. CASE AmountRole(call) # "Amount"
    <3>1. findings' = Append(findings, Finding("PROFILE-INCONSISTENT", 0))
      BY <1>4, <2>3 DEF CheckProfile
    <3>2. /\ Len(findings') = Len(findings) + 1
          /\ \A k \in 1..Len(findings) : findings'[k] = findings[k]
          /\ findings'[Len(findings) + 1] = Finding("PROFILE-INCONSISTENT", 0)
      BY <2>1, <3>1, AppendProperties DEF TypeOK
    <3>. QED
      BY <1>1, <1>4, <2>1, <3>2 DEF CheckProfile, ReadsNone
  <2>. QED BY <2>2, <2>3
<1>5. CASE UnknownRecordType
  BY <1>5 DEF UnknownRecordType, Advance, ReadsOne, IsDetail, IsTrailer,
              Unpostable, RuleFor, TypeOK, Totals
<1>6. ASSUME NEW side \in {"debit", "credit"}, PostDetail(side)
      PROVE  ReadsOne
  <2>1. IsDetail(Rec) /\ IsRouted(Rec) /\ ~IsTrailer(Rec) /\ ~Unpostable(Rec)
    BY <1>6 DEF PostDetail, IsDetail, IsTrailer, Unpostable
  <2>2. obs'["count"] = obs["count"] + 1
    BY <1>6 DEF PostDetail, TypeOK, Totals
  <2>. QED
    BY <1>6, <2>1, <2>2 DEF PostDetail, Advance, ReadsOne
<1>7. ASSUME NEW side \in {"debit", "credit"}, OverflowPanic(side)
      PROVE  ReadsNone
  BY <1>2, <1>7 DEF OverflowPanic
<1>8. ASSUME NEW side \in {"unknown", "dirty"}, NEW rule,
             rule = IF side = "unknown" THEN "UNKNOWN-POLARITY" ELSE "DIRTY-DETAIL",
             ReportDetail(side, rule)
      PROVE  ReadsOne
  <2>1. IsDetail(Rec) /\ IsRouted(Rec) /\ ~IsTrailer(Rec) /\ Unpostable(Rec)
        /\ RuleFor(Rec) = rule
    BY <1>8 DEF ReportDetail, IsDetail, IsTrailer, Unpostable, RuleFor
  <2>2. obs'["count"] = obs["count"] + 1
    BY <1>8 DEF ReportDetail, TypeOK, Totals
  <2>. QED
    BY <1>8, <2>1, <2>2 DEF ReportDetail, Advance, ReadsOne
<1>9. CASE UnknownPolarity
  BY <1>8, <1>9 DEF UnknownPolarity
<1>10. CASE DirtyDetail
  BY <1>8, <1>10 DEF DirtyDetail
<1>11. CASE ReadTrailer
  <2>1. ~IsDetail(Rec) /\ ~Unpostable(Rec) /\ IsRouted(Rec)
    BY <1>11 DEF ReadTrailer, IsTrailer, IsDetail, Unpostable
  <2>. QED
    BY <1>11, <2>1 DEF ReadTrailer, Advance, ReadsOne, TypeOK, Totals
<1>12. CASE OtherVariant
  BY <1>12 DEF OtherVariant, Advance, ReadsOne, Unpostable, TypeOK, Totals
<1>13. CASE Reconcile
  BY <1>13, ReconcileFindings DEF Reconcile, ReadsNone
<1>14. CASE UNCHANGED vars
  BY <1>2, <1>14 DEF vars
<1>. QED
  BY <1>3, <1>4, <1>5, <1>6, <1>7, <1>9, <1>10, <1>11, <1>12, <1>13, <1>14
     DEF Next, ReadRecord, Terminated

(***************************************************************************)
(* EveryRefusalReported is inductive once no finding speaks of a record    *)
(* that has not been read.                                                 *)
(***************************************************************************)
NoFindingAhead == \A k \in DOMAIN findings : findings[k].record <= idx

THEOREM RefusalsReported == Spec => []EveryRefusalReported
<1>1. Init => NoFindingAhead /\ EveryRefusalReported
  BY DEF Init, NoFindingAhead, EveryRefusalReported
<1>2. TypeOK /\ TypeOK' /\ NoFindingAhead /\ EveryRefusalReported /\ [Next]_vars
      => NoFindingAhead' /\ EveryRefusalReported'
  <2>. SUFFICES ASSUME TypeOK, TypeOK', NoFindingAhead, EveryRefusalReported, [Next]_vars
               PROVE  NoFindingAhead' /\ EveryRefusalReported'
    OBVIOUS
  <2>1. /\ DOMAIN findings = 1..Len(findings) /\ Len(findings) \in Nat
        /\ DOMAIN findings' = 1..Len(findings') /\ Len(findings') \in Nat
        /\ idx \in Nat
        /\ \A k \in DOMAIN findings : findings[k].record \in Nat
        /\ \A k \in DOMAIN findings' : findings'[k].record \in Nat
    <3>1. Len(call.data) \in Nat
      BY ProfileAssumption DEF TypeOK
    <3>2. findings \in Seq(FindingType) /\ findings' \in Seq(FindingType)
      BY DEF TypeOK
    <3>3. /\ \A k \in 1..Len(findings) : findings[k] \in FindingType
          /\ \A k \in 1..Len(findings') : findings'[k] \in FindingType
      BY <3>2, ElementOfSeq
    <3>4. idx \in Nat
      BY <3>1 DEF TypeOK
    <3>5. \A f \in FindingType : f.record \in Nat
      BY DEF FindingType
    <3>6. /\ DOMAIN findings = 1..Len(findings) /\ Len(findings) \in Nat
          /\ DOMAIN findings' = 1..Len(findings') /\ Len(findings') \in Nat
      BY <3>2
    <3>. QED
      BY <3>3, <3>4, <3>5, <3>6
  <2>2. CASE ReadsNone
    <3>1. \A k \in DOMAIN findings' :
             \/ k \in DOMAIN findings /\ findings'[k] = findings[k]
             \/ findings'[k].record = 0
      BY <2>1, <2>2 DEF ReadsNone, AboutFile
    <3>2. \A k \in DOMAIN findings : k \in DOMAIN findings' /\ findings'[k] = findings[k]
      BY <2>1, <2>2 DEF ReadsNone
    <3>3. NoFindingAhead'
      BY <2>1, <2>2, <3>1 DEF NoFindingAhead, ReadsNone
    <3>4. ASSUME NEW i \in 1..idx, Unpostable(call.data[i])
          PROVE  /\ Flagged(RuleFor(call.data[i]), i)'
                 /\ \A j, k \in DOMAIN findings' :
                       findings'[j].record = i /\ findings'[k].record = i => j = k
      <4>1. /\ \E k \in DOMAIN findings : findings[k] = Finding(RuleFor(call.data[i]), i)
            /\ \A j, k \in DOMAIN findings :
                  findings[j].record = i /\ findings[k].record = i => j = k
        BY <3>4 DEF EveryRefusalReported, Flagged
      <4>. QED
        BY <2>1, <2>2, <3>1, <3>2, <4>1 DEF Flagged, ReadsNone
    <3>5. ASSUME NEW i \in 1..idx, ~Unpostable(call.data[i]), NEW k \in DOMAIN findings'
          PROVE  findings'[k].record # i
      BY <2>1, <3>1, <3>5 DEF EveryRefusalReported
    <3>. QED
      BY <2>2, <3>3, <3>4, <3>5 DEF EveryRefusalReported, ReadsNone
  <2>3. CASE ReadsOne
    <3>. DEFINE n == idx + 1
    <3>1. /\ call' = call /\ idx' = n /\ Rec = call.data[n] /\ n \in Nat
          /\ \A i \in 1..n : i \in 1..idx \/ i = n
      BY <2>1, <2>3 DEF ReadsOne, Rec
    <3>2. CASE ~Unpostable(Rec)
      <4>1. findings' = findings
        BY <2>3, <3>2 DEF ReadsOne
      <4>2. \A k \in DOMAIN findings : findings[k].record # n
        BY <2>1 DEF NoFindingAhead
      <4>3. NoFindingAhead'
        BY <2>1, <3>1, <4>1 DEF NoFindingAhead
      <4>. QED
        BY <3>1, <3>2, <4>1, <4>2, <4>3 DEF EveryRefusalReported, Flagged
    <3>3. CASE Unpostable(Rec)
      <4>. DEFINE last == Len(findings) + 1  f == Finding(RuleFor(Rec), n)
      <4>1. Report(RuleFor(Rec)) /\ RuleFor(Rec) \in RecordRules /\ Reading
        BY <2>3, <3>3 DEF ReadsOne, RuleFor, RecordRules
      <4>2. /\ Len(findings') = last
            /\ \A k \in 1..Len(findings) : findings'[k] = findings[k]
            /\ findings'[last] = f
        BY <4>1, ReportType
      <4>3. f.record = n
        BY DEF Finding
      <4>4. \A k \in DOMAIN findings' :
              \/ k \in DOMAIN findings /\ findings'[k] = findings[k]
                 /\ findings[k].record <= idx
              \/ k = last /\ findings'[k].record = n
        BY <2>1, <4>2, <4>3 DEF NoFindingAhead
      <4>5. last \in DOMAIN findings'
            /\ \A k \in DOMAIN findings : k \in DOMAIN findings' /\ k # last
        BY <2>1, <4>2
      <4>6. NoFindingAhead'
        BY <2>1, <3>1, <4>4 DEF NoFindingAhead
      <4>7. \E k \in DOMAIN findings' : findings'[k] = Finding(RuleFor(call.data[n]), n)
        BY <3>1, <4>2, <4>5
      <4>8. \A j, k \in DOMAIN findings' :
              findings'[j].record = n /\ findings'[k].record = n => j = k
        BY <2>1, <4>4
      <4>9. ASSUME NEW i \in 1..idx, Unpostable(call.data[i])
            PROVE  /\ \E k \in DOMAIN findings' :
                         findings'[k] = Finding(RuleFor(call.data[i]), i)
                   /\ \A j, k \in DOMAIN findings' :
                         findings'[j].record = i /\ findings'[k].record = i => j = k
        <5>1. /\ \E k \in DOMAIN findings : findings[k] = Finding(RuleFor(call.data[i]), i)
              /\ \A j, k \in DOMAIN findings :
                    findings[j].record = i /\ findings[k].record = i => j = k
          BY <4>9 DEF EveryRefusalReported, Flagged
        <5>2. i # n
          BY <2>1
        <5>. QED
          BY <2>1, <4>4, <4>5, <4>2, <5>1, <5>2
      <4>10. ASSUME NEW i \in 1..idx, ~Unpostable(call.data[i]), NEW k \in DOMAIN findings'
             PROVE  findings'[k].record # i
        BY <2>1, <4>4, <4>10 DEF EveryRefusalReported
      <4>. HIDE DEF n
      <4>11. SUFFICES ASSUME NEW i \in 1..n
             PROVE  IF Unpostable(call.data[i])
                    THEN /\ \E k \in DOMAIN findings' :
                              findings'[k] = Finding(RuleFor(call.data[i]), i)
                         /\ \A j, k \in DOMAIN findings' :
                              findings'[j].record = i /\ findings'[k].record = i => j = k
                    ELSE \A k \in DOMAIN findings' : findings'[k].record # i
        BY <3>1, <4>6 DEF EveryRefusalReported, Flagged
      <4>. QED
        BY <3>1, <3>3, <4>7, <4>8, <4>9, <4>10
    <3>. QED BY <3>2, <3>3
  <2>. QED BY <2>2, <2>3, ReadOrNot
<1>. QED
  BY <1>1, <1>2, TypeCorrect, PTL DEF Spec

(***************************************************************************)
(* The observed count is the number of details read. One more record adds  *)
(* at most one element, the record itself, to the set that is counted.     *)
(***************************************************************************)
THEOREM CountExact == Spec => []ObservedCountExact
<1>. DEFINE Counted(n) == {i \in 1..n : IsDetail(call.data[i])}
<1>1. Init => ObservedCountExact
  <2>. SUFFICES ASSUME Init PROVE obs["count"] = Cardinality(Counted(idx))
    BY DEF ObservedCountExact
  <2>1. Counted(idx) = {} /\ obs["count"] = 0
    BY DEF Init, Totals
  <2>. QED
    BY <2>1, FS_EmptySet
<1>2. TypeOK /\ ObservedCountExact /\ [Next]_vars => ObservedCountExact'
  <2>. SUFFICES ASSUME TypeOK, ObservedCountExact, [Next]_vars
               PROVE  ObservedCountExact'
    OBVIOUS
  <2>1. CASE ReadsNone
    BY <2>1 DEF ReadsNone, ObservedCountExact
  <2>2. CASE ReadsOne
    <3>1. idx \in Nat /\ Rec = call.data[idx + 1]
      BY <2>2, RecType DEF ReadsOne, Rec
    <3>2. IsFiniteSet(Counted(idx))
      <4>1. IsFiniteSet(1..idx) /\ Counted(idx) \subseteq 1..idx
        BY <3>1, FS_Interval
      <4>. QED BY <4>1, FS_Subset
    <3>3. idx + 1 \notin Counted(idx)
      BY <3>1
    <3>4. Cardinality(Counted(idx + 1))
            = Cardinality(Counted(idx)) + (IF IsDetail(Rec) THEN 1 ELSE 0)
      <4>1. CASE IsDetail(Rec)
        <5>1. Counted(idx + 1) = Counted(idx) \cup {idx + 1}
          BY <3>1, <4>1
        <5>. HIDE DEF Counted
        <5>. QED BY <3>2, <3>3, <4>1, <5>1, FS_AddElement
      <4>2. CASE ~IsDetail(Rec)
        <5>1. Counted(idx + 1) = Counted(idx)
          BY <3>1, <4>2
        <5>. HIDE DEF Counted
        <5>. QED BY <3>2, <4>2, <5>1, FS_CardinalityType
      <4>. QED BY <4>1, <4>2
    <3>5. obs'["count"] = Cardinality(Counted(idx + 1))
      BY <2>2, <3>4 DEF ReadsOne, ObservedCountExact
    <3>. QED
      BY <2>2, <3>5 DEF ReadsOne, ObservedCountExact
  <2>. QED BY <2>1, <2>2, ReadOrNot
<1>. QED
  BY <1>1, <1>2, TypeCorrect, PTL DEF Spec

(* The declared numbers are those of the last trailer read, all three of   *)
(* them, or all None when no trailer was read.                             *)
THEOREM DeclaredCorrect == Spec => []DeclaredFromLastTrailer
<1>1. Init => DeclaredFromLastTrailer
  BY DEF Init, DeclaredFromLastTrailer
<1>2. TypeOK /\ DeclaredFromLastTrailer /\ [Next]_vars => DeclaredFromLastTrailer'
  <2>. SUFFICES ASSUME TypeOK, DeclaredFromLastTrailer, [Next]_vars
               PROVE  DeclaredFromLastTrailer'
    OBVIOUS
  <2>1. CASE ReadsNone
    BY <2>1 DEF ReadsNone, DeclaredFromLastTrailer
  <2>2. CASE ReadsOne
    <3>1. /\ idx \in Nat /\ Rec = call.data[idx + 1]
          /\ idx' = idx + 1 /\ call' = call
          /\ decl' = IF IsTrailer(Rec) THEN Rec.trailer ELSE decl
      BY <2>2, RecType DEF ReadsOne, Rec
    <3>2. CASE IsTrailer(Rec)
      BY <3>1, <3>2 DEF DeclaredFromLastTrailer
    <3>3. CASE ~IsTrailer(Rec)
      <4>1. {i \in 1..(idx + 1) : IsTrailer(call.data[i])}
              = {i \in 1..idx : IsTrailer(call.data[i])}
        BY <3>1, <3>3
      <4>. QED
        BY <3>1, <3>3, <4>1 DEF DeclaredFromLastTrailer
    <3>. QED BY <3>2, <3>3
  <2>. QED BY <2>1, <2>2, ReadOrNot
<1>. QED
  BY <1>1, <1>2, TypeCorrect, PTL DEF Spec

(***************************************************************************)
(* What the end of the file leaves behind: a result exists only there, the *)
(* whole file was read, and the verdict was taken over all the findings.   *)
(***************************************************************************)
ProfileReported ==
  pc \in {"reading", "done"} /\ AmountRole(call) # "Amount" => findings # <<>>

Settled ==
  pc = "done" =>
    /\ idx = Len(call.data)
    /\ result.balanced <=> findings = <<>>
    /\ result.balanced => \A t \in Totals : decl[t] = obs[t]
    /\ result.verdict = IF result.balanced THEN 0 ELSE 1

LEMMA SettledCorrect == Spec => [](ProfileReported /\ Settled)
<1>1. Init => ProfileReported /\ Settled
  BY DEF Init, ProfileReported, Settled
<1>2. TypeOK /\ TypeOK' /\ ProfileReported /\ Settled /\ [Next]_vars
      => ProfileReported' /\ Settled'
  <2>. SUFFICES ASSUME TypeOK, TypeOK', ProfileReported, Settled, [Next]_vars
               PROVE  ProfileReported' /\ Settled'
    OBVIOUS
  <2>1. Len(findings) \in Nat /\ Len(findings') \in Nat
        /\ findings \in Seq(FindingType) /\ findings' \in Seq(FindingType)
    BY DEF TypeOK
  <2>2. Len(findings) <= Len(findings')
    <3>1. CASE ReadsNone
      BY <3>1 DEF ReadsNone
    <3>2. CASE ReadsOne
      <4>1. CASE Unpostable(Rec)
        <5>1. Report(RuleFor(Rec)) /\ RuleFor(Rec) \in RecordRules /\ Reading
          BY <3>2, <4>1 DEF ReadsOne, RuleFor, RecordRules
        <5>. QED
          BY <2>1, <5>1, ReportType
      <4>2. CASE ~Unpostable(Rec)
        BY <2>1, <3>2, <4>2 DEF ReadsOne
      <4>. QED BY <4>1, <4>2
    <3>. QED BY <3>1, <3>2, ReadOrNot
  <2>3. findings # <<>> => findings' # <<>>
    BY <2>1, <2>2, LenProperties
  <2>4. CASE CheckProfile
    BY <2>1, <2>4, AppendProperties DEF CheckProfile, ProfileReported, Settled
  <2>5. CASE Reconcile
    <3>1. /\ pc = "reading" /\ pc' = "done" /\ call' = call /\ idx' = idx
          /\ idx = Len(call.data) /\ decl' = decl /\ obs' = obs
          /\ result' = BankingResult(findings')
      BY <2>5 DEF Reconcile
    <3>2. findings' = <<>> <=> findings = <<>> /\ \A t \in Totals : decl[t] = obs[t]
      BY <2>5, ReconcileFindings
    <3>3. /\ result'.balanced = Balanced(findings')
          /\ result'.verdict = IF Balanced(findings') THEN 0 ELSE 1
      BY <3>1 DEF BankingResult
    <3>4. Balanced(findings') <=> findings' = <<>>
      BY <3>2 DEF Balanced
    <3>5. Balanced(findings') => \A t \in Totals : decl[t] = obs[t]
      BY DEF Balanced
    <3>6. Settled'
      BY <3>1, <3>3, <3>4, <3>5 DEF Settled
    <3>. QED
      BY <2>3, <3>1, <3>6 DEF ProfileReported
  <2>6. CASE ReadRecord
    <3>1. pc = "reading" /\ pc' \in {"reading", "panicked"} /\ call' = call
      BY <2>6 DEF ReadRecord, Reading, Advance, UnknownRecordType, PostDetail,
                  OverflowPanic, UnknownPolarity, DirtyDetail, ReportDetail,
                  ReadTrailer, OtherVariant
    <3>. QED
      BY <2>3, <3>1 DEF ProfileReported, Settled
  <2>7. CASE RefuseZeroLength
    BY <2>7 DEF RefuseZeroLength, ProfileReported, Settled
  <2>8. CASE UNCHANGED vars
    BY <2>8 DEF vars, ProfileReported, Settled
  <2>. QED
    BY <2>4, <2>5, <2>6, <2>7, <2>8 DEF Next, Terminated
<1>. QED
  BY <1>1, <1>2, TypeCorrect, PTL DEF Spec

(* "non-empty iff the file did not reconcile" (BankingResult.findings). *)
THEOREM FindingsTellVerdict == Spec => []FindingsIffUnbalanced
<1>1. Settled => FindingsIffUnbalanced
  BY DEF Settled, FindingsIffUnbalanced
<1>. QED
  BY <1>1, SettledCorrect, PTL

(***************************************************************************)
(* A balanced result is earned: with no finding, no record was refused and *)
(* the profile was consistent; the totals agree, and since an observed     *)
(* total is a number, a trailer must have declared all three.              *)
(***************************************************************************)
THEOREM BalancedEarned == Spec => []BalancedIsEarned
<1>1. TypeOK /\ ProfileReported /\ Settled /\ EveryRefusalReported
      /\ DeclaredFromLastTrailer => BalancedIsEarned
  <2>. SUFFICES ASSUME TypeOK, ProfileReported, Settled, EveryRefusalReported,
                      DeclaredFromLastTrailer, pc = "done", result.balanced
               PROVE  /\ AmountRole(call) = "Amount"
                      /\ \A i \in DOMAIN call.data : ~Unpostable(call.data[i])
                      /\ \E i \in DOMAIN call.data :
                            /\ IsTrailer(call.data[i])
                            /\ \A j \in DOMAIN call.data :
                                  IsTrailer(call.data[j]) => j <= i
                            /\ call.data[i].trailer = obs
    BY DEF BalancedIsEarned
  <2>1. findings = <<>> /\ idx = Len(call.data) /\ \A t \in Totals : decl[t] = obs[t]
    BY DEF Settled
  <2>2. DOMAIN call.data = 1..idx
    BY <2>1, ProfileAssumption DEF TypeOK
  <2>3. AmountRole(call) = "Amount"
    BY <2>1 DEF ProfileReported
  <2>4. ASSUME NEW i \in DOMAIN call.data PROVE ~Unpostable(call.data[i])
    BY <2>1, <2>2 DEF EveryRefusalReported, Flagged
  <2>5. decl = obs
    BY <2>1 DEF TypeOK
  <2>6. decl["count"] # NoField
    BY <2>1, ProfileAssumption DEF TypeOK, Totals
  <2>7. PICK last \in 1..idx : /\ IsTrailer(call.data[last])
                              /\ \A i \in 1..idx : IsTrailer(call.data[i]) => i <= last
                              /\ decl = call.data[last].trailer
    BY <2>6 DEF DeclaredFromLastTrailer, Totals
  <2>. QED
    BY <2>2, <2>3, <2>4, <2>5, <2>7
<1>. QED
  BY <1>1, TypeCorrect, SettledCorrect, RefusalsReported, DeclaredCorrect, PTL
-----------------------------------------------------------------------------
(* One more index counts when it is in the set. *)
LEMMA CountUpto ==
  ASSUME NEW S, NEW n \in Nat
  PROVE  Cardinality(S \cap (1..(n + 1)))
           = Cardinality(S \cap (1..n)) + (IF n + 1 \in S THEN 1 ELSE 0)
<1>. DEFINE T == S \cap (1..n)
<1>1. IsFiniteSet(T) /\ n + 1 \notin T
  <2>1. IsFiniteSet(1..n) /\ T \subseteq 1..n /\ n + 1 \notin 1..n
    BY FS_Interval
  <2>. QED BY <2>1, FS_Subset, Zenon
<1>2. S \cap (1..(n + 1)) = IF n + 1 \in S THEN T \cup {n + 1} ELSE T
  OBVIOUS
<1>. HIDE DEF T
<1>3. Cardinality(T) \in Nat /\ Cardinality(T \cup {n + 1}) = Cardinality(T) + 1
  BY <1>1, FS_AddElement, FS_CardinalityType
<1>. QED BY <1>2, <1>3 DEF T

(* A finding more is an occurrence more of its own rule. *)
LEMMA OneMoreOccurrence ==
  ASSUME TypeOK, Reading, NEW rule \in RecordRules, Report(rule), NEW r
  PROVE  Occurrences(r)' = Occurrences(r) + (IF rule = r THEN 1 ELSE 0)
<1>. DEFINE hits == {k \in DOMAIN findings : findings[k].rule = r}
            hits2 == {k \in DOMAIN findings' : findings'[k].rule = r}
            n == Len(findings)
<1>1. n \in Nat /\ DOMAIN findings = 1..n /\ DOMAIN findings' = 1..(n + 1)
      /\ (\A k \in 1..n : findings'[k] = findings[k])
      /\ findings'[n + 1].rule = rule
  <2>1. findings \in Seq(FindingType) /\ findings' \in Seq(FindingType) /\ Len(findings') = n + 1
    BY ReportType DEF TypeOK
  <2>2. findings'[n + 1] = Finding(rule, idx + 1)
    BY ReportType
  <2>3. findings'[n + 1].rule = rule
    BY <2>2 DEF Finding
  <2>4. \A k \in 1..n : findings'[k] = findings[k]
    BY ReportType
  <2>. QED BY <2>1, <2>3, <2>4
<1>2. hits = hits2 \cap (1..n) /\ hits2 = hits2 \cap (1..(n + 1))
  BY <1>1
<1>3. n + 1 \in hits2 <=> rule = r
  BY <1>1
<1>. HIDE DEF hits, hits2
<1>4. Cardinality(hits2 \cap (1..(n + 1)))
        = Cardinality(hits2 \cap (1..n)) + (IF n + 1 \in hits2 THEN 1 ELSE 0)
  BY <1>1, CountUpto
<1>5. Occurrences(r) = Cardinality(hits) /\ Occurrences(r)' = Cardinality(hits2)
  BY DEF Occurrences, hits, hits2
<1>. QED BY <1>2, <1>3, <1>4, <1>5

(* Findings about the file are no occurrences of a rule about records. *)
LEMMA SameOccurrences ==
  ASSUME TypeOK, TypeOK', ReadsNone, NEW r \in RecordRules
  PROVE  Occurrences(r)' = Occurrences(r)
<1>1. DOMAIN findings = 1..Len(findings) /\ DOMAIN findings' = 1..Len(findings')
      /\ Len(findings) \in Nat /\ Len(findings') \in Nat
  BY DEF TypeOK
<1>2. \A k \in DOMAIN findings' :
         IF k \in DOMAIN findings THEN findings'[k] = findings[k]
         ELSE findings'[k].rule \in FileRules
  BY <1>1 DEF ReadsNone, AboutFile
<1>3. DOMAIN findings \subseteq DOMAIN findings'
  BY <1>1 DEF ReadsNone
<1>4. r \notin FileRules
  BY DEF RecordRules, FileRules
<1>5. {k \in DOMAIN findings' : findings'[k].rule = r}
        = {k \in DOMAIN findings : findings[k].rule = r}
  BY <1>2, <1>3, <1>4
<1>. QED BY <1>5 DEF Occurrences

(***************************************************************************)
(* The counters and the findings keep account of the records read so far;  *)
(* the result is made of them when all have been read.                     *)
(***************************************************************************)
Accounts ==
  /\ \A name \in VariantNames :
       variantCounts[name] = Cardinality(Received(name) \cap (1..idx))
  /\ \A rule \in RecordRules : Occurrences(rule) = Cardinality(Refused(rule) \cap (1..idx))

ResultSays ==
  pc = "done" =>
    /\ idx = Len(call.data)
    /\ result.unknownTypes = Occurrences("UNKNOWN-RECORD-TYPE")
    /\ result.unknownPolarities = Occurrences("UNKNOWN-POLARITY")
    /\ result.recordCount = Len(call.data) - (IF call.partialTail THEN 1 ELSE 0)

LEMMA ResultSaysCorrect == Spec => []ResultSays
<1>1. Init => ResultSays
  BY DEF Init, ResultSays
<1>2. TypeOK /\ TypeOK' /\ ResultSays /\ [Next]_vars => ResultSays'
  <2>. SUFFICES ASSUME TypeOK, TypeOK', ResultSays, [Next]_vars PROVE ResultSays'
    OBVIOUS
  <2>1. CASE Reconcile
    <3>1. /\ idx' = Len(call.data) /\ call' = call
          /\ result' = BankingResult(findings')
      BY <2>1 DEF Reconcile
    <3>2. ReadsNone
      BY <2>1, ReconcileFindings DEF Reconcile, ReadsNone
    <3>3. \A rule \in RecordRules : Occurrences(rule)' = Occurrences(rule)
      BY <3>2, SameOccurrences
    <3>. QED BY <3>1, <3>3 DEF ResultSays, BankingResult, RecordRules
  <2>2. CASE ReadRecord \/ RefuseZeroLength \/ CheckProfile
    <3>1. pc' # "done"
      BY <2>2 DEF ReadRecord, Reading, Advance, UnknownRecordType, PostDetail,
                  OverflowPanic, UnknownPolarity, DirtyDetail, ReportDetail,
                  ReadTrailer, OtherVariant, RefuseZeroLength, CheckProfile
    <3>. QED BY <3>1 DEF ResultSays
  <2>3. CASE UNCHANGED vars
    BY <2>3 DEF vars, ResultSays, Occurrences
  <2>. QED BY <2>1, <2>2, <2>3 DEF Next, Terminated
<1>. QED BY <1>1, <1>2, TypeCorrect, PTL DEF Spec

LEMMA AccountsKept == Spec => []Accounts
<1>1. Init => Accounts
  <2>. SUFFICES ASSUME Init PROVE Accounts
    OBVIOUS
  <2>1. idx = 0 /\ findings = <<>> /\ \A name \in VariantNames : variantCounts[name] = 0
    BY DEF Init
  <2>2. \A S : S \cap (1..idx) = {}
    BY <2>1
  <2>3. \A rule : Occurrences(rule) = Cardinality({})
    BY <2>1 DEF Occurrences
  <2>. QED BY <2>1, <2>2, <2>3, FS_EmptySet DEF Accounts
<1>2. TypeOK /\ TypeOK' /\ Accounts /\ [Next]_vars => Accounts'
  <2>. SUFFICES ASSUME TypeOK, TypeOK', Accounts, [Next]_vars PROVE Accounts'
    OBVIOUS
  <2>1. CASE ReadsNone
    <3>1. /\ \A name : Received(name)' = Received(name)
          /\ \A rule : Refused(rule)' = Refused(rule)
          /\ idx' = idx /\ variantCounts' = variantCounts
      BY <2>1 DEF ReadsNone, Received, Refused
    <3>2. \A rule \in RecordRules : Occurrences(rule)' = Occurrences(rule)
      BY <2>1, SameOccurrences
    <3>. QED BY <3>1, <3>2 DEF Accounts
  <2>2. CASE ReadsOne
    <3>1. /\ \A name : Received(name)' = Received(name)
          /\ \A rule : Refused(rule)' = Refused(rule)
          /\ idx' = idx + 1 /\ idx \in Nat /\ Rec = call.data[idx + 1]
          /\ idx + 1 \in DOMAIN call.data /\ Reading
      BY <2>2, RecType DEF ReadsOne, Received, Refused, Rec
    <3>2. \A S : Cardinality(S \cap (1..(idx + 1)))
                  = Cardinality(S \cap (1..idx)) + (IF idx + 1 \in S THEN 1 ELSE 0)
      BY <3>1, CountUpto
    <3>3. ASSUME NEW name \in VariantNames
          PROVE  variantCounts'[name] = Cardinality(Received(name) \cap (1..(idx + 1)))
      <4>1. idx + 1 \in Received(name) <=> IsRouted(Rec) /\ VariantOf(Rec) = name
        BY <3>1 DEF Received
      <4>2. variantCounts'[name]
              = variantCounts[name] + (IF IsRouted(Rec) /\ VariantOf(Rec) = name THEN 1 ELSE 0)
        <5>1. variantCounts \in [VariantNames -> Nat]
          BY DEF TypeOK
        <5>2. CASE IsRouted(Rec)
          BY <2>2, <5>1, <5>2, VariantDeclared DEF ReadsOne, CountVariant
        <5>3. CASE ~IsRouted(Rec)
          BY <2>2, <5>1, <5>3 DEF ReadsOne
        <5>. QED BY <5>2, <5>3
      <4>. QED BY <3>2, <4>1, <4>2 DEF Accounts
    <3>4. ASSUME NEW rule \in RecordRules
          PROVE  Occurrences(rule)' = Cardinality(Refused(rule) \cap (1..(idx + 1)))
      <4>1. idx + 1 \in Refused(rule) <=> Unpostable(Rec) /\ RuleFor(Rec) = rule
        BY <3>1 DEF Refused
      <4>2. Occurrences(rule)'
              = Occurrences(rule) + (IF Unpostable(Rec) /\ RuleFor(Rec) = rule THEN 1 ELSE 0)
        <5>1. CASE Unpostable(Rec)
          <6>1. Report(RuleFor(Rec)) /\ RuleFor(Rec) \in RecordRules
            BY <2>2, <5>1 DEF ReadsOne, RuleFor, RecordRules
          <6>. QED BY <3>1, <5>1, <6>1, OneMoreOccurrence
        <5>2. CASE ~Unpostable(Rec)
          <6>1. findings' = findings
            BY <2>2, <5>2 DEF ReadsOne
          <6>2. Occurrences(rule)' = Occurrences(rule) /\ Occurrences(rule) \in Nat
            BY <6>1, OccurrencesType DEF Occurrences
          <6>. QED BY <5>2, <6>2
        <5>. QED BY <5>1, <5>2
      <4>. QED BY <3>2, <4>1, <4>2 DEF Accounts
    <3>. QED BY <3>1, <3>3, <3>4 DEF Accounts
  <2>. QED BY <2>1, <2>2, ReadOrNot
<1>. QED BY <1>1, <1>2, TypeCorrect, PTL DEF Spec

(* The casefile accounts for every chunk of the file, whichever variants   *)
(* share a discriminator or a name and whatever else a record was blamed   *)
(* for.                                                                    *)
THEOREM FileAccountedFor == Spec => []CasefileAccountsForFile
<1>1. TypeOK /\ Accounts /\ ResultSays => CasefileAccountsForFile
  <2>. SUFFICES ASSUME TypeOK, Accounts, ResultSays, pc = "done"
               PROVE  CasefileAccountsForFile
    BY DEF CasefileAccountsForFile
  <2>1. Len(call.data) \in Nat /\ DOMAIN call.data = 1..Len(call.data)
    BY ProfileAssumption DEF TypeOK
  <2>2. idx = Len(call.data)
    BY DEF ResultSays
  <2>3. /\ \A name : Received(name) \cap (1..idx) = Received(name)
        /\ \A rule : Refused(rule) \cap (1..idx) = Refused(rule)
    BY <2>1, <2>2 DEF Received, Refused
  <2>4. \A rule \in RecordRules : Occurrences(rule) = Cardinality(Refused(rule))
    BY <2>3 DEF Accounts
  <2>5. \A name \in VariantNames : variantCounts[name] = Cardinality(Received(name))
    BY <2>3 DEF Accounts
  <2>6. /\ result.unknownTypes = Cardinality(Refused("UNKNOWN-RECORD-TYPE"))
        /\ result.unknownPolarities = Cardinality(Refused("UNKNOWN-POLARITY"))
    BY <2>4 DEF ResultSays, RecordRules
  <2>7. Len(call.data) = result.recordCount + (IF call.partialTail THEN 1 ELSE 0)
    <3>1. result.recordCount = Len(call.data) - (IF call.partialTail THEN 1 ELSE 0)
      BY DEF ResultSays
    <3>2. CASE call.partialTail
      BY <2>1, <3>1, <3>2
    <3>3. CASE ~call.partialTail
      BY <2>1, <3>1, <3>3
    <3>. QED BY <3>2, <3>3
  <2>. QED BY <2>5, <2>6, <2>7 DEF CasefileAccountsForFile
<1>. QED BY <1>1, TypeCorrect, AccountsKept, ResultSaysCorrect, PTL
-----------------------------------------------------------------------------
(***************************************************************************)
(* BankingCourt adds up a set of records, in no order. Lemmas about such a *)
(* sum: it exists, it is unique, and any one record may be counted first.  *)
(***************************************************************************)
FirstOf(S) == CHOOSE x \in S : TRUE

SumStep(d, G, S) ==
  IF S = {} THEN 0 ELSE d[FirstOf(S)].amount + G[S \ {FirstOf(S)}]

SumsOf(d, U, G) == \A S \in SUBSET U : G[S] = SumStep(d, G, S)

Adding(d, U, G) ==
  /\ IsFiniteSet(U) /\ \A x \in U : d[x].amount \in Int
  /\ G \in [SUBSET U -> Int] /\ SumsOf(d, U, G)

AnyOrder(d, U, G) == \A S \in SUBSET U : \A x \in S : G[S] = d[x].amount + G[S \ {x}]

Agree(U, G, H) == \A S \in SUBSET U : G[S] = H[S]

SameAmounts(d, e, U) == \A x \in U : e[x].amount = d[x].amount

LEMMA LeastIn ==
  ASSUME NEW S, S \subseteq Nat, S # {}
  PROVE  \E k \in S : \A j \in S : k <= j
<1>1. PICK k \in S : \A j \in S : ~(<<j, k>> \in OpToRel(<, Nat))
  BY NatLessThanWellFounded, WFMin
<1>2. ASSUME NEW j \in S PROVE k <= j
  <2>1. SUFFICES ASSUME j < k PROVE FALSE
    OBVIOUS
  <2>2. <<j, k>> \in Nat \X Nat /\ <<j, k>>[1] < <<j, k>>[2]
    BY <2>1
  <2>. QED BY <1>1, <2>2, Zenon DEF OpToRel
<1>. QED BY <1>2

LEMMA Without ==
  ASSUME NEW U, IsFiniteSet(U), NEW S \in SUBSET U, NEW x \in S
  PROVE  /\ IsFiniteSet(S) /\ Cardinality(S) \in Nat \ {0}
         /\ S \ {x} \in SUBSET U /\ IsFiniteSet(S \ {x})
         /\ Cardinality(S \ {x}) = Cardinality(S) - 1
<1>1. IsFiniteSet(S)
  BY FS_Subset
<1>2. Cardinality(S \ {x}) = Cardinality(S) - 1 /\ IsFiniteSet(S \ {x})
  BY <1>1, FS_RemoveElement
<1>3. Cardinality(S) \in Nat /\ Cardinality(S \ {x}) \in Nat
  BY <1>1, <1>2, FS_CardinalityType
<1>. QED BY <1>1, <1>2, <1>3

LEMMA FirstIsIn ==
  ASSUME NEW S, S # {}
  PROVE  FirstOf(S) \in S
BY DEF FirstOf

LEMMA SumExists ==
  ASSUME NEW d, NEW U, IsFiniteSet(U), \A x \in U : d[x].amount \in Int
  PROVE  \E G \in [SUBSET U -> Int] : SumsOf(d, U, G)
<1>. DEFINE Upto(G, m) == \A S \in SUBSET U : Cardinality(S) <= m => G[S] = SumStep(d, G, S)
            open == {m \in Nat : ~\E G \in [SUBSET U -> Int] : Upto(G, m)}
<1>1. \A S \in SUBSET U : IsFiniteSet(S) /\ Cardinality(S) \in Nat /\ (Cardinality(S) = 0 <=> S = {})
  BY FS_Subset, FS_CardinalityType, FS_EmptySet
<1>2. open = {}
  <2>. SUFFICES ASSUME open # {} PROVE FALSE
    OBVIOUS
  <2>1. PICK m \in open : \A j \in open : m <= j
    <3>1. open \subseteq Nat
      OBVIOUS
    <3>. HIDE DEF open
    <3>. QED BY <3>1, LeastIn
  <2>2. m # 0
    <3>. DEFINE Z == [S \in SUBSET U |-> 0]
    <3>1. Z \in [SUBSET U -> Int]
      OBVIOUS
    <3>2. \A S \in SUBSET U : Cardinality(S) <= 0 => S = {}
      BY <1>1
    <3>3. \A S \in SUBSET U : Z[S] = 0
      OBVIOUS
    <3>. HIDE DEF Z
    <3>4. Upto(Z, 0)
      BY <3>2, <3>3 DEF SumStep
    <3>. QED BY <2>1, <3>1, <3>4
  <2>3. m \in Nat /\ m - 1 \in Nat /\ ~(m <= m - 1)
    BY <2>1, <2>2
  <2>4. PICK G \in [SUBSET U -> Int] : Upto(G, m - 1)
    <3>1. m - 1 \notin open
      <4>. HIDE DEF open
      <4>. QED BY <2>1, <2>3
    <3>. QED BY <2>3, <3>1
  <2>. DEFINE H == [S \in SUBSET U |-> SumStep(d, G, S)]
  <2>5. \A S \in SUBSET U : H[S] = SumStep(d, G, S)
    OBVIOUS
  <2>6. H \in [SUBSET U -> Int]
    <3>1. ASSUME NEW S \in SUBSET U PROVE SumStep(d, G, S) \in Int
      <4>1. CASE S = {}
        BY <4>1 DEF SumStep
      <4>2. CASE S # {}
        <5>1. FirstOf(S) \in U /\ S \ {FirstOf(S)} \in SUBSET U
          BY <4>2, FirstIsIn
        <5>2. d[FirstOf(S)].amount \in Int /\ G[S \ {FirstOf(S)}] \in Int
          BY <5>1
        <5>. QED BY <4>2, <5>2 DEF SumStep
      <4>. QED BY <4>1, <4>2
    <3>. QED BY <3>1
  <2>. HIDE DEF H
  <2>7. ASSUME NEW S \in SUBSET U, Cardinality(S) <= m PROVE H[S] = SumStep(d, H, S)
    <3>1. CASE S = {}
      BY <2>5, <3>1 DEF SumStep
    <3>2. CASE S # {}
      <4>. DEFINE T == S \ {FirstOf(S)}
      <4>1. T \in SUBSET U /\ Cardinality(T) = Cardinality(S) - 1 /\ Cardinality(S) \in Nat
        BY <3>2, FirstIsIn, Without
      <4>2. Cardinality(T) <= m - 1
        BY <2>3, <2>7, <4>1
      <4>3. G[T] = H[T]
        BY <2>4, <2>5, <4>1, <4>2
      <4>. HIDE DEF T
      <4>. QED BY <2>5, <3>2, <4>3 DEF SumStep, T
    <3>. QED BY <3>1, <3>2
  <2>8. Upto(H, m)
    BY <2>7
  <2>. QED BY <2>1, <2>6, <2>8
<1>3. Cardinality(U) \in Nat
  BY FS_CardinalityType
<1>4. PICK G \in [SUBSET U -> Int] : Upto(G, Cardinality(U))
  BY <1>2, <1>3
<1>5. \A S \in SUBSET U : Cardinality(S) <= Cardinality(U)
  BY FS_Subset
<1>6. SumsOf(d, U, G)
  BY <1>4, <1>5 DEF SumsOf
<1>. QED BY <1>6

(* Two ways of adding agree on a set on which the records do. *)
LEMMA SumUnique ==
  ASSUME NEW d, NEW e, NEW U, NEW V, IsFiniteSet(U), U \subseteq V,
         SameAmounts(d, e, U), NEW G, NEW H, SumsOf(d, V, G), SumsOf(e, U, H)
  PROVE  Agree(U, G, H)
<1>. DEFINE open == {Cardinality(S) : S \in {T \in SUBSET U : G[T] # H[T]}}
<1>1. \A S \in SUBSET U : IsFiniteSet(S) /\ Cardinality(S) \in Nat
  BY FS_Subset, FS_CardinalityType
<1>2. SUFFICES ASSUME open # {} PROVE FALSE
  BY DEF Agree
<1>3. PICK m \in open : \A j \in open : m <= j
  <2>1. open \subseteq Nat
    BY <1>1
  <2>. HIDE DEF open
  <2>. QED BY <1>2, <2>1, LeastIn
<1>4. PICK S \in SUBSET U : G[S] # H[S] /\ Cardinality(S) = m
  BY <1>3
<1>5. G[S] = SumStep(d, G, S) /\ H[S] = SumStep(e, H, S)
  BY <1>4 DEF SumsOf
<1>6. S # {}
  BY <1>4, <1>5 DEF SumStep
<1>. DEFINE x == FirstOf(S)
            T == S \ {x}
<1>7. x \in U /\ T \in SUBSET U /\ Cardinality(T) = Cardinality(S) - 1 /\ Cardinality(S) \in Nat
  BY <1>6, FirstIsIn, Without
<1>8. G[T] = H[T]
  <2>1. Cardinality(T) \notin open
    <3>. HIDE DEF open, T, x
    <3>. QED BY <1>3, <1>4, <1>7
  <2>. QED BY <1>7, <2>1
<1>9. G[S] = d[x].amount + G[T] /\ H[S] = e[x].amount + H[T]
  BY <1>5, <1>6 DEF SumStep
<1>10. e[x].amount = d[x].amount
  BY <1>7 DEF SameAmounts
<1>. HIDE DEF x, T
<1>. QED BY <1>4, <1>8, <1>9, <1>10

(* Any record may come first: the sum has no order. *)
LEMMA AnyFirst ==
  ASSUME NEW d, NEW U, NEW G, Adding(d, U, G)
  PROVE  AnyOrder(d, U, G)
<1>. DEFINE Bad(S) == \E x \in S : G[S] # d[x].amount + G[S \ {x}]
            open == {Cardinality(S) : S \in {T \in SUBSET U : Bad(T)}}
<1>0. /\ IsFiniteSet(U) /\ \A x \in U : d[x].amount \in Int
      /\ G \in [SUBSET U -> Int] /\ SumsOf(d, U, G)
  BY DEF Adding
<1>1. \A S \in SUBSET U : IsFiniteSet(S) /\ Cardinality(S) \in Nat
  BY <1>0, FS_Subset, FS_CardinalityType
<1>2. SUFFICES ASSUME open # {} PROVE FALSE
  BY DEF AnyOrder
<1>3. PICK m \in open : \A j \in open : m <= j
  <2>1. open \subseteq Nat
    BY <1>1
  <2>. HIDE DEF open
  <2>. QED BY <1>2, <2>1, LeastIn
<1>4. PICK S \in SUBSET U : Bad(S) /\ Cardinality(S) = m
  BY <1>3
<1>5. PICK x \in S : G[S] # d[x].amount + G[S \ {x}]
  BY <1>4
<1>. DEFINE y == FirstOf(S)
            Sx == S \ {x}
            Sy == S \ {y}
            Sxy == S \ {x, y}
<1>6. y \in S /\ G[S] = d[y].amount + G[Sy]
  BY <1>0, FirstIsIn DEF SumsOf, SumStep
<1>7. x # y
  BY <1>5, <1>6
<1>8. /\ Sx \in SUBSET U /\ Sy \in SUBSET U /\ Sxy \in SUBSET U
      /\ y \in Sx /\ x \in Sy /\ Sx \ {y} = Sxy /\ Sy \ {x} = Sxy
      /\ d[x].amount \in Int /\ d[y].amount \in Int
  BY <1>0, <1>6, <1>7
<1>9. /\ Cardinality(S) \in Nat
      /\ Cardinality(Sx) = Cardinality(S) - 1 /\ Cardinality(Sy) = Cardinality(S) - 1
  <2>1. \A z \in S : Cardinality(S) \in Nat /\ Cardinality(S \ {z}) = Cardinality(S) - 1
    BY <1>0, Without
  <2>. HIDE DEF y
  <2>. QED BY <1>6, <2>1
<1>. HIDE DEF y, Sx, Sy, Sxy
<1>10. ~Bad(Sx) /\ ~Bad(Sy)
  <2>1. Cardinality(Sx) \notin open /\ Cardinality(Sy) \notin open
    <3>. HIDE DEF open
    <3>. QED BY <1>3, <1>4, <1>9
  <2>. HIDE DEF Bad
  <2>. QED BY <1>8, <2>1
<1>11. G[Sx] = d[y].amount + G[Sxy] /\ G[Sy] = d[x].amount + G[Sxy]
  BY <1>8, <1>10
<1>12. G[Sxy] \in Int /\ G[Sx] \in Int /\ G[Sy] \in Int
  BY <1>0, <1>8
<1>. QED BY <1>5, <1>6, <1>8, <1>11, <1>12 DEF Sx

-----------------------------------------------------------------------------
(* The totals of the file so far, as the mathematics have them.            *)
Sides == {"debit", "credit"}

PostedIn(data) == {i \in DOMAIN data : IsDetail(data[i]) /\ SideOf(data[i]) \in Sides}

Upto(data, side, n) == {i \in 1..n : IsDetail(data[i]) /\ SideOf(data[i]) = side}

SumOf(data) ==
  CHOOSE G \in [SUBSET PostedIn(data) -> Int] : SumsOf(data, PostedIn(data), G)

Total(data, side, n) == SumOf(data)[Upto(data, side, n)]

LEMMA FileAdds ==
  ASSUME NEW data \in Seq(Records)
  PROVE  /\ IsFiniteSet(PostedIn(data))
         /\ \A i \in PostedIn(data) : data[i].amount \in Int
         /\ SumOf(data) \in [SUBSET PostedIn(data) -> Int]
         /\ SumsOf(data, PostedIn(data), SumOf(data))
         /\ Len(data) \in Nat /\ DOMAIN data = 1..Len(data)
         /\ \A side \in Sides : \A n \in 0..Len(data) : Upto(data, side, n) \in SUBSET PostedIn(data)
<1>1. Len(data) \in Nat /\ DOMAIN data = 1..Len(data)
  OBVIOUS
<1>2. IsFiniteSet(PostedIn(data))
  <2>1. IsFiniteSet(1..Len(data)) /\ PostedIn(data) \subseteq 1..Len(data)
    BY <1>1, FS_Interval DEF PostedIn
  <2>. QED BY <2>1, FS_Subset
<1>3. ASSUME NEW i \in PostedIn(data) PROVE data[i].amount \in Int
  <2>1. data[i] \in Records /\ data[i].amount # NoField
    BY DEF PostedIn, SideOf, Sides
  <2>. QED BY <2>1, ProfileAssumption
<1>4. \E G \in [SUBSET PostedIn(data) -> Int] : SumsOf(data, PostedIn(data), G)
  BY <1>2, <1>3, SumExists
<1>5. ASSUME NEW side \in Sides, NEW n \in 0..Len(data)
      PROVE  Upto(data, side, n) \in SUBSET PostedIn(data)
  BY <1>1 DEF Upto, PostedIn
<1>. QED BY <1>1, <1>2, <1>3, <1>4, <1>5 DEF SumOf

LEMMA TotalStarts ==
  ASSUME NEW data \in Seq(Records), NEW side \in Sides
  PROVE  Total(data, side, 0) = 0
<1>1. Upto(data, side, 0) = {}
  BY DEF Upto
<1>2. SumOf(data)[{}] = 0
  BY FileAdds DEF SumsOf, SumStep
<1>. QED BY <1>1, <1>2 DEF Total

LEMMA TotalType ==
  ASSUME NEW data \in Seq(Records), NEW side \in Sides, NEW n \in 0..Len(data)
  PROVE  Total(data, side, n) \in Int
<1>1. SumOf(data) \in [SUBSET PostedIn(data) -> Int] /\ Upto(data, side, n) \in SUBSET PostedIn(data)
  BY FileAdds
<1>. QED BY <1>1, Zenon DEF Total

LEMMA TotalStep ==
  ASSUME NEW data \in Seq(Records), NEW side \in Sides, NEW n \in Nat, n + 1 \in DOMAIN data
  PROVE  Total(data, side, n + 1)
           = IF IsDetail(data[n + 1]) /\ SideOf(data[n + 1]) = side
             THEN Total(data, side, n) + data[n + 1].amount
             ELSE Total(data, side, n)
<1>. DEFINE old == Upto(data, side, n)
            new == Upto(data, side, n + 1)
<1>1. n \in 0..Len(data) /\ n + 1 \in 0..Len(data)
  BY FileAdds
<1>2. CASE IsDetail(data[n + 1]) /\ SideOf(data[n + 1]) = side
  <2>1. n + 1 \in new /\ new \ {n + 1} = old
    BY <1>2 DEF Upto
  <2>2. new \in SUBSET PostedIn(data) /\ old \in SUBSET PostedIn(data)
    BY <1>1, FileAdds
  <2>. HIDE DEF old, new
  <2>3. SumOf(data)[new] = data[n + 1].amount + SumOf(data)[new \ {n + 1}]
    <3>. DEFINE G == SumOf(data)
                U == PostedIn(data)
    <3>1. Adding(data, U, G)
      BY FileAdds DEF Adding
    <3>. HIDE DEF G, U
    <3>2. AnyOrder(data, U, G)
      BY <3>1, AnyFirst
    <3>. QED BY <2>1, <2>2, <3>2, Zenon DEF G, U, AnyOrder
  <2>4. SumOf(data)[old] \in Int /\ data[n + 1].amount \in Int
    <3>1. n + 1 \in PostedIn(data)
      BY <2>1, <2>2
    <3>. QED BY <2>2, <3>1, FileAdds
  <2>5. SumOf(data)[new] = SumOf(data)[old] + data[n + 1].amount
    <3>1. SumOf(data)[new] = data[n + 1].amount + SumOf(data)[old]
      BY <2>1, <2>3, Zenon
    <3>2. \A a, b \in Int : a + b = b + a
      OBVIOUS
    <3>. QED BY <2>4, <3>1, <3>2, Zenon
  <2>. QED BY <1>2, <2>5 DEF Total, old, new
<1>3. CASE ~(IsDetail(data[n + 1]) /\ SideOf(data[n + 1]) = side)
  <2>1. new = old
    BY <1>3 DEF Upto
  <2>. QED BY <1>3, <2>1 DEF Total
<1>. QED BY <1>2, <1>3

(* BankingCourt speaks of records as the machine does. *)
LEMMA SameRecords ==
  /\ \A rec : Court!IsRouted(rec) = IsRouted(rec)
  /\ \A rec : Court!IsDetail(rec) = IsDetail(rec)
  /\ \A rec : Court!IsTrailer(rec) = IsTrailer(rec)
  /\ \A rec : Court!SideOf(rec) = SideOf(rec)
  /\ \A c : Court!AmountRole(c) = AmountRole(c)
  /\ \A S : Court!Cardinality(S) = Cardinality(S)
  /\ \A n : Court!InWidth(n) = Fits(n)
<1>1. \A rec : Court!RowsFor(rec) = RowsFor(rec)
  BY DEF Court!RowsFor, RowsFor
<1>2. \A rec : Court!IsRouted(rec) = IsRouted(rec)
  BY <1>1 DEF Court!IsRouted, IsRouted
<1>3. \A rec : Court!VariantOf(rec) = VariantOf(rec)
  BY <1>1, Zenon DEF Court!VariantOf, VariantOf
<1>4. \A rec : Court!IsDetail(rec) = IsDetail(rec)
  BY <1>2, <1>3, Zenon DEF Court!IsDetail, IsDetail
<1>5. \A rec : Court!IsTrailer(rec) = IsTrailer(rec)
  BY <1>2, <1>3, Zenon DEF Court!IsTrailer, IsTrailer
<1>6. \A rec : Court!SideOf(rec) = SideOf(rec)
  BY Zenon DEF Court!SideOf, SideOf
<1>7. \A c : Court!AmountRole(c) = AmountRole(c)
  BY Zenon DEF Court!AmountRole, AmountRole
<1>8. \A S : Court!Cardinality(S) = Cardinality(S)
  BY Zenon DEF Court!Cardinality, Cardinality
<1>9. \A n : Court!InWidth(n) = Fits(n)
  BY Zenon DEF Court!InWidth, Fits
<1>. QED BY <1>2, <1>4, <1>5, <1>6, <1>7, <1>8, <1>9

LEMMA CourtPosted ==
  ASSUME NEW data, NEW side
  PROVE  Court!Posted(data, side) = {i \in DOMAIN data : IsDetail(data[i]) /\ SideOf(data[i]) = side}
BY SameRecords, Zenon DEF Court!Posted, Court!Details

(* The fold of BankingCourt's TrueTotal is a sum as above. *)
LEMMA FoldIsSum ==
  ASSUME NEW d, NEW side, IsFiniteSet(Court!Posted(d, side)),
         \A x \in Court!Posted(d, side) : d[x].amount \in Int
  PROVE  \E H : SumsOf(d, Court!Posted(d, side), H)
                  /\ Court!TrueTotal(d, side) = H[Court!Posted(d, side)]
<1>. DEFINE U == Court!Posted(d, side)
            fold == CHOOSE it : it = [s \in SUBSET U |->
                      IF s = {} THEN 0
                      ELSE d[CHOOSE x \in s : TRUE].amount + it[s \ {CHOOSE x \in s : TRUE}]]
<1>1. Court!TrueTotal(d, side) = fold[U]
  BY DEF Court!TrueTotal, Court!MapThenSumSet, Court!MapThenFoldSet
<1>. HIDE DEF U
<1>2. PICK G \in [SUBSET U -> Int] : SumsOf(d, U, G)
  BY SumExists DEF U
<1>3. G = [s \in SUBSET U |-> SumStep(d, G, s)]
  BY <1>2 DEF SumsOf
<1>4. fold = CHOOSE it : it = [s \in SUBSET U |-> SumStep(d, it, s)]
  BY DEF SumStep, FirstOf
<1>. HIDE DEF fold
<1>5. fold = [s \in SUBSET U |-> SumStep(d, fold, s)]
  BY <1>3, <1>4, Zenon
<1>6. \A s \in SUBSET U : fold[s] = SumStep(d, fold, s)
  BY <1>5, Zenon
<1>. QED BY <1>1, <1>6 DEF SumsOf, U

LEMMA CourtTotal ==
  ASSUME NEW data \in Seq(Records), NEW side \in Sides, NEW d, NEW n \in 0..Len(data),
         DOMAIN d = 1..n, \A i \in 1..n : d[i] = data[i]
  PROVE  Court!TrueTotal(d, side) = Total(data, side, n)
<1>. DEFINE U == Court!Posted(d, side)
<1>1. U = Upto(data, side, n)
  BY CourtPosted DEF Upto
<1>2. U \in SUBSET PostedIn(data) /\ IsFiniteSet(PostedIn(data))
  <2>1. Upto(data, side, n) \in SUBSET PostedIn(data) /\ IsFiniteSet(PostedIn(data))
    BY FileAdds
  <2>. HIDE DEF U
  <2>. QED BY <1>1, <2>1, Zenon
<1>3. SameAmounts(data, d, U)
  BY <1>1 DEF Upto, SameAmounts
<1>4. \A x \in U : data[x].amount \in Int
  BY <1>2, FileAdds
<1>5. IsFiniteSet(U)
  BY <1>2, FS_Subset
<1>6. PICK H : SumsOf(d, U, H) /\ Court!TrueTotal(d, side) = H[U]
  BY <1>3, <1>4, <1>5, FoldIsSum DEF SameAmounts
<1>. HIDE DEF U
<1>. DEFINE G == SumOf(data)
            V == PostedIn(data)
<1>7. SumsOf(data, V, G) /\ U \subseteq V
  BY <1>2, FileAdds
<1>. HIDE DEF G, V
<1>8. Agree(U, G, H)
  BY <1>3, <1>5, <1>6, <1>7, SumUnique
<1>. QED BY <1>1, <1>6, <1>8 DEF Total, G, Agree

-----------------------------------------------------------------------------
(***************************************************************************)
(* The refinement. The observed totals are the true ones up to a multiple  *)
(* of the width of cents; in a build that checks they are the true ones,   *)
(* and none has left the range yet.                                        *)
(***************************************************************************)
Congruent(a, b) == \E q \in Int : a = b + q * Width

LEMMA Remainder ==
  ASSUME NEW n \in Int
  PROVE  /\ n \div Width \in Int /\ (n \div Width) * Width \in Int
         /\ n % Width = n - (n \div Width) * Width
<1>1. Width \in Int /\ Width > 0
  BY RangeAssumption DEF Width
<1>. QED BY <1>1, SMT

LEMMA WrapCongruent ==
  ASSUME NEW n \in Int
  PROVE  Congruent(Wrap(n), n)
<1>. DEFINE a == n - MinCents
            q == a \div Width
<1>1. Width \in Int /\ Width > 0 /\ MinCents \in Int /\ a \in Int
  BY RangeAssumption DEF Width
<1>. HIDE DEF a
<1>2. q \in Int /\ a % Width = a - q * Width /\ q * Width \in Int
  BY <1>1, SMT
<1>. HIDE DEF q
<1>3. Wrap(n) = n - q * Width
  BY <1>1, <1>2 DEF Wrap, a
<1>4. -q \in Int /\ (-q) * Width = -(q * Width)
  BY <1>1, <1>2, SMT
<1>5. n - q * Width = n + (-q) * Width
  BY <1>2, <1>4
<1>. QED BY <1>3, <1>4, <1>5 DEF Congruent

LEMMA CongruentPlus ==
  ASSUME NEW a \in Int, NEW b \in Int, NEW c \in Int, NEW x \in Int,
         Congruent(a, b), Congruent(c, a + x)
  PROVE  Congruent(c, b + x)
<1>1. PICK p \in Int : a = b + p * Width
  BY DEF Congruent
<1>2. PICK q \in Int : c = (a + x) + q * Width
  BY DEF Congruent
<1>3. Width \in Int
  BY RangeAssumption DEF Width
<1>4. (p + q) * Width = p * Width + q * Width /\ p * Width \in Int /\ q * Width \in Int
  BY <1>3, SMT
<1>5. c = (b + x) + (p + q) * Width
  BY <1>1, <1>2, <1>4
<1>. QED BY <1>5 DEF Congruent

(* Of the numbers of the range, the remainder tells each from all others.  *)
LEMMA RemainderDecides ==
  ASSUME NEW a \in Int, NEW b \in Int, NEW t \in Int,
         Fits(a), Fits(b), Congruent(b, t)
  PROVE  a = b <=> (a - t) % Width = 0
<1>1. Width \in Int /\ Width > 0 /\ Width = MaxCents - MinCents + 1 /\ MinCents \in Int /\ MaxCents \in Int
  BY RangeAssumption DEF Width
<1>2. PICK q \in Int : b = t + q * Width
  BY DEF Congruent
<1>3. q * Width \in Int
  BY <1>1, SMT
<1>4. ASSUME a = b PROVE (a - t) % Width = 0
  <2>1. a - t = q * Width
    BY <1>2, <1>3, <1>4
  <2>2. (q * Width) % Width = 0
    BY <1>1, SMT
  <2>. QED BY <2>1, <2>2
<1>5. ASSUME (a - t) % Width = 0 PROVE a = b
  <2>. DEFINE p == (a - t) \div Width
  <2>1. p \in Int /\ a - t = p * Width
    <3>. DEFINE d == a - t
    <3>1. d \in Int /\ d % Width = 0
      BY <1>5
    <3>. HIDE DEF d
    <3>2. d \div Width \in Int /\ (d \div Width) * Width \in Int /\ d = (d \div Width) * Width
      BY <3>1, Remainder
    <3>. QED BY <3>2 DEF d
  <2>. HIDE DEF p
  <2>2. p * Width \in Int /\ (p - q) * Width = p * Width - q * Width
    BY <1>1, <2>1, SMT
  <2>3. a - b = (p - q) * Width
    BY <1>2, <1>3, <2>1, <2>2
  <2>4. -Width < a - b /\ a - b < Width
    BY <1>1 DEF Fits
  <2>5. p - q = 0
    <3>. DEFINE r == p - q
    <3>1. r \in Int /\ r * Width < Width /\ -Width < r * Width
      BY <2>1, <2>3, <2>4
    <3>. HIDE DEF r
    <3>2. CASE r >= 1
      <4>1. r * Width >= Width
        BY <1>1, <3>1, <3>2, SMT
      <4>. QED BY <1>1, <3>1, <4>1
    <3>3. CASE r <= -1
      <4>1. r * Width <= -Width
        BY <1>1, <3>1, <3>3, SMT
      <4>. QED BY <1>1, <3>1, <4>1
    <3>. QED BY <3>1, <3>2, <3>3 DEF r
  <2>6. (p - q) * Width = 0
    BY <1>1, <2>5, SMT
  <2>. QED BY <2>3, <2>6
<1>. QED BY <1>4, <1>5

Ledger ==
  /\ \A side \in Sides : Congruent(obs[side], Total(call.data, side, idx))
  /\ OverflowChecks => \A side \in Sides :
       /\ obs[side] = Total(call.data, side, idx)
       /\ \A m \in 0..idx : Fits(Total(call.data, side, m))
  /\ pc = "panicked" =>
       /\ OverflowChecks /\ idx + 1 \in DOMAIN call.data
       /\ \E side \in Sides : ~Fits(Total(call.data, side, idx + 1))

Admitted ==
  /\ pc = "error" => call.recordLen = 0
  /\ pc \in {"reading", "done", "panicked"} => call.recordLen > 0

(* Until the end, a finding is about a record read or about the profile.   *)
Explained ==
  /\ pc = "start" => findings = <<>>
  /\ pc = "reading" /\ AmountRole(call) = "Amount" =>
       \A k \in DOMAIN findings : findings[k].record \in 1..idx

LEMMA CallData ==
  ASSUME TypeOK
  PROVE  /\ call.data \in Seq(Records) /\ Len(call.data) \in Nat
         /\ DOMAIN call.data = 1..Len(call.data)
         /\ idx \in Nat /\ idx \in 0..Len(call.data)
         /\ call \in Calls /\ call.recordLen \in Nat /\ call.build \in {"release", "debug"}
<1>1. call \in Calls /\ call.data \in Seq(Records) /\ call.recordLen \in Nat
      /\ call.build \in {"release", "debug"}
  BY ProfileAssumption DEF TypeOK
<1>2. Len(call.data) \in Nat /\ DOMAIN call.data = 1..Len(call.data)
  BY <1>1
<1>. QED BY <1>1, <1>2 DEF TypeOK

LEMMA InitLedger == Init => Ledger
<1>. SUFFICES ASSUME Init PROVE Ledger
  OBVIOUS
<1>1. call.data \in Seq(Records) /\ idx = 0 /\ pc = "start" /\ \A side \in Sides : obs[side] = 0
  BY ProfileAssumption DEF Init, Sides, Totals
<1>2. \A side \in Sides : Total(call.data, side, 0) = 0
  BY <1>1, TotalStarts
<1>3. Fits(0) /\ Congruent(0, 0)
  <2>1. Width \in Int /\ Fits(0)
    BY RangeAssumption DEF Width, Fits
  <2>2. 0 * Width = 0 /\ 0 = 0 + 0
    BY <2>1, SMT
  <2>. QED BY <2>1, <2>2 DEF Congruent
<1>4. \A m \in 0..idx : m = 0
  BY <1>1
<1>. QED BY <1>1, <1>2, <1>3, <1>4 DEF Ledger

(* A record that posts nothing leaves every total where it is. *)
LEMMA QuietLedger ==
  ASSUME TypeOK, Ledger, Reading, idx' = idx + 1, call' = call, pc' = pc,
         \A side \in Sides : obs'[side] = obs[side] /\ ~(IsDetail(Rec) /\ SideOf(Rec) = side)
  PROVE  Ledger'
<1>1. idx \in Nat /\ idx + 1 \in DOMAIN call.data /\ call.data \in Seq(Records) /\ Rec = call.data[idx + 1]
  BY CallData, RecType DEF Rec
<1>2. \A side \in Sides : Total(call.data, side, idx + 1) = Total(call.data, side, idx)
  BY <1>1, TotalStep
<1>3. \A m \in 0..(idx + 1) : m \in 0..idx \/ m = idx + 1
  BY <1>1
<1>4. idx \in 0..idx /\ pc # "panicked"
  BY <1>1 DEF Reading
<1>. QED BY <1>2, <1>3, <1>4 DEF Ledger, OverflowChecks

LEMMA PostLedger ==
  ASSUME TypeOK, Ledger, NEW side \in Sides, PostDetail(side)
  PROVE  Ledger'
<1>1. /\ Reading /\ IsDetail(Rec) /\ SideOf(Rec) = side
      /\ OverflowChecks => Fits(obs[side] + Rec.amount)
      /\ obs' = [obs EXCEPT !["count"] = @ + 1, ![side] = Wrap(@ + Rec.amount)]
      /\ idx' = idx + 1 /\ call' = call /\ pc' = pc
  BY DEF PostDetail, Advance
<1>2. /\ idx \in Nat /\ idx + 1 \in DOMAIN call.data /\ call.data \in Seq(Records)
      /\ Rec = call.data[idx + 1] /\ idx \in 0..Len(call.data)
  BY <1>1, CallData, RecType DEF Rec
<1>3. Rec.amount \in Int
  <2>1. Rec.amount \in Int \cup {NoField}
    BY <1>1, RecType
  <2>. QED BY <1>1, <2>1 DEF SideOf, Sides
<1>. DEFINE x == Rec.amount
            before(s) == Total(call.data, s, idx)
            after(s) == Total(call.data, s, idx + 1)
<1>4. \A s \in Sides : before(s) \in Int /\ after(s) = IF s = side THEN before(s) + x ELSE before(s)
  BY <1>1, <1>2, TotalStep, TotalType
<1>5. \A s \in Sides : obs[s] \in Int /\ obs'[s] = IF s = side THEN Wrap(obs[s] + x) ELSE obs[s]
  <2>1. obs \in [Totals -> Int] /\ \A s \in Sides : s \in Totals /\ s # "count"
    BY DEF TypeOK, Sides, Totals
  <2>. QED BY <1>1, <2>1
<1>. HIDE DEF x
<1>6. ASSUME NEW s \in Sides PROVE Congruent(obs'[s], after(s))
  <2>1. Congruent(obs[s], before(s))
    BY DEF Ledger
  <2>2. CASE s = side
    <3>1. obs[s] + x \in Int /\ x \in Int
      BY <1>3, <1>5 DEF x
    <3>2. Congruent(Wrap(obs[s] + x), obs[s] + x) /\ Wrap(obs[s] + x) \in Int
      BY <3>1, WrapCongruent, WrapFits
    <3>. HIDE DEF before, after
    <3>3. Congruent(Wrap(obs[s] + x), before(s) + x)
      BY <1>4, <1>5, <2>1, <3>1, <3>2, CongruentPlus
    <3>. QED BY <1>4, <1>5, <2>2, <3>3
  <2>3. CASE s # side
    BY <1>4, <1>5, <2>1, <2>3
  <2>. QED BY <2>2, <2>3
<1>7. ASSUME OverflowChecks, NEW s \in Sides
      PROVE  obs'[s] = after(s) /\ Fits(after(s))
  <2>1. obs[s] = before(s) /\ Fits(before(s))
    <3>1. idx \in 0..idx
      BY <1>2
    <3>. QED BY <1>7, <3>1 DEF Ledger
  <2>2. CASE s = side
    <3>1. Fits(obs[s] + x) /\ obs[s] + x \in Int
      BY <1>1, <1>3, <1>5, <1>7, <2>2 DEF x
    <3>2. Wrap(obs[s] + x) = obs[s] + x
      BY <3>1, WrapFits
    <3>. HIDE DEF before, after
    <3>. QED BY <1>4, <1>5, <2>1, <2>2, <3>1, <3>2
  <2>3. CASE s # side
    BY <1>4, <1>5, <2>1, <2>3
  <2>. QED BY <2>2, <2>3
<1>8. ASSUME OverflowChecks, NEW s \in Sides, NEW m \in 0..(idx + 1)
      PROVE  Fits(Total(call.data, s, m))
  <2>1. m \in 0..idx \/ m = idx + 1
    BY <1>2
  <2>2. CASE m \in 0..idx
    BY <1>8, <2>2 DEF Ledger
  <2>. QED BY <1>7, <1>8, <2>1, <2>2
<1>9. pc' # "panicked"
  BY <1>1 DEF Reading
<1>. QED BY <1>1, <1>6, <1>7, <1>8, <1>9 DEF Ledger, OverflowChecks

LEMMA PanicLedger ==
  ASSUME TypeOK, Ledger, NEW side \in Sides, OverflowPanic(side)
  PROVE  Ledger'
<1>1. /\ Reading /\ IsDetail(Rec) /\ SideOf(Rec) = side /\ OverflowChecks
      /\ ~Fits(obs[side] + Rec.amount)
      /\ obs' = obs /\ idx' = idx /\ call' = call
  BY DEF OverflowPanic
<1>2. /\ idx \in Nat /\ idx + 1 \in DOMAIN call.data /\ call.data \in Seq(Records)
      /\ Rec = call.data[idx + 1]
  BY <1>1, CallData, RecType DEF Rec
<1>3. Total(call.data, side, idx + 1) = Total(call.data, side, idx) + Rec.amount
  BY <1>1, <1>2, TotalStep
<1>4. obs[side] = Total(call.data, side, idx)
  BY <1>1 DEF Ledger
<1>5. ~Fits(Total(call.data, side, idx + 1))
  BY <1>1, <1>3, <1>4, Zenon
<1>. QED BY <1>1, <1>2, <1>5 DEF Ledger, OverflowChecks

LEMMA StepLedger == TypeOK /\ Ledger /\ [Next]_vars => Ledger'
<1>. SUFFICES ASSUME TypeOK, Ledger, [Next]_vars PROVE Ledger'
  OBVIOUS
<1>1. ASSUME NEW side \in Sides, PostDetail(side) \/ OverflowPanic(side) PROVE Ledger'
  BY <1>1, PostLedger, PanicLedger
<1>2. obs \in [Totals -> Int] /\ \A side \in Sides : side \in Totals /\ side # "count"
  BY DEF TypeOK, Sides, Totals
<1>3. ASSUME UnknownPolarity \/ DirtyDetail PROVE Ledger'
  <2>1. /\ Reading /\ idx' = idx + 1 /\ call' = call /\ pc' = pc
        /\ obs' = [obs EXCEPT !["count"] = @ + 1] /\ SideOf(Rec) \in {"unknown", "dirty"}
    BY <1>3 DEF UnknownPolarity, DirtyDetail, ReportDetail, Advance
  <2>2. \A side \in Sides : obs'[side] = obs[side] /\ ~(IsDetail(Rec) /\ SideOf(Rec) = side)
    BY <1>2, <2>1 DEF Sides
  <2>. QED BY <2>1, <2>2, QuietLedger
<1>4. ASSUME UnknownRecordType \/ ReadTrailer \/ OtherVariant PROVE Ledger'
  <2>1. /\ Reading /\ idx' = idx + 1 /\ call' = call /\ pc' = pc /\ obs' = obs /\ ~IsDetail(Rec)
    BY <1>4 DEF UnknownRecordType, ReadTrailer, OtherVariant, Advance, IsDetail, IsTrailer
  <2>. QED BY <2>1, QuietLedger
<1>5. ASSUME RefuseZeroLength \/ CheckProfile \/ Reconcile PROVE Ledger'
  <2>1. idx' = idx /\ call' = call /\ obs' = obs /\ pc' # "panicked"
    BY <1>5 DEF RefuseZeroLength, CheckProfile, Reconcile
  <2>. QED BY <2>1 DEF Ledger, OverflowChecks
<1>6. ASSUME UNCHANGED vars PROVE Ledger'
  BY <1>6 DEF vars, Ledger, OverflowChecks
<1>. QED BY <1>1, <1>3, <1>4, <1>5, <1>6 DEF Next, ReadRecord, Terminated, Sides

LEMMA StepAdmitted == TypeOK /\ Admitted /\ [Next]_vars => Admitted'
<1>. SUFFICES ASSUME TypeOK, Admitted, [Next]_vars PROVE Admitted'
  OBVIOUS
<1>1. CASE ReadRecord
  BY <1>1 DEF ReadRecord, Reading, Advance, UnknownRecordType, PostDetail, OverflowPanic,
     UnknownPolarity, DirtyDetail, ReportDetail, ReadTrailer, OtherVariant, Admitted
<1>2. CASE RefuseZeroLength \/ CheckProfile \/ Reconcile
  BY <1>2 DEF RefuseZeroLength, CheckProfile, Reconcile, Admitted
<1>3. CASE UNCHANGED vars
  BY <1>3 DEF vars, Admitted
<1>. QED BY <1>1, <1>2, <1>3 DEF Next, Terminated

LEMMA StepExplained == TypeOK /\ TypeOK' /\ Explained /\ [Next]_vars => Explained'
<1>. SUFFICES ASSUME TypeOK, TypeOK', Explained, [Next]_vars PROVE Explained'
  OBVIOUS
<1>1. CASE ReadRecord
  <2>1. pc = "reading" /\ call' = call /\ pc' # "start"
    BY <1>1 DEF ReadRecord, Reading, Advance, UnknownRecordType, PostDetail, OverflowPanic,
       UnknownPolarity, DirtyDetail, ReportDetail, ReadTrailer, OtherVariant
  <2>2. CASE ReadsOne
    <3>1. idx \in Nat /\ idx' = idx + 1 /\ \A i \in 1..idx : i \in 1..(idx + 1)
      BY <2>2, CallData DEF ReadsOne
    <3>2. CASE ~Unpostable(Rec)
      <4>1. findings' = findings
        BY <2>2, <3>2 DEF ReadsOne
      <4>. QED BY <2>1, <3>1, <4>1 DEF Explained
    <3>3. CASE Unpostable(Rec)
      <4>1. Report(RuleFor(Rec)) /\ RuleFor(Rec) \in RecordRules /\ Reading
        BY <2>2, <3>3 DEF ReadsOne, RuleFor, RecordRules
      <4>2. /\ Len(findings') = Len(findings) + 1
            /\ \A k \in 1..Len(findings) : findings'[k] = findings[k]
            /\ findings'[Len(findings) + 1] = Finding(RuleFor(Rec), idx + 1)
        BY <4>1, ReportType
      <4>3. findings'[Len(findings) + 1].record = idx + 1
        BY <4>2 DEF Finding
      <4>4. DOMAIN findings = 1..Len(findings) /\ DOMAIN findings' = 1..Len(findings') /\ Len(findings) \in Nat
        BY DEF TypeOK
      <4>5. \A k \in DOMAIN findings' : k \in DOMAIN findings \/ k = Len(findings) + 1
        BY <4>2, <4>4
      <4>6. idx + 1 \in 1..(idx + 1)
        BY <3>1
      <4>. QED BY <2>1, <3>1, <4>2, <4>3, <4>4, <4>5, <4>6 DEF Explained
    <3>. QED BY <3>2, <3>3
  <2>3. pc' = "panicked" \/ idx' = idx + 1
    BY <1>1 DEF ReadRecord, Reading, Advance, UnknownRecordType, PostDetail, OverflowPanic,
       UnknownPolarity, DirtyDetail, ReportDetail, ReadTrailer, OtherVariant
  <2>4. pc' = "panicked" \/ ReadsOne
    <3>1. idx \in Nat
      BY CallData
    <3>. QED BY <2>3, <3>1, ReadOrNot DEF ReadsNone
  <2>5. CASE pc' = "panicked"
    BY <2>5 DEF Explained
  <2>. QED BY <2>2, <2>4, <2>5
<1>2. CASE CheckProfile
  BY <1>2 DEF CheckProfile, Explained
<1>3. CASE RefuseZeroLength \/ Reconcile
  BY <1>3 DEF RefuseZeroLength, Reconcile, Explained
<1>4. CASE UNCHANGED vars
  BY <1>4 DEF vars, Explained
<1>. QED BY <1>1, <1>2, <1>3, <1>4 DEF Next, Terminated

(* Nothing was reported exactly when the profile calls the amount money    *)
(* and every record was routed and posted.                                 *)
LEMMA CleanExactly ==
  ASSUME TypeOK, Explained, ProfileReported, EveryRefusalReported,
         pc = "reading", idx = Len(call.data)
  PROVE  findings = <<>> <=> /\ AmountRole(call) = "Amount"
                             /\ \A i \in DOMAIN call.data : ~Unpostable(call.data[i])
<1>1. DOMAIN call.data = 1..idx
  BY CallData
<1>2. findings \in Seq(FindingType)
  BY DEF TypeOK
<1>3. ASSUME findings = <<>>
      PROVE  /\ AmountRole(call) = "Amount"
             /\ \A i \in DOMAIN call.data : ~Unpostable(call.data[i])
  BY <1>1, <1>3 DEF ProfileReported, EveryRefusalReported, Flagged
<1>4. ASSUME AmountRole(call) = "Amount", \A i \in DOMAIN call.data : ~Unpostable(call.data[i])
      PROVE  findings = <<>>
  <2>1. \A k \in DOMAIN findings : findings[k].record \in 1..idx
    BY <1>4 DEF Explained
  <2>2. \A i \in 1..idx : \A k \in DOMAIN findings : findings[k].record # i
    BY <1>1, <1>4 DEF EveryRefusalReported
  <2>3. DOMAIN findings = {}
    BY <2>1, <2>2
  <2>. QED BY <1>2, <2>3
<1>. QED BY <1>3, <1>4

LEMMA CourtDetails ==
  ASSUME NEW data
  PROVE  /\ Court!Details(data) = {i \in DOMAIN data : IsDetail(data[i])}
         /\ Court!Trailers(data) = {i \in DOMAIN data : IsTrailer(data[i])}
BY SameRecords, Zenon DEF Court!Details, Court!Trailers

(* Every detail has one of the two sides exactly when none is unpostable.  *)
LEMMA AllPosted ==
  ASSUME NEW data
  PROVE  (\A i \in DOMAIN data : ~Unpostable(data[i]))
           <=> /\ \A i \in DOMAIN data : Court!IsRouted(data[i])
               /\ Court!Details(data) = Court!Posted(data, "debit") \cup Court!Posted(data, "credit")
<1>1. \A rec : SideOf(rec) \in {"unknown", "dirty"} <=> SideOf(rec) \notin {"debit", "credit"}
  BY DEF SideOf
<1>2. \A rec : Unpostable(rec) <=> ~IsRouted(rec) \/ (IsDetail(rec) /\ SideOf(rec) \notin {"debit", "credit"})
  BY <1>1 DEF Unpostable
<1>3. \A rec : Court!IsRouted(rec) = IsRouted(rec)
  BY SameRecords
<1>4. /\ Court!Details(data) = {i \in DOMAIN data : IsDetail(data[i])}
      /\ Court!Posted(data, "debit") = {i \in DOMAIN data : IsDetail(data[i]) /\ SideOf(data[i]) = "debit"}
      /\ Court!Posted(data, "credit") = {i \in DOMAIN data : IsDetail(data[i]) /\ SideOf(data[i]) = "credit"}
  BY CourtDetails, CourtPosted
<1>5. Court!Details(data) = Court!Posted(data, "debit") \cup Court!Posted(data, "credit")
        <=> \A i \in DOMAIN data : IsDetail(data[i]) => SideOf(data[i]) \in {"debit", "credit"}
  BY <1>4
<1>. QED BY <1>2, <1>3, <1>5

LEMMA WholeTotal ==
  ASSUME TypeOK, Ledger, idx = Len(call.data), NEW side \in Sides
  PROVE  /\ Court!TrueTotal(call.data, side) \in Int
         /\ Congruent(obs[side], Court!TrueTotal(call.data, side))
<1>1. call.data \in Seq(Records) /\ idx \in 0..Len(call.data) /\ DOMAIN call.data = 1..idx
  BY CallData
<1>2. Court!TrueTotal(call.data, side) = Total(call.data, side, idx)
  BY <1>1, CourtTotal
<1>3. Total(call.data, side, idx) \in Int
  BY <1>1, TotalType
<1>. QED BY <1>2, <1>3 DEF Ledger

(* A declared total is the observed one exactly when BankingCourt cannot   *)
(* tell it from the true one.                                              *)
LEMMA SideMatches ==
  ASSUME TypeOK, Ledger, idx = Len(call.data), NEW side \in Sides
  PROVE  decl[side] = obs[side]
           <=> Court!SameCents(decl[side], Court!TrueTotal(call.data, side))
<1>. DEFINE total == Court!TrueTotal(call.data, side)
            a == decl[side]
            b == obs[side]
<1>1. total \in Int /\ Congruent(b, total)
  BY WholeTotal
<1>2. b \in Int /\ Fits(b) /\ (a = NoField \/ a \in Int) /\ NoField \notin Int
  BY ProfileAssumption DEF TypeOK, Sides, Totals
<1>3. Court!SameCents(a, total) <=> a # NoField /\ Fits(a) /\ (a - total) % Width = 0
  BY SameRecords DEF Court!SameCents, Width
<1>. HIDE DEF total, a, b
<1>4. CASE a # NoField /\ Fits(a)
  <2>1. a = b <=> (a - total) % Width = 0
    BY <1>1, <1>2, <1>4, RemainderDecides
  <2>. QED BY <1>3, <1>4, <2>1 DEF total, a, b
<1>5. CASE ~(a # NoField /\ Fits(a))
  BY <1>2, <1>3, <1>5 DEF total, a, b
<1>. QED BY <1>4, <1>5

LEMMA LastTrailer ==
  ASSUME NEW S \in SUBSET Nat, NEW m \in S, \A i \in S : i <= m
  PROVE  Court!Max(S) = m
<1>1. \A x \in S : (\A y \in S : x >= y) => x = m
  OBVIOUS
<1>2. \A y \in S : m >= y
  OBVIOUS
<1>. QED BY <1>1, <1>2 DEF Court!Max

(* The comparison at the end of the file decides as BankingCourt does.     *)
LEMMA VerdictIsCourts ==
  ASSUME TypeOK, Ledger, Explained, ProfileReported, EveryRefusalReported,
         DeclaredFromLastTrailer, ObservedCountExact, Reconcile
  PROVE  result'.balanced <=> Court!Reconciles(call)
<1>. DEFINE data == call.data
            trailers == {i \in 1..idx : IsTrailer(data[i])}
<1>1. /\ pc = "reading" /\ idx = Len(call.data)
      /\ findings' = findings \o CheckTotal("count") \o CheckTotal("debit") \o CheckTotal("credit")
      /\ result'.balanced = Balanced(findings')
  BY DEF Reconcile, BankingResult
<1>2. DOMAIN data = 1..idx /\ idx \in Nat
  BY <1>1, CallData
<1>3. result'.balanced <=> findings = <<>> /\ \A t \in Totals : decl[t] = obs[t]
  BY <1>1, ReconcileFindings DEF Balanced
<1>4. findings = <<>> <=> /\ Court!AmountRole(call) = "Amount"
                          /\ \A i \in DOMAIN data : Court!IsRouted(data[i])
                          /\ Court!Details(data) = Court!Posted(data, "debit") \cup Court!Posted(data, "credit")
  BY <1>1, CleanExactly, AllPosted, SameRecords
<1>5. Court!Trailers(data) = trailers
  BY <1>2, CourtDetails
<1>6. obs["count"] = Court!Cardinality(Court!Details(data)) /\ obs["count"] \in Int
  <2>1. Court!Details(data) = {i \in 1..idx : IsDetail(call.data[i])}
    BY <1>2, CourtDetails
  <2>. QED BY <2>1, SameRecords DEF ObservedCountExact, TypeOK, Totals
<1>7. CASE trailers = {}
  <2>1. \A t \in Totals : decl[t] = NoField
    BY <1>7 DEF DeclaredFromLastTrailer
  <2>2. decl["count"] # obs["count"]
    BY <1>6, <2>1, ProfileAssumption DEF Totals
  <2>3. ~result'.balanced
    BY <1>3, <2>2 DEF Totals
  <2>. QED BY <1>5, <1>7, <2>3 DEF Court!Reconciles
<1>8. CASE trailers # {}
  <2>1. Court!DeclaredBy(data) = decl
    <3>1. PICK last \in trailers : (\A i \in trailers : i <= last) /\ decl = data[last].trailer
      <4>1. CASE \A t \in Totals : decl[t] = NoField
        BY <1>8 DEF DeclaredFromLastTrailer
      <4>. QED BY <1>8 DEF DeclaredFromLastTrailer
    <3>2. Court!Max(trailers) = last
      <4>1. trailers \in SUBSET Nat
        OBVIOUS
      <4>. HIDE DEF trailers
      <4>. QED BY <3>1, <4>1, LastTrailer
    <3>. QED BY <1>5, <3>1, <3>2 DEF Court!DeclaredBy
  <2>2. \A side \in Sides : decl[side] = obs[side]
                             <=> Court!SameCents(decl[side], Court!TrueTotal(data, side))
    BY <1>1, SideMatches
  <2>3. (\A t \in Totals : decl[t] = obs[t])
          <=> /\ decl["count"] = Court!Cardinality(Court!Details(data))
              /\ \A side \in {"debit", "credit"} :
                   Court!SameCents(decl[side], Court!TrueTotal(data, side))
    BY <1>6, <2>2 DEF Totals, Sides
  <2>. QED BY <1>3, <1>4, <1>5, <1>8, <2>1, <2>3 DEF Court!Reconciles
<1>. QED BY <1>7, <1>8

(* In a build that checks, a total has left the range after some record    *)
(* exactly when the court says that the file overflows.                    *)
LEMMA OverflowsIs ==
  ASSUME TypeOK
  PROVE  Court!Overflows(call.data)
           <=> \E n \in DOMAIN call.data, side \in Sides : ~Fits(Total(call.data, side, n))
<1>1. call.data \in Seq(Records) /\ DOMAIN call.data = 1..Len(call.data) /\ Len(call.data) \in Nat
  BY CallData
<1>2. ASSUME NEW n \in DOMAIN call.data, NEW side \in Sides
      PROVE  Court!TrueTotal(SubSeq(call.data, 1, n), side) = Total(call.data, side, n)
  <2>. DEFINE d == SubSeq(call.data, 1, n)
  <2>1. n \in 1..Len(call.data) /\ n \in 0..Len(call.data)
    BY <1>1
  <2>2. DOMAIN d = 1..n /\ \A i \in 1..n : d[i] = call.data[i]
    <3>1. /\ Len(d) = n - 1 + 1 /\ d \in Seq(Records)
          /\ \A i \in 1..(n - 1 + 1) : d[i] = call.data[1 + i - 1]
      BY <1>1, <2>1, SubSeqProperties
    <3>2. n - 1 + 1 = n /\ \A i \in 1..n : 1 + i - 1 = i
      BY <1>1
    <3>. HIDE DEF d
    <3>3. DOMAIN d = 1..Len(d)
      BY <3>1
    <3>. QED BY <3>1, <3>2, <3>3
  <2>. HIDE DEF d
  <2>3. Court!TrueTotal(d, side) = Total(call.data, side, n)
    BY <1>1, <2>1, <2>2, CourtTotal
  <2>. QED BY <2>3 DEF d
<1>. QED BY <1>2, SameRecords DEF Court!Overflows, Sides

(* Every step of the loop is, of the court, the one judgement or nothing:  *)
(* whatever the order of records, and whether sums wrap or abort, the      *)
(* outcome is the one the arguments alone determine.                       *)
THEOREM RefinesCourt == Spec => Court!Safety
<1>1. Init => Court!Init /\ Ledger /\ Admitted /\ Explained
  BY InitLedger DEF Init, Court!Init, Outcome, Admitted, Explained
<1>. DEFINE Known == /\ TypeOK /\ Ledger /\ Admitted /\ Explained /\ ProfileReported
                     /\ EveryRefusalReported /\ DeclaredFromLastTrailer /\ ObservedCountExact
<1>2. Known /\ Known' /\ [Next]_vars => [Court!Judge]_<<call, Outcome>>
  <2>. SUFFICES ASSUME Known, Known', [Next]_vars PROVE [Court!Judge]_<<call, Outcome>>
    OBVIOUS
  <2>0. call.recordLen \in Nat
    BY CallData
  <2>1. CASE RefuseZeroLength
    <3>1. Outcome = "pending" /\ Outcome' = "refused" /\ call' = call /\ call.recordLen = 0
      BY <2>1 DEF RefuseZeroLength, Outcome
    <3>. QED BY <3>1 DEF Court!Judge, Court!Judgement
  <2>2. ASSUME NEW side \in Sides, OverflowPanic(side)
        PROVE  [Court!Judge]_<<call, Outcome>>
    <3>1. /\ pc = "reading" /\ pc' = "panicked" /\ call' = call /\ idx' = idx
          /\ call.build = "debug"
      BY <2>2 DEF OverflowPanic, Reading, OverflowChecks
    <3>2. Outcome = "pending" /\ Outcome' = "aborted"
      BY <3>1 DEF Outcome
    <3>3. Court!Overflows(call.data)
      BY <3>1, OverflowsIs DEF Ledger
    <3>4. call.recordLen # 0
      BY <2>0, <3>1 DEF Admitted
    <3>. QED BY <3>1, <3>2, <3>3, <3>4 DEF Court!Judge, Court!Judgement
  <2>3. CASE Reconcile
    <3>1. /\ pc = "reading" /\ pc' = "done" /\ call' = call /\ idx = Len(call.data)
      BY <2>3 DEF Reconcile
    <3>2. Outcome = "pending" /\ Outcome' = IF result'.balanced THEN "balanced" ELSE "warned"
      BY <3>1 DEF Outcome
    <3>3. result'.balanced <=> Court!Reconciles(call)
      BY <2>3, VerdictIsCourts
    <3>4. call.recordLen # 0
      BY <2>0, <3>1 DEF Admitted
    <3>5. ~(call.build = "debug" /\ Court!Overflows(call.data))
      <4>. SUFFICES ASSUME OverflowChecks PROVE ~Court!Overflows(call.data)
        BY DEF OverflowChecks
      <4>1. \A n \in DOMAIN call.data : n \in 0..idx
        BY <3>1, CallData
      <4>. QED BY <4>1, OverflowsIs DEF Ledger
    <3>. QED BY <3>1, <3>2, <3>3, <3>4, <3>5 DEF Court!Judge, Court!Judgement
  <2>4. ASSUME call' = call, result' = result,
               pc' = pc \/ (pc \in {"start", "reading"} /\ pc' \in {"start", "reading"})
        PROVE  [Court!Judge]_<<call, Outcome>>
    BY <2>4 DEF Outcome
  <2>5. CASE CheckProfile \/ UNCHANGED vars
    BY <2>4, <2>5 DEF CheckProfile, vars
  <2>6. CASE \/ UnknownRecordType \/ UnknownPolarity \/ DirtyDetail \/ ReadTrailer \/ OtherVariant
             \/ \E side \in Sides : PostDetail(side)
    BY <2>4, <2>6 DEF UnknownRecordType, UnknownPolarity, DirtyDetail, ReportDetail, ReadTrailer,
       OtherVariant, PostDetail, Advance
  <2>. QED BY <2>1, <2>2, <2>3, <2>5, <2>6 DEF Next, ReadRecord, Terminated, Sides
<1>3. TypeOK /\ Admitted /\ [Next]_vars => Admitted'
  BY StepAdmitted
<1>. QED BY <1>1, <1>2, <1>3, StepLedger, StepExplained, TypeCorrect, SettledCorrect,
     RefusalsReported, DeclaredCorrect, CountExact, PTL DEF Spec, Court!Safety, Court!vars
=============================================================================
