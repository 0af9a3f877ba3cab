--------------------------- MODULE FileIngestProofs ---------------------------
(***************************************************************************)
(* Theorems about ingest, for inputs and record lengths of every size.     *)
(*                                                                         *)
(* The invariants of FileIngest are about neighbouring spans; none is      *)
(* inductive alone. Placed strengthens them: each span stands at its index *)
(* times the record length, no span is partial before the end, and at the  *)
(* end the spans and the remainder of the division make up effLen.         *)
(***************************************************************************)
EXTENDS FileIngest, TLAPS

(* The next multiple, for terms the solver does not take apart itself. *)
LEMMA NextMultiple ==
  ASSUME NEW a \in Nat, NEW b \in Nat
  PROVE  a > 0 => (a - 1) * b + b = a * b
  BY SMT

(* Euclid: what the cut relies on. *)
LEMMA Division ==
  ASSUME NEW a \in Nat, NEW b \in Nat, b > 0
  PROVE  /\ a \div b \in Nat /\ a % b \in Nat
         /\ a % b < b
         /\ a = (a \div b) * b + (a % b)
  BY SMT

(* What appending one element does to a sequence. *)
LEMMA Appended ==
  ASSUME NEW S, NEW s \in Seq(S), NEW e \in S
  PROVE  /\ Append(s, e) \in Seq(S) /\ Len(Append(s, e)) = Len(s) + 1
         /\ \A k \in DOMAIN s : Append(s, e)[k] = s[k]
         /\ Append(s, e)[Len(s) + 1] = e
         /\ DOMAIN Append(s, e) = (DOMAIN s) \cup {Len(s) + 1}
         /\ DOMAIN s = 1..Len(s)
  OBVIOUS

Dropped == IF call.endsLf /\ call.trailing # "reject" THEN 1 ELSE 0

LengthKept ==
  /\ pc = "start" => effLen = call.inputLen /\ spans = <<>>
                     /\ exitCode = 0 /\ stripped = FALSE
  /\ pc \in {"splitting", "done"} =>
       /\ call.recordLen > 0
       /\ effLen = call.inputLen - Dropped
       /\ stripped <=> (call.endsLf /\ call.trailing = "strip-final-lf")
       /\ call.endsLf => call.trailing # "reject"

Placed ==
  /\ \A k \in DOMAIN spans :
       /\ spans[k].index = k - 1
       /\ spans[k].offset = (k - 1) * call.recordLen
       /\ ~spans[k].partial => spans[k].len = call.recordLen
  /\ pc = "splitting" =>
       /\ Len(spans) <= Full
       /\ exitCode = 0
       /\ \A k \in DOMAIN spans : ~spans[k].partial
  /\ pc = "done" /\ Rem = 0 =>
       /\ Len(spans) = Full
       /\ exitCode = 0
       /\ \A k \in DOMAIN spans : ~spans[k].partial
  /\ pc = "done" /\ Rem # 0 =>
       /\ Len(spans) = Full + 1
       /\ exitCode = 1
       /\ call.partial = "evidence"
       /\ \A k \in DOMAIN spans : spans[k].partial <=> k = Full + 1
       /\ spans[Full + 1].len = Rem
  /\ pc = "error" => \A k \in DOMAIN spans : ~spans[k].partial

IInv == TypeOK /\ LengthKept /\ Placed

LEMMA CallFacts ==
  ASSUME TypeOK
  PROVE  /\ call.inputLen \in Nat /\ call.recordLen \in Nat
         /\ call.endsLf \in BOOLEAN
         /\ call.trailing \in TrailingNewline /\ call.partial \in PartialRecord
         /\ call.endsLf => call.inputLen > 0
  BY CallAssumption DEF TypeOK, CallType

LEMMA InitIInv == Init => IInv
<1>. SUFFICES ASSUME Init PROVE IInv
  OBVIOUS
<1>1. call \in CallType
  BY CallAssumption DEF Init
<1>2. TypeOK
  <2>1. spans \in Seq(SpanType)
    BY DEF Init
  <2>2. call.inputLen \in Nat
    BY <1>1 DEF CallType
  <2>. QED BY <2>1, <2>2 DEF Init, TypeOK, Success
<1>3. LengthKept
  BY DEF Init, LengthKept, Success
<1>4. Placed
  BY DEF Init, Placed
<1>. QED BY <1>2, <1>3, <1>4 DEF IInv

LEMMA StepIInv == IInv /\ [Next]_vars => IInv'
<1>. SUFFICES ASSUME IInv, [Next]_vars PROVE IInv'
  OBVIOUS
<1>. USE DEF IInv
<1>0. /\ call.inputLen \in Nat /\ call.recordLen \in Nat
      /\ call.endsLf \in BOOLEAN
      /\ call.trailing \in TrailingNewline /\ call.partial \in PartialRecord
      /\ call.endsLf => call.inputLen > 0
  BY CallFacts
<1>1. ASSUME NEW code \in {2, 5}, Refuse(code), pc \in {"start", "splitting"}
      PROVE  IInv'
  <2>1. TypeOK'
    BY <1>1 DEF TypeOK, Refuse
  <2>2. LengthKept'
    BY <1>1 DEF LengthKept, Refuse
  <2>3. Placed'
    BY <1>1 DEF Placed, LengthKept, Refuse
  <2>. QED BY <2>1, <2>2, <2>3
<1>2. CASE RefuseZeroLength
  BY <1>1, <1>2 DEF RefuseZeroLength, IoOrConfigError
<1>3. CASE RefuseFinalLf
  BY <1>1, <1>3 DEF RefuseFinalLf, InvalidInputShape
<1>4. CASE RefusePartial
  BY <1>1, <1>4 DEF RefusePartial, InvalidInputShape
<1>5. CASE DropFinalLf
  <2>1. TypeOK'
    BY <1>0, <1>5 DEF DropFinalLf, TypeOK, LengthKept
  <2>2. LengthKept'
    BY <1>0, <1>5 DEF DropFinalLf, LengthKept, Dropped
  <2>3. Full' \in Nat
    BY <1>0, <1>5, <2>1, Division DEF DropFinalLf, Full, TypeOK
  <2>4. Placed'
    BY <1>5, <2>3 DEF DropFinalLf, Placed, LengthKept
  <2>. QED BY <2>1, <2>2, <2>4
<1>6. CASE KeepInput
  <2>1. TypeOK'
    BY <1>6 DEF KeepInput, TypeOK
  <2>2. LengthKept'
    BY <1>0, <1>6 DEF KeepInput, LengthKept, Dropped
  <2>3. Full' \in Nat
    BY <1>0, <1>6, <2>1, Division DEF KeepInput, Full, TypeOK
  <2>4. Placed'
    BY <1>6, <2>3 DEF KeepInput, Placed, LengthKept
  <2>. QED BY <2>1, <2>2, <2>4
<1>7. CASE SplitRecord
  <2>. DEFINE new == Span(Len(spans), Len(spans) * call.recordLen,
                          call.recordLen, FALSE)
  <2>1. Len(spans) \in Nat /\ Full \in Nat /\ Len(spans) < Full /\ Full' = Full
    BY <1>0, <1>7, Division DEF SplitRecord, LengthKept, TypeOK, Full
  <2>2. new \in SpanType
    BY <1>0, <2>1 DEF Span, SpanType
  <2>3. /\ spans' = Append(spans, new) /\ Len(spans') = Len(spans) + 1
        /\ \A k \in DOMAIN spans : spans'[k] = spans[k]
        /\ spans'[Len(spans) + 1] = new
        /\ DOMAIN spans' = (DOMAIN spans) \cup {Len(spans) + 1}
        /\ spans' \in Seq(SpanType)
    <3>. HIDE DEF new
    <3>1. spans' = Append(spans, new)
      BY <1>7 DEF SplitRecord, new
    <3>. QED BY <2>2, <3>1, Appended DEF TypeOK
  <2>4. TypeOK'
    BY <1>7, <2>3 DEF SplitRecord, TypeOK
  <2>5. LengthKept'
    BY <1>7 DEF SplitRecord, LengthKept, Dropped
  <2>6. Placed'
    BY <1>7, <2>1, <2>3 DEF SplitRecord, Placed, Span
  <2>. QED BY <2>4, <2>5, <2>6
<1>8. CASE KeepPartial
  <2>. DEFINE new == Span(Full, Full * call.recordLen, Rem, TRUE)
  <2>1. Len(spans) = Full /\ Full \in Nat /\ Rem \in Nat /\ Full' = Full /\ Rem' = Rem
    BY <1>0, <1>8, Division DEF KeepPartial, LengthKept, TypeOK, Full, Rem
  <2>2. new \in SpanType
    <3>1. Full * call.recordLen \in Nat
      BY <1>0, <2>1
    <3>. QED BY <2>1, <3>1 DEF Span, SpanType
  <2>3. /\ spans' = Append(spans, new) /\ Len(spans') = Full + 1
        /\ \A k \in DOMAIN spans : spans'[k] = spans[k]
        /\ spans'[Full + 1] = new
        /\ DOMAIN spans' = (DOMAIN spans) \cup {Full + 1} /\ DOMAIN spans = 1..Full
        /\ spans' \in Seq(SpanType)
    <3>. HIDE DEF new
    <3>1. spans' = Append(spans, new)
      BY <1>8 DEF KeepPartial, new
    <3>. QED BY <2>1, <2>2, <3>1, Appended DEF TypeOK
  <2>4. TypeOK'
    BY <1>8, <2>3 DEF KeepPartial, TypeOK, DecodedWithEvidenceWarnings
  <2>5. LengthKept'
    BY <1>8 DEF KeepPartial, LengthKept, Dropped
  <2>6. Placed'
    BY <1>8, <2>1, <2>3 DEF KeepPartial, Placed, Span, DecodedWithEvidenceWarnings
  <2>. QED BY <2>4, <2>5, <2>6
<1>9. CASE FinishWhole
  <2>1. TypeOK' /\ LengthKept'
    BY <1>9 DEF FinishWhole, TypeOK, LengthKept, Dropped
  <2>2. Full' = Full /\ Rem' = Rem
    BY <1>9 DEF FinishWhole, Full, Rem
  <2>3. Placed'
    BY <1>9, <2>2 DEF FinishWhole, Placed
  <2>. QED BY <2>1, <2>3
<1>10. CASE UNCHANGED vars
  BY <1>10 DEF vars, TypeOK, LengthKept, Placed, Full, Rem, Dropped
<1>. QED
  BY <1>2, <1>3, <1>4, <1>5, <1>6, <1>7, <1>8, <1>9, <1>10 DEF Next, Terminated

(* Every variable keeps its type, for every set of calls. *)
THEOREM TypeCorrect == Spec => []TypeOK
  BY InitIInv, StepIInv, PTL DEF Spec, IInv

LEMMA Invariance == Spec => []IInv
  BY InitIInv, StepIInv, PTL DEF Spec

(* What the spans cover, at the end of a successful ingest, is effLen. *)
LEMMA CoversEffLen ==
  ASSUME IInv, pc = "done" PROVE Covered = effLen
<1>. USE DEF IInv
<1>1. /\ call.recordLen \in Nat /\ call.recordLen > 0 /\ effLen \in Nat
      /\ spans \in Seq(SpanType)
  BY CallFacts DEF LengthKept, TypeOK, SpanType
<1>2. /\ Full \in Nat /\ Rem \in Nat /\ Rem < call.recordLen
      /\ effLen = Full * call.recordLen + Rem
  BY <1>1, Division DEF Full, Rem
<1>3. CASE Rem = 0 /\ Full = 0
  <2>1. spans = <<>> /\ effLen = 0
    BY <1>1, <1>2, <1>3 DEF Placed
  <2>. QED BY <2>1 DEF Covered
<1>4. CASE Rem = 0 /\ Full # 0
  <2>1. Len(spans) = Full /\ Full \in DOMAIN spans /\ spans # <<>>
    BY <1>1, <1>2, <1>4 DEF Placed
  <2>2. /\ spans[Full].offset = (Full - 1) * call.recordLen
        /\ spans[Full].len = call.recordLen
    BY <1>4, <2>1 DEF Placed
  <2>3. (Full - 1) * call.recordLen + call.recordLen = Full * call.recordLen
    <3>1. Full > 0
      BY <1>2, <1>4
    <3>. QED BY ONLY <1>1, <1>2, <3>1, NextMultiple
  <2>. QED BY <1>1, <1>2, <1>4, <2>1, <2>2, <2>3 DEF Covered, EndOf
<1>5. CASE Rem # 0
  <2>1. Len(spans) = Full + 1 /\ Full + 1 \in DOMAIN spans /\ spans # <<>>
    BY <1>1, <1>2, <1>5 DEF Placed
  <2>2. spans[Full + 1].len = Rem
    BY <1>5 DEF Placed
  <2>3. spans[Full + 1].offset = Full * call.recordLen
    <3>. DEFINE k == Full + 1
    <3>1. \A j \in DOMAIN spans : spans[j].offset = (j - 1) * call.recordLen
      BY DEF Placed
    <3>2. k - 1 = Full /\ k \in DOMAIN spans
      BY <1>2, <2>1
    <3>. HIDE DEF k
    <3>3. spans[k].offset = Full * call.recordLen
      BY <3>1, <3>2, Zenon
    <3>. QED BY <3>3 DEF k
  <2>. QED BY <1>2, <2>1, <2>2, <2>3 DEF Covered, EndOf
<1>. QED BY <1>3, <1>4, <1>5

(* The spans tile a prefix of the input at every step of the cut: each     *)
(* starts where the one before it ends, and only the last may be short.    *)
THEOREM Tiled == Spec => []SpansTile
<1>1. IInv => SpansTile
  <2>. SUFFICES ASSUME IInv, NEW k \in DOMAIN spans
                PROVE  /\ spans[k].index = k - 1
                       /\ spans[k].offset = IF k = 1 THEN 0 ELSE EndOf(spans[k - 1])
                       /\ IF spans[k].partial
                          THEN k = Len(spans) /\ pc = "done"
                               /\ 0 < spans[k].len /\ spans[k].len < call.recordLen
                          ELSE spans[k].len = call.recordLen
    BY DEF SpansTile
  <2>. USE DEF IInv
  <2>1. /\ call.recordLen \in Nat /\ spans \in Seq(SpanType) /\ k \in 1..Len(spans)
        /\ k \in Nat /\ Len(spans) \in Nat
        /\ pc \in {"start", "splitting", "done", "error"}
    BY CallFacts DEF TypeOK, SpanType
  <2>2. pc = "start" => FALSE
    BY <2>1 DEF LengthKept
  <2>3. ASSUME pc = "done"
        PROVE  Full \in Nat /\ Rem \in Nat /\ Rem < call.recordLen
    BY <2>1, <2>3, Division DEF Full, Rem, LengthKept, TypeOK
  <2>4. IF spans[k].partial
        THEN k = Len(spans) /\ pc = "done"
             /\ 0 < spans[k].len /\ spans[k].len < call.recordLen
        ELSE spans[k].len = call.recordLen
    BY <2>1, <2>2, <2>3 DEF Placed
  <2>5. spans[k].index = k - 1 /\ spans[k].offset = (k - 1) * call.recordLen
    BY DEF Placed
  <2>6. CASE k = 1
    BY <2>1, <2>4, <2>5, <2>6
  <2>7. CASE k # 1
    <3>1. k - 1 \in DOMAIN spans /\ k - 1 # Len(spans)
      BY <2>1, <2>7
    <3>2. ~spans[k - 1].partial
      BY <2>1, <2>2, <2>3, <3>1 DEF Placed
    <3>3. /\ spans[k - 1].offset = (k - 1 - 1) * call.recordLen
          /\ spans[k - 1].len = call.recordLen
      BY <3>1, <3>2 DEF Placed
    <3>4. (k - 1 - 1) * call.recordLen + call.recordLen = (k - 1) * call.recordLen
      <4>1. k - 1 \in Nat /\ k - 1 > 0
        BY <2>1, <2>7
      <4>. QED BY ONLY <2>1, <4>1, NextMultiple
    <3>. QED BY <2>4, <2>5, <2>7, <3>3, <3>4 DEF EndOf
  <2>. QED BY <2>6, <2>7
<1>. QED BY <1>1, Invariance, PTL

(* No byte of an ingested file is lost but one final line feed that a      *)
(* declared policy removes.                                                *)
THEOREM NoByteLost == Spec => []OnlyFinalLfLost
<1>1. IInv => OnlyFinalLfLost
  BY CoversEffLen DEF IInv, LengthKept, OnlyFinalLfLost, Dropped
<1>. QED BY <1>1, Invariance, PTL

(* The audit accounts for every byte except under allow-final-lf. *)
THEOREM AuditComplete == Spec => []AuditAccountsForInput
<1>1. IInv => AuditAccountsForInput
  BY CoversEffLen, CallFacts
  DEF IInv, LengthKept, AuditAccountsForInput, Dropped, TrailingNewline
<1>. QED BY <1>1, Invariance, PTL
===============================================================================
