------------------------------ MODULE FileIngest ------------------------------
(***************************************************************************)
(* ingest (src/src/file.rs): a byte stream of a declared record length is  *)
(* cut into spans under two declared policies. Only two things about the   *)
(* bytes matter: how many there are and whether the last one is a line     *)
(* feed. The cut is one span per step.                                     *)
(***************************************************************************)
EXTENDS Integers, Sequences

CONSTANT Calls

TrailingNewline == {"reject", "allow-final-lf", "strip-final-lf"}
PartialRecord == {"reject", "evidence"}

CallType ==
  [inputLen : Nat, endsLf : BOOLEAN, recordLen : Nat,
   trailing : TrailingNewline, partial : PartialRecord]

ASSUME CallAssumption ==
  /\ Calls \subseteq CallType
  /\ \A c \in Calls : c.endsLf => c.inputLen > 0

VARIABLES
  call,        \* the arguments, never written
  pc,          \* "start", "splitting", "done" or "error"
  effLen,      \* the length that is cut into records
  stripped,    \* stripped_final_lf of the audit
  spans,       \* the record spans found so far
  exitCode     \* the verdict, or the code the refusal carries

vars == <<call, pc, effLen, stripped, spans, exitCode>>

Success == 0
DecodedWithEvidenceWarnings == 1
InvalidInputShape == 2
IoOrConfigError == 5

Span(index, offset, len, partial) ==
  [index |-> index, offset |-> offset, len |-> len, partial |-> partial]

Init ==
  /\ call \in Calls
  /\ pc = "start"
  /\ effLen = call.inputLen
  /\ stripped = FALSE
  /\ spans = <<>>
  /\ exitCode = Success

Refuse(code) ==
  /\ pc' = "error"
  /\ exitCode' = code
  /\ UNCHANGED <<call, effLen, stripped, spans>>

RefuseZeroLength ==
  /\ pc = "start"
  /\ call.recordLen = 0
  /\ Refuse(IoOrConfigError)

RefuseFinalLf ==
  /\ pc = "start"
  /\ call.recordLen > 0
  /\ call.endsLf /\ call.trailing = "reject"
  /\ Refuse(InvalidInputShape)

(* Mutant of DropFinalLf: the audit forgets that the line feed was dropped. *)
DropFinalLfUnrecorded ==
  /\ pc = "start"
  /\ call.recordLen > 0
  /\ call.endsLf /\ call.trailing # "reject"
  /\ effLen' = effLen - 1
  /\ pc' = "splitting"
  /\ UNCHANGED <<call, stripped, spans, exitCode>>

(* One final line feed is left out of what is cut; only one of the two     *)
(* lenient policies says so in the audit.                                  *)
DropFinalLf ==
  /\ pc = "start"
  /\ call.recordLen > 0
  /\ call.endsLf /\ call.trailing # "reject"
  /\ effLen' = effLen - 1
  /\ stripped' = (call.trailing = "strip-final-lf")
  /\ pc' = "splitting"
  /\ UNCHANGED <<call, spans, exitCode>>

(* Mutant of KeepInput: a byte is taken off although no line feed is there. *)
KeepInputShort ==
  /\ pc = "start"
  /\ call.recordLen > 0
  /\ ~call.endsLf
  /\ effLen' = effLen - 1
  /\ pc' = "splitting"
  /\ UNCHANGED <<call, stripped, spans, exitCode>>

KeepInput ==
  /\ pc = "start"
  /\ call.recordLen > 0
  /\ ~call.endsLf
  /\ pc' = "splitting"
  /\ UNCHANGED <<call, effLen, stripped, spans, exitCode>>

Full == effLen \div call.recordLen
Rem == effLen % call.recordLen

(* Mutant of SplitRecord: offsets count records, not bytes. *)
SplitRecordByIndex ==
  /\ pc = "splitting"
  /\ Len(spans) < Full
  /\ spans' = Append(spans, Span(Len(spans), Len(spans), call.recordLen, FALSE))
  /\ UNCHANGED <<call, pc, effLen, stripped, exitCode>>

SplitRecord ==
  /\ pc = "splitting"
  /\ Len(spans) < Full
  /\ spans' = Append(spans, Span(Len(spans), Len(spans) * call.recordLen,
                                 call.recordLen, FALSE))
  /\ UNCHANGED <<call, pc, effLen, stripped, exitCode>>

RefusePartial ==
  /\ pc = "splitting"
  /\ Len(spans) = Full
  /\ Rem # 0 /\ call.partial = "reject"
  /\ Refuse(InvalidInputShape)

(* Mutant of KeepPartial: the remainder is forgotten. *)
KeepPartialDropped ==
  /\ pc = "splitting"
  /\ Len(spans) = Full
  /\ Rem # 0 /\ call.partial = "evidence"
  /\ exitCode' = DecodedWithEvidenceWarnings
  /\ pc' = "done"
  /\ UNCHANGED <<call, effLen, stripped, spans>>
(* The remainder is preserved as a marked span and the verdict says so. *)
KeepPartial ==
  /\ pc = "splitting"
  /\ Len(spans) = Full
  /\ Rem # 0 /\ call.partial = "evidence"
  /\ spans' = Append(spans, Span(Full, Full * call.recordLen, Rem, TRUE))
  /\ exitCode' = DecodedWithEvidenceWarnings
  /\ pc' = "done"
  /\ UNCHANGED <<call, effLen, stripped>>

FinishWhole ==
  /\ pc = "splitting"
  /\ Len(spans) = Full
  /\ Rem = 0
  /\ pc' = "done"
  /\ UNCHANGED <<call, effLen, stripped, spans, exitCode>>

Terminated == pc \in {"done", "error"} /\ UNCHANGED vars

Next ==
  \/ RefuseZeroLength
  \/ RefuseFinalLf
  \/ DropFinalLf
  \/ KeepInput
  \/ SplitRecord
  \/ RefusePartial
  \/ KeepPartial
  \/ FinishWhole
  \/ Terminated

Spec == Init /\ [][Next]_vars
-----------------------------------------------------------------------------
SpanType == [index : Nat, offset : Nat, len : Nat, partial : BOOLEAN]

TypeOK ==
  /\ call \in Calls
  /\ pc \in {"start", "splitting", "done", "error"}
  /\ effLen \in Nat
  /\ stripped \in BOOLEAN
  /\ spans \in Seq(SpanType)
  /\ exitCode \in {0, 1, 2, 5}

EndOf(span) == span.offset + span.len

(* The spans found so far tile a prefix of the input: each starts where    *)
(* the one before it ends, and only the very last may be short, marked as  *)
(* partial and never empty.                                                *)
SpansTile ==
  \A k \in DOMAIN spans :
    /\ spans[k].index = k - 1
    /\ spans[k].offset = IF k = 1 THEN 0 ELSE EndOf(spans[k - 1])
    /\ IF spans[k].partial
       THEN k = Len(spans) /\ pc = "done"
            /\ 0 < spans[k].len /\ spans[k].len < call.recordLen
       ELSE spans[k].len = call.recordLen

Covered == IF spans = <<>> THEN 0 ELSE EndOf(spans[Len(spans)])

(* No byte is lost: when ingest succeeds, what the spans leave uncovered   *)
(* is one final line feed under a policy that allows removing it, or       *)
(* nothing.                                                                *)
OnlyFinalLfLost ==
  pc = "done" =>
    Covered = call.inputLen
              - (IF call.endsLf /\ call.trailing # "reject" THEN 1 ELSE 0)

(* The audit never hides a removed byte, except under the policy that says *)
(* it will: unless the policy is allow-final-lf, the covered bytes and     *)
(* stripped_final_lf add up to input_len.                                  *)
AuditAccountsForInput ==
  pc = "done" /\ call.trailing # "allow-final-lf" =>
    call.inputLen = Covered + (IF stripped THEN 1 ELSE 0)
===============================================================================
