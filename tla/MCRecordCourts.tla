----------------------------- MODULE MCRecordCourts -----------------------------
(* The calls TLC gives each of the record courts. *)
EXTENDS RecordCourts

CONSTANTS MaxDetails, MaxRecords, MaxEntries, MaxTransforms, MaxPostings, RecordLens

-----------------------------------------------------------------------------
(* Integers of eight bits; amounts 0, 7 and 12 with either sign and zero or *)
(* one decimal place, and a field that holds no number. A copybook that     *)
(* does not parse is seen with few records.                                 *)
BatchDecimal(n, m, s) == [negative |-> n, magnitude |-> m, scale |-> s]
BatchDecimals ==
  {BatchDecimal(n, m, s) : n \in BOOLEAN, m \in {7, 12}, s \in {0, 1}}
  \cup {BatchDecimal(FALSE, 0, 0)}
BatchTotals ==
  BatchDecimals \cup {NoNumber} \cup {BatchDecimal(FALSE, m, s) : m \in {19, 24, 82}, s \in {0, 1}}

BatchCall(build, details, count, total, detailParses, trailerParses) ==
  [build |-> build, details |-> details, count |-> count, total |-> total,
   detailParses |-> detailParses, trailerParses |-> trailerParses]

MCBatchCalls ==
  {BatchCall(b, d, c, t, TRUE, TRUE) :
     b \in {"debug", "release"}, d \in BoundedSeq(BatchDecimals \cup {NoNumber}, MaxDetails),
     c \in {NoNumber, BatchDecimal(FALSE, 2, 0)}, t \in BatchTotals}
  \cup {BatchCall("debug", d, BatchDecimal(TRUE, 2, 1), t, p, q) :
     d \in BoundedSeq({BatchDecimal(FALSE, 7, 0)}, 2), t \in BatchTotals,
     p \in BOOLEAN, q \in BOOLEAN}

-----------------------------------------------------------------------------
(* Records of up to three bytes, some too short for a discriminator of one  *)
(* byte in the second place; three types, of which two may share a name or  *)
(* a discriminator value, and whose copybooks may not parse.                *)
RouteType(name, value, parses) == [name |-> name, value |-> value, parses |-> parses]

RouteTypes ==
  {<<RouteType("header", <<"H">>, p), RouteType(n, v, q), RouteType("detail", <<"D">>, TRUE)>> :
     p \in BOOLEAN, q \in BOOLEAN, n \in {"header", "detail"}, v \in {<<"H">>, <<"D">>, <<"T">>}}

MCRouteCalls ==
  [records : BoundedSeq({<<"D">>, <<"D", "H">>, <<"x", "D", "D">>, <<"D", "T", "H">>}, MaxRecords),
   offset : {0, 1}, length : {1}, types : RouteTypes]

-----------------------------------------------------------------------------
(* Lists of up to MaxEntries entries over two names and two values in the   *)
(* one dimension a call is about; the others are compared on a few values.  *)
DiffLists == BoundedSeq({"a", "b"} \X {1, 2}, MaxEntries)
DiffFew == {<<<<"a", 1>>>>, <<<<"b", 2>>, <<"a", 1>>>>}
DiffIds == {<<>>, <<"x">>, <<"x", "x">>, <<"y", "x">>}

DiffSide(fields, findingIds, totals, hash) ==
  [fields |-> fields, findingIds |-> findingIds, totals |-> totals, hash |-> hash]

DiffCall(a, e, oracle, allowed) ==
  [actual |-> a, expected |-> e, oracle |-> oracle, allowed |-> allowed]

DiffFieldCalls ==
  {DiffCall(DiffSide(f, <<>>, t, NoHash), DiffSide(g, <<>>, <<<<"a", 1>>>>, NoHash), "not", w) :
     f \in DiffLists, g \in DiffLists, t \in DiffFew,
     w \in {{"field_values"}, {"field_values", "control_totals"}}}
DiffTotalCalls ==
  {DiffCall(DiffSide(f, <<>>, t, NoHash), DiffSide(<<<<"a", 1>>>>, <<>>, u, NoHash), o, w) :
     t \in DiffLists, u \in DiffLists, f \in DiffFew, o \in {"not", "admitted"},
     w \in {{"control_totals"}, {"field_values", "control_totals"}}}
DiffOtherCalls ==
  {DiffCall(DiffSide(f, i, <<>>, h), DiffSide(<<<<"a", 1>>>>, j, <<>>, k), o, w) :
     f \in DiffFew, i \in DiffIds, j \in DiffIds,
     h \in {NoHash, "h"}, k \in {NoHash, "h"}, o \in {"not", "admitted"},
     w \in SUBSET {"field_values", "finding_ids", "control_totals", "audit_hashes"}}

MCDiffCalls == DiffFieldCalls \cup DiffTotalCalls \cup DiffOtherCalls

-----------------------------------------------------------------------------
(* Records of three digits, or one too short: a signed field of two digits  *)
(* with a decimal place, a text of one, and an unsigned field that          *)
(* redefines the second and third digit.                                    *)
TransformItem(name, offset, size, scale, kind) ==
  [name |-> name, offset |-> offset, size |-> size, scale |-> scale, kind |-> kind,
   signed |-> name = "BAL"]

TransformLaid ==
  <<TransformItem("REC", 0, 3, 0, "group"), TransformItem("BAL", 0, 2, 1, "numeric"),
    TransformItem("ST", 2, 1, 0, "alphanumeric"), TransformItem("VIEW", 1, 2, 0, "numeric")>>

TransformCondition(name, parent, literal) ==
  [name |-> name, parent |-> parent, literal |-> literal]

TransformConditions ==
  <<TransformCondition("OPEN", "ST", <<7>>), TransformCondition("LONG", "ST", <<7, 7>>),
    TransformCondition("ALL", "REC", <<1, 1, 1>>)>>

TransformAmount(negative, whole, fraction) ==
  [negative |-> negative, whole |-> whole, fraction |-> fraction]

TransformAmounts ==
  {TransformAmount(FALSE, <<1>>, <<>>), TransformAmount(FALSE, <<0>>, <<5>>),
   TransformAmount(TRUE, <<0>>, <<3, 9>>), TransformAmount(FALSE, <<1, 2>>, <<>>),
   NoAmount, Malformed}

TransformStep(op, target, amount) == [op |-> op, target |-> target, amount |-> amount]

TransformSteps ==
  {TransformStep("set", c, NoAmount) : c \in {"OPEN", "LONG", "ALL", "NONE"}}
  \cup {TransformStep("add", n, a) : n \in {"BAL", "VIEW"}, a \in TransformAmounts}
  \cup {TransformStep("subtract", n, a) : n \in {"BAL", "ST", "NONE"}, a \in TransformAmounts}

TransformCall(build, parses, record, transforms) ==
  [build |-> build, parses |-> parses, laid |-> TransformLaid,
   conditions |-> TransformConditions, record |-> record, transforms |-> transforms]

TransformRecords == UNION {[1..n -> {0, 9}] : n \in {2, 3}}

MCTransformCalls ==
  {TransformCall(b, TRUE, r, t) : b \in {"debug", "release"}, r \in TransformRecords,
     t \in BoundedSeq(TransformSteps, MaxTransforms)}
  \cup {TransformCall("debug", FALSE, r, <<>>) : r \in TransformRecords}

-----------------------------------------------------------------------------
(* Units of up to MaxPostings records: numbers with a gap between them, a   *)
(* dirty and a missing number, two ids and a missing one, two byte          *)
(* patterns.                                                                *)
PostingRecord(raw, seq, txn) == [raw |-> raw, seq |-> seq, txn |-> txn]

MCPostingRecords ==
  {PostingRecord("x", 1, "t1"), PostingRecord("y", 1, "t2"), PostingRecord("x", 2, "t2"),
   PostingRecord("y", 4, "t1"), PostingRecord("x", 3, NoField),
   PostingRecord("y", Dirty, "t1"), PostingRecord("x", NoField, NoField)}

(* What is refused is refused before the data is looked at. *)
MCPostingCalls ==
  LET Call(accepted, datas) ==
        {c \in [recordLen : RecordLens, hasUnitId : BOOLEAN, hasSeq : BOOLEAN,
                contiguous : BOOLEAN, hasTxn : BOOLEAN, data : datas] :
           (c.recordLen > 0 /\ c.hasUnitId) = accepted}
  IN Call(TRUE, BoundedSeq(MCPostingRecords, MaxPostings)) \cup Call(FALSE, {<<>>})
================================================================================
