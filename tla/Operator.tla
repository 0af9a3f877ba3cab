-------------------------------- MODULE Operator --------------------------------
(***************************************************************************)
(* control_totals and decode_records_json (src/src/operator.rs): the two   *)
(* passes an operator makes over a file, one record per step, with the     *)
(* check of each field's bytes against its declared type; and              *)
(* explain_field, which says of one field of one record (the data is that  *)
(* record) what the passes make of it.                                     *)
(*                                                                         *)
(* A byte is its two nibbles. A sum is kept as far as it fits a machine    *)
(* integer, whose greatest value is SumLimit here.                         *)
(***************************************************************************)
EXTENDS Decode

CONSTANTS Calls, SumLimit, NoOutput

Named(prog, name) == {k \in DOMAIN prog.laid : prog.laid[k].name = name}

(* Unless the check finds a collision, no two items have the same name if  *)
(* there is a picture under it.                                            *)
CallsTyped ==
  /\ SumLimit \in Nat
  /\ \A c \in Calls :
       /\ c.recordLen \in Nat
       /\ c.data \in Seq((0..15) \X (0..15))
       /\ c.prog.laid \in Seq([name : {l.name : l \in ToSet(c.prog.laid)}, offset : Nat, size : Nat])
       /\ \A n \in DOMAIN c.prog.attrs : c.prog.attrs[n] \in Attrs
       /\ c.prog.conditions \in Seq(ToSet(c.prog.conditions))
       /\ ~c.collides =>
            \A j, k \in DOMAIN c.prog.laid :
              /\ c.prog.laid[j].name = c.prog.laid[k].name
              /\ Attr(c.prog, c.prog.laid[k].name) # "none"
              => j = k

VARIABLES
  call,         \* the arguments, never written
  pc,           \* "start", "reading", "done" or "error"
  idx,          \* records read
  sums,         \* the sum of each numeric field that had a valid value
  condTrue,     \* how often each condition was true
  invalid,      \* invalid numeric fields seen
  unsupported,  \* unsupported fields seen
  objects,      \* the objects of decode_records_json, one per record
  output        \* what is returned, NoOutput until then

vars == <<call, pc, idx, sums, condTrue, invalid, unsupported, objects, output>>

Digit(nibble) == nibble <= 9
AsciiDigit(byte) == byte[1] = 3 /\ Digit(byte[2])
Overpunch(byte) == byte[1] = 7 /\ (Digit(byte[2]) \/ byte[2] \in {11, 13})

PackedValid(bytes) ==
  /\ bytes # <<>>
  /\ \A k \in DOMAIN bytes : Digit(bytes[k][1])
  /\ \A k \in DOMAIN bytes : Digit(bytes[k][2]) <=> k < Len(bytes)

Comp6Valid(bytes) ==
  bytes # <<>> /\ \A k \in DOMAIN bytes : Digit(bytes[k][1]) /\ Digit(bytes[k][2])

DisplayValid(bytes) ==
  /\ bytes # <<>>
  /\ \A k \in DOMAIN bytes :
       AsciiDigit(bytes[k]) \/ (k = Len(bytes) /\ Overpunch(bytes[k]))

(* The bytes alone are looked at, whatever the encoding of the file. *)
FieldValid(attr, bytes) ==
  CASE attr \in {"alphanumeric", "binary"} -> TRUE
    [] attr = "comp6" -> Comp6Valid(bytes)
    [] attr = "packed" -> PackedValid(bytes)
    [] attr = "zoned" -> DisplayValid(bytes)
    [] OTHER -> FALSE

(* The number a valid field holds: a sign nibble is no digit, an           *)
(* overpunched brace is a zero. The kernel's binary numbers are left out:  *)
(* the low nibbles of a binary field stand for one.                        *)
Value(attr, bytes) ==
  LET nibbles == IF attr \in {"packed", "comp6"}
                 THEN [k \in 1..2 * Len(bytes) |-> bytes[(k + 1) \div 2][2 - (k % 2)]]
                 ELSE [k \in DOMAIN bytes |-> IF Digit(bytes[k][2]) THEN bytes[k][2] ELSE 0]
      number[k \in 0..Len(nibbles)] ==
        IF k = 0 THEN 0
        ELSE IF Digit(nibbles[k]) THEN 10 * number[k - 1] + nibbles[k] ELSE number[k - 1]
      magnitude == number[Len(nibbles)]
      negative == \/ (attr = "packed" /\ Last(bytes)[2] \in {11, 13})
                  \/ (attr = "zoned" /\ Last(bytes)[1] = 7)
  IN  IF negative THEN -magnitude ELSE magnitude

Init ==
  /\ call \in Calls
  /\ pc = "start"
  /\ idx = 0
  /\ sums = <<>>
  /\ condTrue = [c \in {call.prog.conditions[k].name : k \in DOMAIN call.prog.conditions} |-> 0]
  /\ invalid = 0
  /\ unsupported = 0
  /\ objects = <<>>
  /\ output = NoOutput

Refuse ==
  /\ pc = "start"
  /\ (call.op # "explain" /\ call.recordLen = 0) \/ ~call.parses \/ call.collides
  /\ pc' = "error"
  /\ UNCHANGED <<call, idx, sums, condTrue, invalid, unsupported, objects, output>>

Accept ==
  /\ pc = "start"
  /\ call.op # "explain" => call.recordLen > 0
  /\ call.parses /\ ~call.collides
  /\ pc' = "reading"
  /\ UNCHANGED <<call, idx, sums, condTrue, invalid, unsupported, objects, output>>

Records == Chunks(call.data, call.recordLen)
Rec == Records[idx + 1]

Laid == call.prog.laid
CategoryOf(l, rec) == Category(call.prog, l, rec, call.encoding)

ValidIn(l, rec) ==
  Slice(rec, l) # NoBytes /\ FieldValid(Attr(call.prog, l.name), Slice(rec, l))

(* Items are told by their place in the layout. *)
Of(category, rec) == FieldsIn({category}, call.prog, rec, call.encoding)
ValidNumeric(rec) == {k \in Of("numeric", rec) : ValidIn(Laid[k], rec)}

(* Mutant of Clamp: the sum is not bounded. *)
ClampNot(n) == n

Clamp(n) ==
  IF n > SumLimit THEN SumLimit ELSE IF n < -SumLimit - 1 THEN -SumLimit - 1 ELSE n

(* Mutant of Summed: a field that is not valid is summed as what it        *)
(* decodes to.                                                             *)
SummedDirty(rec) == Of("numeric", rec)

Summed(rec) == ValidNumeric(rec)

(* Each valid numeric field is added to its sum, and stays at the limit of *)
(* the integer when it would pass it.                                      *)
AddFields(acc, rec) ==
  LET new == [n \in {Laid[k].name : k \in Summed(rec)} |->
                LET k == CHOOSE k \in Summed(rec) : Laid[k].name = n
                IN  Value(Attr(call.prog, n), Slice(rec, Laid[k]))]
  IN  [n \in DOMAIN acc \cup DOMAIN new |->
         IF n \in DOMAIN new
         THEN Clamp((IF n \in DOMAIN acc THEN acc[n] ELSE 0) + new[n])
         ELSE acc[n]]

(* A condition is true when its parent's bytes are among those it names.   *)
Holds(cond, rec) ==
  /\ Decided(call.prog, cond, rec)
  /\ Slice(rec, Laid[Min(Named(call.prog, cond.parent))]) \in cond.when

TrueNow(name, rec) ==
  {k \in DOMAIN call.prog.conditions :
     call.prog.conditions[k].name = name /\ Holds(call.prog.conditions[k], rec)}

(* Mutant of InvalidIn: at most one invalid field of a record is counted.  *)
InvalidInOnce(rec) == IF Of("numeric", rec) = ValidNumeric(rec) THEN 0 ELSE 1

InvalidIn(rec) == Cardinality(Of("numeric", rec) \ ValidNumeric(rec))

TotalRecord ==
  /\ pc = "reading" /\ call.op = "totals"
  /\ idx < Len(Records)
  /\ sums' = AddFields(sums, Rec)
  /\ invalid' = invalid + InvalidIn(Rec)
  /\ unsupported' = unsupported + Cardinality(Of("unsupported", Rec))
  /\ condTrue' = [c \in DOMAIN condTrue |-> condTrue[c] + Cardinality(TrueNow(c, Rec))]
  /\ idx' = idx + 1
  /\ UNCHANGED <<call, pc, objects, output>>

Shown(rec) == FieldsIn({"numeric", "alphanumeric"}, call.prog, rec, call.encoding)
InvalidFields(rec) == {k \in Shown(rec) : ~ValidIn(Laid[k], rec)}

StopsAt(rec) == call.strict /\ InvalidFields(rec) # {}

RejectRecord ==
  /\ pc = "reading" /\ call.op = "decode"
  /\ idx < Len(Records)
  /\ StopsAt(Rec)
  /\ pc' = "error"
  /\ UNCHANGED <<call, idx, sums, condTrue, invalid, unsupported, objects, output>>

(* Fields of other categories are passed over, invalid ones shown and named. *)
DecodeRecord ==
  /\ pc = "reading" /\ call.op = "decode"
  /\ idx < Len(Records)
  /\ ~StopsAt(Rec)
  /\ objects' = Append(objects, [fields |-> Shown(Rec), invalid |-> InvalidFields(Rec)])
  /\ idx' = idx + 1
  /\ UNCHANGED <<call, pc, sums, condTrue, invalid, unsupported, output>>

Truth(cond, rec) ==
  IF ~Decided(call.prog, cond, rec) THEN "null"
  ELSE IF Holds(cond, rec) THEN "true" ELSE "false"

ExplainNothing ==
  /\ pc = "reading" /\ call.op = "explain"
  /\ Named(call.prog, call.field) = {}
  /\ pc' = "error"
  /\ UNCHANGED <<call, idx, sums, condTrue, invalid, unsupported, objects, output>>

(* Validity is judged by the declared domain, which has no answer but no   *)
(* for groups and edited pictures, decoded or not.                         *)
ExplainField ==
  /\ pc = "reading" /\ call.op = "explain"
  /\ Named(call.prog, call.field) # {}
  /\ LET l == Laid[Min(Named(call.prog, call.field))]
         conditions == call.prog.conditions
     IN  output' = [field |-> l.name, decoded |-> CategoryOf(l, call.data),
                    valid |-> ValidIn(l, call.data),
                    conditions |-> [k \in {k \in DOMAIN conditions : conditions[k].parent = l.name} |->
                                      Truth(conditions[k], call.data)]]
  /\ pc' = "done"
  /\ UNCHANGED <<call, idx, sums, condTrue, invalid, unsupported, objects>>

Finish ==
  /\ pc = "reading" /\ call.op # "explain"
  /\ idx = Len(Records)
  /\ output' = IF call.op = "decode" THEN [objects |-> objects]
               ELSE [recordCount |-> idx, sums |-> sums, conditions |-> condTrue,
                     invalid |-> invalid, unsupported |-> unsupported]
  /\ pc' = "done"
  /\ UNCHANGED <<call, idx, sums, condTrue, invalid, unsupported, objects>>

Terminated == pc \in {"done", "error"} /\ UNCHANGED vars

Next ==
  \/ Refuse \/ Accept
  \/ TotalRecord \/ RejectRecord \/ DecodeRecord \/ Finish
  \/ ExplainNothing \/ ExplainField
  \/ Terminated

Spec == Init /\ [][Next]_vars
-----------------------------------------------------------------------------
TypeOK ==
  /\ pc \in {"start", "reading", "done", "error"}
  /\ idx \in IF pc = "start" \/ call.op = "explain" THEN {0} ELSE 0..Len(call.data)
  /\ \A n \in DOMAIN sums : sums[n] \in (-SumLimit - 1)..SumLimit
  /\ invalid \in Nat /\ unsupported \in Nat
  /\ \A c \in DOMAIN condTrue : condTrue[c] \in Nat
  /\ Len(objects) = IF call.op = "decode" THEN idx ELSE 0
  /\ pc # "done" => output = NoOutput

Finished(op) == pc = "done" /\ call.op = op

NumericNames ==
  {n \in {Laid[k].name : k \in DOMAIN Laid} : Attr(call.prog, n) \in NumericDomains}

ItemOf(n) == Laid[Min(Named(call.prog, n))]

(* The sum of the valid values of a field after each record. *)
SumOf(n) ==
  LET sum[k \in 0..Len(Records)] ==
        IF k = 0 THEN 0
        ELSE IF ValidIn(ItemOf(n), Records[k])
             THEN sum[k - 1] + Value(Attr(call.prog, n), Slice(Records[k], ItemOf(n)))
        ELSE sum[k - 1]
  IN  sum

(* A sum is exact, over the valid values alone, as long as no partial sum  *)
(* passes the limit of the integer; a field without one has no sum.        *)
SumsExact ==
  Finished("totals") =>
    /\ DOMAIN output.sums =
         {n \in NumericNames : \E k \in DOMAIN Records : ValidIn(ItemOf(n), Records[k])}
    /\ \A n \in DOMAIN output.sums :
         (\A k \in DOMAIN Records : SumOf(n)[k] \in (-SumLimit - 1)..SumLimit)
         => output.sums[n] = SumOf(n)[Len(Records)]

(* The cells of a file, an item in a record each, that are fields of theirs. *)
Cells(fields) == {c \in (DOMAIN Records) \X (DOMAIN Laid) : c[2] \in fields[c[1]]}
Textual(rec) == FieldsIn({"group", "alphanumeric", "edited"}, call.prog, rec, call.encoding)

(* Every item with a picture is accounted for in every record: summed,     *)
(* invalid, unsupported, or of a category that has no sum; the totals      *)
(* leave out as invalid what decoding the same file names invalid, and     *)
(* what is explained as valid is what decoding shows and does not name     *)
(* invalid.                                                                *)
EveryFieldAccounted ==
  /\ Finished("explain") =>
       (output.valid <=> \E k \in Shown(call.data) \ InvalidFields(call.data) :
                           Laid[k].name = output.field)
  /\ Finished("totals") =>
       /\ output.recordCount * Len(Laid)
            = Cardinality(Cells([i \in DOMAIN Records |-> Textual(Records[i])]))
                + Cardinality(Cells([i \in DOMAIN Records |-> ValidNumeric(Records[i])]))
                + output.invalid + output.unsupported
       /\ output.invalid = Cardinality(Cells([i \in DOMAIN Records |-> InvalidFields(Records[i])]))

(* Valid zoned digits of a cp500 file are documented as decoded; they are  *)
(* not dirty.                                                              *)
EbcdicDigitsAreValid ==
  Finished("totals") /\ call.encoding = "cp500" =>
    \A k \in DOMAIN Records : \A j \in DOMAIN call.prog.laid :
      LET l == call.prog.laid[j] IN
      /\ Attr(call.prog, l.name) = "zoned"
      /\ Slice(Records[k], l) # NoBytes
      /\ \A b \in DOMAIN Slice(Records[k], l) :
           Slice(Records[k], l)[b][1] = 15 /\ Digit(Slice(Records[k], l)[b][2])
      => ValidIn(l, Records[k])
================================================================================
