-------------------------------- MODULE Decode --------------------------------
(***************************************************************************)
(* What decode_fields, eval_conditions (src/src/lib.rs) and record_object  *)
(* (src/src/recon.rs) make of one record: which fields are reported with a *)
(* value, which are unsupported, which conditions have a truth value. The  *)
(* values themselves are the numeric kernel's and are left out.            *)
(*                                                                         *)
(* A record is a sequence of bytes; Junk is the set of bytes that the      *)
(* kernel's edited-picture decoder and condition evaluator reject.         *)
(***************************************************************************)
EXTENDS Integers, Sequences, SequencesExt, FiniteSetsExt

CONSTANTS Junk, NoBytes

Encodings == {"ascii", "cp500"}

(* A call either returns its evidence or says why it does not. *)
Refusal(why) == [ok |-> FALSE, why |-> why]

(* A program: laid-out items in order, the domain of each name that has a  *)
(* picture, and the conditions with the name of their parent.              *)
NumericDomains == {"zoned", "packed", "comp6", "binary"}
Attrs == NumericDomains \cup {"alphanumeric", "edited", "unsupported"}

Attr(prog, name) ==
  IF name \in DOMAIN prog.attrs THEN prog.attrs[name] ELSE "none"

(* Mutant of Slice: a record too short yields the bytes it has. *)
SliceClipped(rec, l) ==
  SubSeq(rec, l.offset + 1,
         IF l.offset + l.size < Len(rec) THEN l.offset + l.size ELSE Len(rec))

Slice(rec, l) ==
  IF l.offset + l.size <= Len(rec)
  THEN SubSeq(rec, l.offset + 1, l.offset + l.size) ELSE NoBytes

HasJunk(bytes) == \E k \in DOMAIN bytes : bytes[k] \in Junk

(* A field the record is too short for, an edited picture under cp500 or   *)
(* with bytes it rejects: unsupported, never guessed. Zoned digits have a  *)
(* decoder for either encoding.                                            *)
Category(prog, l, rec, encoding) ==
  LET attr == Attr(prog, l.name)
      bytes == Slice(rec, l)
  IN  IF attr = "none" THEN "group"
      ELSE IF \/ bytes = NoBytes
              \/ attr = "edited" /\ (encoding = "cp500" \/ HasJunk(bytes))
           THEN "unsupported"
      ELSE IF attr \in NumericDomains THEN "numeric"
      ELSE attr

(* The parent is the first laid-out item of that name. *)
Decided(prog, cond, rec) ==
  LET parents == {k \in DOMAIN prog.laid : prog.laid[k].name = cond.parent}
      bytes == Slice(rec, prog.laid[Min(parents)])
  IN  /\ parents # {}
      /\ Attr(prog, cond.parent) # "none"
      /\ bytes # NoBytes
      /\ ~HasJunk(bytes)

(* The items of a record in one of those categories, by their place in the *)
(* layout, which is the order they are written in.                         *)
FieldsIn(categories, prog, rec, encoding) ==
  {k \in DOMAIN prog.laid : Category(prog, prog.laid[k], rec, encoding) \in categories}

UndecidedConditions(prog, rec) ==
  {k \in DOMAIN prog.conditions : ~Decided(prog, prog.conditions[k], rec)}

(* What a record leaves in the unsupported ledger: its fields, then its    *)
(* conditions.                                                             *)
Unsupported(prog, rec, encoding) ==
  ({"field"} \X FieldsIn({"unsupported"}, prog, rec, encoding))
    \cup ({"condition"} \X UndecidedConditions(prog, rec))

(* The object written for record number index: the fields with a value,    *)
(* where its bytes are in the file, and what it does not support.          *)
RecordObject(call, index, rec) ==
  [index       |-> index,
   fields      |-> FieldsIn({"numeric", "alphanumeric", "edited"}, call.prog, rec, call.encoding),
   rawOffset   |-> index * call.recordLen,
   raw         |-> rec,
   unsupported |-> Unsupported(call.prog, rec, call.encoding)]

(* data.chunks(record_len): the last chunk may be short, never empty.      *)
Chunks(data, recordLen) ==
  [k \in 1..((Len(data) + recordLen - 1) \div recordLen) |->
     SubSeq(data, (k - 1) * recordLen + 1,
            IF k * recordLen < Len(data) THEN k * recordLen ELSE Len(data))]
===============================================================================
