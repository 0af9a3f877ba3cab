-------------------------------- MODULE Posting --------------------------------
(***************************************************************************)
(* posting_manifest (src/src/posting.rs): custody of a declared posting    *)
(* unit. One step per record extends a hash chain over the records in      *)
(* their order and collects sequence numbers and transaction ids; a last   *)
(* step looks for duplicates and gaps.                                     *)
(*                                                                         *)
(* A record is its bytes (raw) and what its two declared fields decode to: *)
(* a sequence number, Dirty, or NoField when the field is not decoded at   *)
(* all; a trimmed transaction id, or NoField. A hash is what was hashed,    *)
(* as a sequence of parts; that a record is not itself a hash followed by a *)
(* record follows from its length when all records of a unit are whole.     *)
(***************************************************************************)
EXTENDS Integers, Sequences, SequencesExt, FiniteSetsExt

CONSTANTS Calls, Records, NoField, Dirty

CallsTyped ==
  /\ \A c \in Calls : c.data \in Seq(Records)
  /\ \A rec \in Records : rec.seq \in Nat \cup {NoField, Dirty}

VARIABLES
  call,       \* the arguments, never written
  pc,         \* "start", "reading", "done" or "error"
  idx,        \* records read
  chain,      \* the hash chain so far, empty before the first record
  seqValues,  \* sequence numbers that parsed, in record order
  txnValues,  \* transaction ids found, in record order
  findings,   \* (rule, record), record 0 for what concerns the whole unit
  result      \* NoField until the function returns Ok

vars == <<call, pc, idx, chain, seqValues, txnValues, findings, result>>

Leaf(raw) == <<raw>>
Node(hash, raw) == <<hash, raw>>

Finding(rule, record) == [rule |-> rule, record |-> record]

Init ==
  /\ call \in Calls
  /\ pc = "start"
  /\ idx = 0
  /\ chain = <<>>
  /\ seqValues = <<>>
  /\ txnValues = <<>>
  /\ findings = <<>>
  /\ result = NoField

(* No record length, or no posting-unit id: nothing is read. *)
Refuse ==
  /\ pc = "start"
  /\ call.recordLen = 0 \/ ~call.hasUnitId
  /\ pc' = "error"
  /\ UNCHANGED <<call, idx, chain, seqValues, txnValues, findings, result>>

Accept ==
  /\ pc = "start"
  /\ call.recordLen > 0 /\ call.hasUnitId
  /\ pc' = "reading"
  /\ UNCHANGED <<call, idx, chain, seqValues, txnValues, findings, result>>

Rec == call.data[idx + 1]

(* Mutant of Extend: the hash of a record alone. *)
ExtendUnlinked(hash, raw) == Leaf(raw)

(* h_0 = sha256(r_0), h_i = sha256(h_{i-1} || r_i) *)
Extend(hash, raw) == IF hash = <<>> THEN Leaf(raw) ELSE Node(hash, raw)

(* Mutant of SequenceFinding: the record number is one too high. *)
SequenceFindingShifted(rec, i) ==
  IF ~call.hasSeq THEN <<>>
  ELSE IF rec.seq = NoField THEN <<Finding("NO-SEQUENCE", i + 1)>>
  ELSE IF rec.seq = Dirty THEN <<Finding("DIRTY-SEQUENCE", i + 1)>>
  ELSE <<>>

SequenceFinding(rec, i) ==
  IF ~call.hasSeq THEN <<>>
  ELSE IF rec.seq = NoField THEN <<Finding("NO-SEQUENCE", i)>>
  ELSE IF rec.seq = Dirty THEN <<Finding("DIRTY-SEQUENCE", i)>>
  ELSE <<>>

HasNumber(rec) == rec.seq \notin {NoField, Dirty}

(* A missing transaction id is left out without a finding. *)
ReadRecord ==
  /\ pc = "reading"
  /\ idx < Len(call.data)
  /\ chain' = Extend(chain, Rec.raw)
  /\ seqValues' = IF call.hasSeq /\ HasNumber(Rec)
                  THEN Append(seqValues, Rec.seq) ELSE seqValues
  /\ txnValues' = IF call.hasTxn /\ Rec.txn # NoField
                  THEN Append(txnValues, Rec.txn) ELSE txnValues
  /\ findings' = findings \o SequenceFinding(Rec, idx + 1)
  /\ idx' = idx + 1
  /\ UNCHANGED <<call, pc, result>>

AppendNew(list, x) == IF Contains(list, x) THEN list ELSE Append(list, x)

(* What a loop over a list collects that keeps the elements at some places, *)
(* each value once.                                                        *)
Collected(list, places) ==
  LET upto[k \in 0..Len(list)] ==
        IF k = 0 THEN <<>>
        ELSE IF k \in places THEN AppendNew(upto[k - 1], list[k])
        ELSE upto[k - 1]
  IN  upto[Len(list)]

(* A list of numbers sorted: at place k stands the number that fewer than k *)
(* elements are below and at least k are not above.                        *)
Sorted(list) ==
  [k \in DOMAIN list |->
     CHOOSE n \in ToSet(list) :
       /\ Cardinality({j \in DOMAIN list : list[j] < n}) < k
       /\ k <= Cardinality({j \in DOMAIN list : list[j] <= n})]

(* The places whose element is also the next one. *)
Doubled(list) == {k \in DOMAIN list : k + 1 \in DOMAIN list /\ list[k] = list[k + 1]}

(* Mutant of SeqDuplicates: neighbours are compared in record order. *)
SeqDuplicatesUnsorted == Collected(seqValues, Doubled(seqValues))

(* Neighbours in sorted order that are equal, each value once. *)
SeqDuplicates == Collected(Sorted(seqValues), Doubled(Sorted(seqValues)))

SeqMin == IF seqValues = <<>> THEN NoField ELSE Min(ToSet(seqValues))
SeqMax == IF seqValues = <<>> THEN NoField ELSE Max(ToSet(seqValues))

(* The numbers of a range that are not in the list, in order. *)
Missing(lo, hi, list) ==
  LET range == [k \in 1..(hi - lo + 1) |-> lo + k - 1]
  IN  Collected(range, {k \in DOMAIN range : range[k] \notin ToSet(list)})

(* Mutant of SeqGaps: the range runs from the first record to the last. *)
SeqGapsFirstToLast ==
  IF \/ ~call.contiguous \/ seqValues = <<>>
     \/ Last(seqValues) < Head(seqValues) THEN <<>>
  ELSE Missing(Head(seqValues), Last(seqValues), seqValues)

(* What is missing between the least and the greatest number, in order,    *)
(* when the caller declared the sequence contiguous.                       *)
SeqGaps ==
  IF ~call.contiguous \/ seqValues = <<>> THEN <<>>
  ELSE Missing(SeqMin, SeqMax, seqValues)

(* Ids already seen, each once, in the order they first repeat. *)
TxnDuplicates ==
  Collected(txnValues, {k \in DOMAIN txnValues : \E j \in 1..(k - 1) : txnValues[j] = txnValues[k]})

ReportIfAny(list, rule) == IF list = <<>> THEN <<>> ELSE <<Finding(rule, 0)>>

Finish ==
  /\ pc = "reading"
  /\ idx = Len(call.data)
  /\ findings' = findings \o ReportIfAny(SeqDuplicates, "DUPLICATE-SEQUENCE")
                          \o ReportIfAny(SeqGaps, "SEQUENCE-GAP")
                          \o ReportIfAny(TxnDuplicates, "DUPLICATE-TXN-ID")
  /\ result' = [count |-> idx, min |-> SeqMin, max |-> SeqMax,
                duplicates |-> SeqDuplicates, gaps |-> SeqGaps,
                txnDuplicates |-> TxnDuplicates, lastChain |-> chain]
  /\ pc' = "done"
  /\ UNCHANGED <<call, idx, chain, seqValues, txnValues>>

Terminated == pc \in {"done", "error"} /\ UNCHANGED vars

Next == Refuse \/ Accept \/ ReadRecord \/ Finish \/ Terminated

Spec == Init /\ [][Next]_vars
-----------------------------------------------------------------------------
Rules == {"NO-SEQUENCE", "DIRTY-SEQUENCE", "DUPLICATE-SEQUENCE",
          "SEQUENCE-GAP", "DUPLICATE-TXN-ID"}

TypeOK ==
  /\ call \in Calls
  /\ pc \in {"start", "reading", "done", "error"}
  /\ idx \in 0..Len(call.data)
  /\ seqValues \in Seq(Nat)
  /\ txnValues \in Seq({rec.txn : rec \in Records} \ {NoField})
  /\ findings \in Seq([rule : Rules, record : 0..idx])
  /\ (chain = <<>>) <=> (idx = 0)
  /\ result # NoField => pc = "done"

SequenceOf(i) == call.data[i].seq
Numbered == {i \in DOMAIN call.data : call.hasSeq /\ HasNumber(call.data[i])}
Times(n) == Cardinality({i \in Numbered : SequenceOf(i) = n})

(* The duplicates are the numbers that occur at least twice, each listed   *)
(* once and in order, however far apart the records are; a transaction id  *)
(* is listed once, exactly when two records carry it.                      *)
DuplicatesExact ==
  pc = "done" =>
    /\ ToSet(result.duplicates) = {SequenceOf(i) : i \in {i \in Numbered : Times(SequenceOf(i)) > 1}}
    /\ \A j, k \in DOMAIN result.duplicates :
         j < k => result.duplicates[j] < result.duplicates[k]
    /\ IsInjective(result.txnDuplicates)
    /\ ToSet(result.txnDuplicates) =
         IF ~call.hasTxn THEN {}
         ELSE {t \in {rec.txn : rec \in ToSet(call.data)} \ {NoField} :
                 \E i, j \in DOMAIN call.data :
                   i # j /\ call.data[i].txn = t /\ call.data[j].txn = t}

(* A unit declared contiguous whose manifest has no finding has every      *)
(* number from min to max exactly once, and as many records as numbers.    *)
CleanContiguousIsComplete ==
  pc = "done" /\ call.hasSeq /\ call.contiguous /\ findings = <<>> =>
    IF call.data = <<>> THEN result.min = NoField
    ELSE /\ \A n \in result.min..result.max : Times(n) = 1
         /\ result.count = result.max - result.min + 1

Raws == [i \in DOMAIN call.data |-> call.data[i].raw]

ChainOf(raws) ==
  LET hash[k \in 0..Len(raws)] == IF k = 0 THEN <<>> ELSE Extend(hash[k - 1], raws[k])
  IN  hash[Len(raws)]

(* The chain binds the records and their order: a unit of the same size or *)
(* any other, with the same last chain hash, has the same records in the   *)
(* same order.                                                             *)
ChainBindsOrder ==
  pc = "done" =>
    \A other \in BoundedSeq({rec.raw : rec \in Records}, Len(call.data) + 1) :
      ChainOf(other) = result.lastChain => other = Raws
===============================================================================
