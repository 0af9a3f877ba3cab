------------------------------- MODULE Transform -------------------------------
(***************************************************************************)
(* reconcile_transform (src/src/recon2.rs): declared transforms are        *)
(* applied one after the other to a copy of a record. One that cannot be   *)
(* applied leaves a finding and the next one is tried.                     *)
(*                                                                         *)
(* The bytes of a record are digits. set_88_true and cob_arith belong to   *)
(* the numeric kernel: the first yields the literal of the condition, the  *)
(* second a sum, and what it does with one that does not fit is a choice.  *)
(***************************************************************************)
EXTENDS Integers, Sequences, SequencesExt, FiniteSetsExt, Arithmetic

CONSTANTS Calls, NoAmount, Malformed,
  Garbage  \* operands a literal that is no decimal may turn into

(* Items and conditions as a copybook lays them out, a record of digits, of *)
(* which ten and more carry a sign.                                        *)
Items ==
  [name : STRING, offset : Nat, size : Nat, scale : Nat, kind : STRING, signed : BOOLEAN]
Amounts == [negative : BOOLEAN, whole : Seq(0..9), fraction : Seq(0..9)]

CallsTyped ==
  /\ Garbage \subseteq Int
  /\ \A c \in Calls :
       /\ c.laid \in Seq(Items)
       /\ c.conditions \in Seq([name : STRING, parent : STRING, literal : Seq(0..19)])
       /\ c.record \in Seq(0..19)
       /\ c.transforms \in Seq([op : {"set", "add", "subtract"}, target : STRING,
                                amount : Amounts \cup {NoAmount, Malformed}])

VARIABLES
  call,      \* [build, parses, laid, conditions, record, transforms], never written
  pc,        \* "applying", "done", "error" or "panic"
  at,        \* the transform to apply next
  after,     \* the record as the transforms leave it
  applied,   \* the transforms applied, in order
  findings,  \* <<rule, transform>> for each that was not
  delta      \* the names of the fields whose value changed

vars == <<call, pc, at, after, applied, findings, delta>>

Init ==
  /\ call \in Calls
  /\ pc = "applying"
  /\ at = 1
  /\ after = call.record
  /\ applied = <<>>
  /\ findings = <<>>
  /\ delta = {}

Refuse ==
  /\ pc = "applying" /\ ~call.parses
  /\ pc' = "error"
  /\ UNCHANGED <<call, at, after, applied, findings, delta>>

Applying == pc = "applying" /\ call.parses /\ at <= Len(call.transforms)
Current == call.transforms[at]

(* The first item or condition of a name, as a set of none or one. *)
FirstNamed(list, name) ==
  LET places == {k \in DOMAIN list : list[k].name = name}
  IN  IF places = {} THEN {} ELSE {list[Min(places)]}

(* The item a transform writes to: the parent of a condition, or a field.  *)
Condition == FirstNamed(call.conditions, Current.target)
TargetItem ==
  IF Current.op = "set"
  THEN UNION {FirstNamed(call.laid, c.parent) : c \in Condition}
  ELSE FirstNamed(call.laid, Current.target)

(* A condition's parent must have a picture, an operand must be a number. *)
Admissible(item) ==
  IF Current.op = "set" THEN item.kind # "group" ELSE item.kind = "numeric"

InRecord(item) == item.offset + item.size <= Len(after)
Bytes(rec, item) == SubSeq(rec, item.offset + 1, item.offset + item.size)

(* Mutant of Write: the field is taken to end one byte later. *)
WriteLong(rec, item, bytes) ==
  [k \in DOMAIN rec |->
     IF k \in (item.offset + 1)..(item.offset + item.size + 1)
     THEN (bytes \o <<0>>)[k - item.offset] ELSE rec[k]]

Write(rec, item, bytes) ==
  [k \in DOMAIN rec |->
     IF k - item.offset \in DOMAIN bytes THEN bytes[k - item.offset] ELSE rec[k]]

(* A digit of ten or more is negative in the last place of a number. *)
Magnitude(digits) ==
  LET upto[k \in 0..Len(digits)] ==
        IF k = 0 THEN 0 ELSE 10 * upto[k - 1] + (digits[k] % 10)
  IN  upto[Len(digits)]
Number(digits) == IF Last(digits) >= 10 THEN -Magnitude(digits) ELSE Magnitude(digits)
Digits(n, size) == [k \in 1..size |-> (n \div TenTo(size - k)) % 10]
Stored(n, item) ==
  IF n < 0 /\ item.signed
  THEN LET digits == Digits(-n, item.size) IN [digits EXCEPT ![item.size] = @ + 10]
  ELSE Digits(IF n < 0 THEN -n ELSE n, item.size)

(* amount_bytes: the literal at the field's scale, with one digit before   *)
(* the point at least; further decimals and higher digits are cut off.     *)
Operand(amount, item) ==
  LET whole == IF item.size > item.scale THEN item.size - item.scale ELSE 1
      cents == SubSeq(amount.fraction \o [k \in 1..item.scale |-> 0], 1, item.scale)
      magnitude == Magnitude(amount.whole \o cents) % TenTo(whole + item.scale)
  IN  IF amount.negative THEN -magnitude ELSE magnitude

(* A literal that is no decimal gives an operand nobody chose,            *)
(* in a build that does not stop at the subtraction that makes it.         *)
Operands(item) ==
  IF Current.amount = Malformed THEN Garbage
  ELSE {Operand(Current.amount, item)}

(* cob_arith: an unsigned field keeps the magnitude. A result too large    *)
(* either fails closed or loses its high digits.                           *)
Arith(item, operand) ==
  LET n == Number(Bytes(after, item)) + (IF Current.op = "add" THEN operand ELSE -operand)
      limit == TenTo(item.size)
  IN  IF n \in (-limit + 1)..(limit - 1) THEN {Stored(n, item)}
      ELSE {<<>>, Stored(IF n < 0 THEN -((-n) % limit) ELSE n % limit, item)}

(* What the kernel may return for the current transform, <<>> if it fails. *)
Results(item) ==
  IF Current.op = "set" THEN {c.literal : c \in Condition}
  ELSE UNION {Arith(item, n) : n \in Operands(item)}

Report(rule) ==
  /\ findings' = Append(findings, <<rule, at>>)
  /\ at' = at + 1
  /\ UNCHANGED <<call, pc, after, applied, delta>>

NeedsAmount == Current.op # "set" /\ Current.amount = NoAmount

(* No amount, no such name, no picture or no number: nothing is written. *)
Undeclared ==
  /\ Applying
  /\ NeedsAmount \/ TargetItem = {} \/ (\E item \in TargetItem : ~Admissible(item))
  /\ Report("undeclared")

(* The digits of the literal are made by a subtraction from each byte. *)
Stops == call.build = "debug" /\ Current.op # "set" /\ Current.amount = Malformed

(* The bytes of the field are taken without a look at the record's length  *)
(* once there is something to write, or to add to.                         *)
OutOfRecord ==
  /\ Applying /\ ~NeedsAmount /\ ~Stops
  /\ \E item \in TargetItem :
       /\ Admissible(item)
       /\ ~InRecord(item)
       /\ Current.op = "set" => \E bytes \in Results(item) : Len(bytes) = item.size
  /\ pc' = "panic"
  /\ UNCHANGED <<call, at, after, applied, findings, delta>>

MalformedAmount ==
  /\ Applying /\ Stops
  /\ \E item \in TargetItem : Admissible(item)
  /\ pc' = "panic"
  /\ UNCHANGED <<call, at, after, applied, findings, delta>>

(* The kernel fails, or returns something that is not the field's size.    *)
Fail ==
  /\ Applying /\ ~NeedsAmount /\ ~Stops
  /\ \E item \in TargetItem :
       /\ Admissible(item)
       /\ Current.op # "set" => InRecord(item)
       /\ \E bytes \in Results(item) : Len(bytes) # item.size
  /\ Report("failed")

(* Mutant of Apply: the transform is applied to the record as it came in. *)
ApplyToInput ==
  /\ Applying /\ ~NeedsAmount /\ ~Stops
  /\ \E item \in TargetItem :
       /\ Admissible(item) /\ InRecord(item)
       /\ \E bytes \in Results(item) :
            /\ Len(bytes) = item.size
            /\ after' = Write(call.record, item, bytes)
  /\ applied' = Append(applied, at)
  /\ at' = at + 1
  /\ UNCHANGED <<call, pc, findings, delta>>

Apply ==
  /\ Applying /\ ~NeedsAmount /\ ~Stops
  /\ \E item \in TargetItem :
       /\ Admissible(item) /\ InRecord(item)
       /\ \E bytes \in Results(item) :
            /\ Len(bytes) = item.size
            /\ after' = Write(after, item, bytes)
  /\ applied' = Append(applied, at)
  /\ at' = at + 1
  /\ UNCHANGED <<call, pc, findings, delta>>

(* Fields that share storage each have a value; groups have none. *)
Changed ==
  {item \in ToSet(call.laid) :
     item.kind # "group" /\ InRecord(item) /\ Bytes(call.record, item) # Bytes(after, item)}

Finish ==
  /\ pc = "applying" /\ call.parses
  /\ at > Len(call.transforms)
  /\ delta' = {item.name : item \in Changed}
  /\ pc' = "done"
  /\ UNCHANGED <<call, at, after, applied, findings>>

Terminated == pc \in {"done", "error", "panic"} /\ UNCHANGED vars

Next ==
  \/ Refuse
  \/ Undeclared \/ OutOfRecord \/ MalformedAmount \/ Fail \/ Apply
  \/ Finish
  \/ Terminated

Spec == Init /\ [][Next]_vars
-----------------------------------------------------------------------------
TypeOK ==
  /\ pc \in {"applying", "done", "error", "panic"}
  /\ at \in 1..(Len(call.transforms) + 1)
  /\ after \in [DOMAIN call.record -> 0..19]
  /\ ToSet(applied) \cup {f[2] : f \in ToSet(findings)} = 1..(at - 1)
  /\ Len(applied) + Len(findings) = at - 1

ItemOf(t) ==
  UNION {FirstNamed(call.laid, n) :
           n \in IF t.op = "set" THEN {c.parent : c \in FirstNamed(call.conditions, t.target)}
                 ELSE {t.target}}
Storage(items) == UNION {(i.offset + 1)..(i.offset + i.size) : i \in items}
AppliedTo(k) == ItemOf(call.transforms[applied[k]])

(* A byte that differs from the input lies in a field some applied         *)
(* transform writes; one rejected, or of a neighbouring field, changed     *)
(* nothing.                                                                *)
OnlyAppliedTargetsChange ==
  \A k \in DOMAIN after : after[k] # call.record[k] =>
    \E j \in DOMAIN applied : k \in Storage(AppliedTo(j))

(* The applied transforms that write into a field's storage, the amount    *)
(* each declares, and what they add up to after the first n.               *)
Writers(item) ==
  {k \in DOMAIN applied : Storage(AppliedTo(k)) \cap Storage({item}) # {}}
Declared(t, item) ==
  LET cents == SubSeq(t.amount.fraction \o [k \in 1..item.scale |-> 0], 1, item.scale)
      magnitude == Magnitude(t.amount.whole \o cents)
  IN  IF (t.op = "add") # t.amount.negative THEN magnitude ELSE -magnitude
Net(item, n) ==
  Number(Bytes(call.record, item))
    + Sums([k \in DOMAIN applied |->
              IF k \in Writers(item) THEN Declared(call.transforms[applied[k]], item) ELSE 0])[n]
Values(item) == (IF item.signed THEN -TenTo(item.size) + 1 ELSE 0)..(TenTo(item.size) - 1)

(* Only additions to the field itself write into its storage, of amounts   *)
(* that have no more digits than it, and no sum leaves its range.          *)
AddedOnly(item) ==
  /\ FirstNamed(call.laid, item.name) = {item}
  /\ \A k \in Writers(item) :
       LET t == call.transforms[applied[k]]
       IN  /\ t.op # "set" /\ t.target = item.name /\ t.amount # Malformed
           /\ Len(t.amount.whole) <= item.size - item.scale
  /\ \A k \in Writers(item) : Net(item, k) \in Values(item)

(* Transforms compose: a field written by its own additions only holds its *)
(* first value and all their amounts.                                      *)
TransformsCompose ==
  \A item \in ToSet(call.laid) :
    item.kind = "numeric" /\ InRecord(item) /\ AddedOnly(item)
      => Number(Bytes(after, item)) = Net(item, Len(applied))
================================================================================
