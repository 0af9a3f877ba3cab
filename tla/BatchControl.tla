------------------------------ MODULE BatchControl ------------------------------
(***************************************************************************)
(* batch_control (src/src/batch_control.rs): the amounts of the detail     *)
(* records are collected one by one and summed at the finest scale among   *)
(* them; the trailer's count and total are compared with what was seen.    *)
(*                                                                         *)
(* A field's text is the decimal parse_dec makes of it, or NoNumber when   *)
(* it makes none (a missing field, a field the record is too short for, a  *)
(* text, more digits than the machine integer holds). Machine integers are *)
(* -IntMax - 1 .. IntMax; a debug build checks for overflow and stops where *)
(* one would not fit, a release build wraps.                               *)
(***************************************************************************)
EXTENDS Integers, Sequences, FiniteSetsExt, Arithmetic

CONSTANTS Calls, IntMax, NoNumber

VARIABLES
  call,      \* the arguments, never written
  pc,        \* "details", "summing", "trailer", "done", "error" or "panic"
  idx,       \* detail records read
  amounts,   \* the decimals found so far
  observed,  \* the observed total, a decimal or NoNumber
  verdict    \* [count, total]: the two matches

vars == <<call, pc, idx, amounts, observed, verdict>>

(* The value of a decimal is magnitude / 10^scale, with its sign. *)
Decimal(negative, magnitude, scale) ==
  [negative |-> negative, magnitude |-> magnitude, scale |-> scale]

Decimals == [negative : BOOLEAN, magnitude : 0..IntMax, scale : Nat]

CallsTyped ==
  /\ IntMax \in Nat
  /\ NoNumber \notin Decimals
  /\ \A c \in Calls :
       /\ c.details \in Seq(Decimals \cup {NoNumber})
       /\ {c.count, c.total} \subseteq Decimals \cup {NoNumber}

OverflowChecks == call.build = "debug"

Fits(n) == n \in (-IntMax - 1)..IntMax
Wrap(n) == ((n + IntMax + 1) % (2 * (IntMax + 1))) - IntMax - 1

(* A magnitude moved to another scale, before it is squeezed into an integer. *)
Moved(d, scale) ==
  IF d.scale <= scale THEN d.magnitude * TenTo(scale - d.scale)
  ELSE d.magnitude \div TenTo(d.scale - scale)

MoveFits(d, scale) ==
  Fits(Moved(d, scale)) /\ (d.scale < scale => Fits(TenTo(scale - d.scale)))

(* Mutant of SignedAtScale: the scales are not brought together. *)
SignedUnscaled(d, scale) == IF d.negative THEN -d.magnitude ELSE d.magnitude

SignedAtScale(d, scale) ==
  LET magnitude == Wrap(Moved(d, scale))
  IN  IF d.negative THEN Wrap(-magnitude) ELSE magnitude

Init ==
  /\ call \in Calls
  /\ pc = "details"
  /\ idx = 0
  /\ amounts = <<>>
  /\ observed = NoNumber
  /\ verdict = [count |-> FALSE, total |-> FALSE]

(* A copybook is parsed anew for every record it decodes; with no detail   *)
(* record the detail copybook is never looked at.                          *)
RefuseDetail ==
  /\ pc = "details"
  /\ idx < Len(call.details)
  /\ ~call.detailParses
  /\ pc' = "error"
  /\ UNCHANGED <<call, idx, amounts, observed, verdict>>

ReadDetail ==
  /\ pc = "details"
  /\ idx < Len(call.details)
  /\ call.detailParses
  /\ amounts' = LET amount == call.details[idx + 1]
                IN  IF amount = NoNumber THEN amounts ELSE Append(amounts, amount)
  /\ idx' = idx + 1
  /\ pc' = IF idx' = Len(call.details) THEN "summing" ELSE pc
  /\ UNCHANGED <<call, observed, verdict>>

NoDetails ==
  /\ pc = "details"
  /\ call.details = <<>>
  /\ pc' = "summing"
  /\ UNCHANGED <<call, idx, amounts, observed, verdict>>

(* Mutant of SumScale: the scale of the first amount. *)
SumScaleFirst == IF amounts = <<>> THEN 0 ELSE amounts[1].scale

Scales(list) == {list[k].scale : k \in {k \in DOMAIN list : list[k] # NoNumber}}
SumScale == Max({0} \cup Scales(amounts))

Terms == [k \in DOMAIN amounts |-> SignedAtScale(amounts[k], SumScale)]

(* Nothing overflows: no term when it is scaled, no partial sum. *)
SumFits ==
  /\ \A k \in DOMAIN amounts : MoveFits(amounts[k], SumScale)
  /\ \A k \in DOMAIN Terms : Fits(Sums(Terms)[k])

PanicSum ==
  /\ pc = "summing"
  /\ OverflowChecks /\ ~SumFits
  /\ pc' = "panic"
  /\ UNCHANGED <<call, idx, amounts, observed, verdict>>

(* Mutant of Printed: the sign is printed and the magnitude keeps its own. *)
PrintedSigned ==
  LET total == Wrap(Total(Terms))
  IN  IF total = -IntMax - 1 THEN NoNumber ELSE Decimal(total < 0, total, SumScale)

(* The total is printed and read back: the least integer has a magnitude   *)
(* that cannot be read.                                                    *)
Printed ==
  LET total == Wrap(Total(Terms))
  IN  IF total = -IntMax - 1 THEN NoNumber
      ELSE Decimal(total < 0, IF total < 0 THEN -total ELSE total, SumScale)

Sum ==
  /\ pc = "summing"
  /\ OverflowChecks => SumFits
  /\ observed' = Printed
  /\ pc' = "trailer"
  /\ UNCHANGED <<call, idx, amounts, verdict>>

RefuseTrailer ==
  /\ pc = "trailer"
  /\ ~call.trailerParses
  /\ pc' = "error"
  /\ UNCHANGED <<call, idx, amounts, observed, verdict>>

(* Both totals are compared at the finer of their two scales. *)
CommonScale == Max({call.total.scale, observed.scale})
BothNumbers == call.total # NoNumber /\ observed # NoNumber
CompareFits ==
  BothNumbers => MoveFits(call.total, CommonScale) /\ MoveFits(observed, CommonScale)

PanicCompare ==
  /\ pc = "trailer"
  /\ call.trailerParses
  /\ OverflowChecks /\ ~CompareFits
  /\ pc' = "panic"
  /\ UNCHANGED <<call, idx, amounts, observed, verdict>>

(* The digits of the declared count are compared, not its sign or scale. *)
CountMatch == call.count # NoNumber /\ call.count.magnitude = Len(call.details)

TotalMatch ==
  /\ BothNumbers
  /\ SignedAtScale(call.total, CommonScale) = SignedAtScale(observed, CommonScale)

Compare ==
  /\ pc = "trailer"
  /\ call.trailerParses
  /\ OverflowChecks => CompareFits
  /\ verdict' = [count |-> CountMatch, total |-> TotalMatch]
  /\ pc' = "done"
  /\ UNCHANGED <<call, idx, amounts, observed>>

Terminated == pc \in {"done", "error", "panic"} /\ UNCHANGED vars

Next ==
  \/ RefuseDetail \/ ReadDetail \/ NoDetails
  \/ PanicSum \/ Sum
  \/ RefuseTrailer \/ PanicCompare \/ Compare
  \/ Terminated

Spec == Init /\ [][Next]_vars
-----------------------------------------------------------------------------
TypeOK ==
  /\ pc \in {"details", "summing", "trailer", "done", "error", "panic"}
  /\ idx \in 0..Len(call.details)
  /\ Len(amounts) <= idx
  /\ observed # NoNumber => observed.magnitude \in 0..IntMax
  /\ verdict \in [count : BOOLEAN, total : BOOLEAN]

(* What the records and the trailer say, as exact numbers of the finest    *)
(* unit any of them uses.                                                  *)
Finest ==
  Max({0} \cup Scales(call.details)
      \cup (IF call.total = NoNumber THEN {} ELSE {call.total.scale}))
Exact(d) ==
  LET units == d.magnitude * TenTo(Finest - d.scale) IN IF d.negative THEN -units ELSE units
ExactTotal ==
  Total([k \in DOMAIN call.details |->
           IF call.details[k] = NoNumber THEN 0 ELSE Exact(call.details[k])])
TotalsAgree == call.total # NoNumber /\ Exact(call.total) = ExactTotal

NumbersFit ==
  /\ SumFits
  /\ Fits(TenTo(Finest))
  /\ Fits(ExactTotal) /\ ExactTotal # -IntMax - 1
  /\ call.total # NoNumber => Fits(Exact(call.total)) /\ Exact(call.total) # -IntMax - 1

(* Every build decides a batch whose numbers fit: the totals match exactly *)
(* when the trailer's is the sum, however the scales of the amounts and of *)
(* the trailer differ and in whatever order the records come. Where they   *)
(* do not fit, a build with overflow checks reports no total as matching   *)
(* that is not the exact sum: it stops with no verdict.                    *)
MatchExact ==
  /\ pc \in {"done", "panic"} /\ NumbersFit => pc = "done" /\ (verdict.total <=> TotalsAgree)
  /\ pc = "done" /\ OverflowChecks /\ verdict.total => TotalsAgree
================================================================================
