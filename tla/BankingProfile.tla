--------------------------- MODULE BankingProfile ---------------------------
(***************************************************************************)
(* The declared profile of the banking court (src/src/banking.rs): the     *)
(* variant table that routes a record by its discriminator, the polarity   *)
(* tables that give a detail its posting side, and the calls the court is  *)
(* asked to judge.                                                         *)
(*                                                                         *)
(* A record stands for the bytes of one chunk together with what the       *)
(* decoder makes of them: its discriminator, the amount and indicator a    *)
(* detail layout yields, and the three totals a trailer layout yields.     *)
(* NoField is Rust's None, whatever the reason (the record does not decode,*)
(* the layout lacks the field, the value is not a clean two-decimal number).*)
(***************************************************************************)
EXTENDS Integers, Sequences, FiniteSets

CONSTANTS
  NoField,          \* None
  Records,          \* the chunks a file can hold
  Calls,            \* the arguments reconcile_banking is called with
  VariantTable,     \* VariantSpec.variants, in declaration order
  DetailVariant,    \* ControlSpec.detail_variant
  TrailerVariant,   \* ControlSpec.trailer_variant
  DebitValues,      \* PolarityProfile.debit_values
  CreditValues      \* PolarityProfile.credit_values

(* The numbers a trailer declares and the court observes. *)
Totals == {"count", "debit", "credit"}

NumericRole ==
  {"Amount", "Rate", "Identifier", "Code", "Sequence", "Count", "Unknown"}

ASSUME ProfileAssumption ==
  /\ NoField \notin Int
  /\ \A rec \in Records :
        /\ rec.amount \in Int \cup {NoField}
        /\ rec.trailer \in [Totals -> Int \cup {NoField}]
  /\ Len(VariantTable) \in Nat
  /\ DOMAIN VariantTable = 1..Len(VariantTable)
  /\ \A c \in Calls :
        /\ c.data \in Seq(Records)
        /\ c.recordLen \in Nat /\ c.build \in {"release", "debug"}
        /\ c.roles \in Seq(NumericRole)
        /\ c.partialTail \in BOOLEAN
        /\ c.partialTail => c.data # <<>>

VariantNames == {VariantTable[k].name : k \in DOMAIN VariantTable}

(* The rows of the variant table whose discriminator the record carries.   *)
(* A record too short to hold a discriminator carries the empty one.       *)
RowsFor(rec) == {k \in DOMAIN VariantTable : VariantTable[k].disc = rec.disc}

IsRouted(rec) == RowsFor(rec) # {}

(* The first matching row wins. *)
VariantOf(rec) ==
  VariantTable[CHOOSE k \in RowsFor(rec) : \A j \in RowsFor(rec) : k <= j].name

IsDetail(rec) == IsRouted(rec) /\ VariantOf(rec) = DetailVariant

(* The detail test comes first, so a profile naming one variant for both   *)
(* has no trailer.                                                         *)
IsTrailer(rec) ==
  /\ IsRouted(rec)
  /\ VariantOf(rec) = TrailerVariant
  /\ TrailerVariant # DetailVariant

(* The posting side of a detail: never the sign of the amount, only the    *)
(* indicator against the declared tables, the debit table first.           *)
SideOf(rec) ==
  IF rec.amount = NoField \/ rec.indicator = NoField THEN "dirty"
  ELSE IF rec.indicator \in DebitValues THEN "debit"
  ELSE IF rec.indicator \in CreditValues THEN "credit"
  ELSE "unknown"

(* The role declared for polarity.amount_field: the first declaration wins,*)
(* a field nobody declared is Unknown.                                     *)
AmountRole(call) == IF call.roles = <<>> THEN "Unknown" ELSE Head(call.roles)
=============================================================================
