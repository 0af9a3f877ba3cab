---------------------------- MODULE BankingCourt ----------------------------
(***************************************************************************)
(* What the banking court promises its caller, with no loop, no record     *)
(* index and no running totals: from the arguments alone, a call is        *)
(* refused, or aborted by an overflow, or judged reconciled or not.        *)
(***************************************************************************)
EXTENDS BankingProfile, FiniteSetsExt

CONSTANTS MinCents, MaxCents

VARIABLES case, outcome

vars == <<case, outcome>>

Details(data) == {i \in DOMAIN data : IsDetail(data[i])}
Trailers(data) == {i \in DOMAIN data : IsTrailer(data[i])}
Posted(data, side) == {i \in Details(data) : SideOf(data[i]) = side}

(* The mathematical sum of one side, independent of any order. *)
TrueTotal(data, side) ==
  LET amount(i) == data[i].amount IN MapThenSumSet(amount, Posted(data, side))

InWidth(n) == MinCents <= n /\ n <= MaxCents

(* Two totals no i64 can tell apart. *)
SameCents(declared, total) ==
  declared # NoField /\ InWidth(declared)
    /\ (declared - total) % (MaxCents - MinCents + 1) = 0

(* Some prefix of the file takes a side out of range. *)
Overflows(data) ==
  \E n \in DOMAIN data, side \in {"debit", "credit"} :
    ~InWidth(TrueTotal(SubSeq(data, 1, n), side))

DeclaredBy(data) == data[Max(Trailers(data))].trailer

Reconciles(c) ==
  /\ AmountRole(c) = "Amount"
  /\ \A i \in DOMAIN c.data : IsRouted(c.data[i])
  /\ Details(c.data) = Posted(c.data, "debit") \cup Posted(c.data, "credit")
  /\ Trailers(c.data) # {}
  /\ DeclaredBy(c.data)["count"] = Cardinality(Details(c.data))
  /\ \A side \in {"debit", "credit"} :
        SameCents(DeclaredBy(c.data)[side], TrueTotal(c.data, side))

Judgement(c) ==
  IF c.recordLen = 0 THEN "refused"
  ELSE IF c.build = "debug" /\ Overflows(c.data) THEN "aborted"
  ELSE IF Reconciles(c) THEN "balanced"
  ELSE "warned"

Init == case \in Calls /\ outcome = "pending"

Judge == outcome = "pending" /\ outcome' = Judgement(case) /\ UNCHANGED case

Safety == Init /\ [][Judge]_vars

Spec == Safety /\ WF_vars(Judge)
=============================================================================
