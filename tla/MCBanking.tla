----------------------------- MODULE MCBanking -----------------------------
(***************************************************************************)
(* A small bank file: one header, details of two amounts and every kind of *)
(* indicator, an unroutable record and trailers that are right, wrong or   *)
(* dirty for some file of up to MaxRecords records.                        *)
(***************************************************************************)
EXTENDS Banking, SequencesExt

CONSTANT MaxRecords

MCVariantTable == <<[disc |-> "H", name |-> "header"],
                    [disc |-> "D", name |-> "detail"],
                    [disc |-> "T", name |-> "trailer"],
                    [disc |-> "T", name |-> "header"]>>

NoTrailer == [t \in Totals |-> NoField]

Detail(amount, indicator) ==
  [disc |-> "D", amount |-> amount, indicator |-> indicator, trailer |-> NoTrailer]

Other(disc) ==
  [disc |-> disc, amount |-> 3, indicator |-> "D", trailer |-> NoTrailer]

Trailer(count, debit, credit) ==
  [Other("T") EXCEPT !.trailer =
     [t \in Totals |-> IF t = "count" THEN count
                       ELSE IF t = "debit" THEN debit ELSE credit]]

MCMinCents == -4
MCMaxCents == 3

(* Two details of 3 overflow; Trailer(2, -2, 0) is what they wrap to. *)
MCRecords ==
  {Other("H"), Other("short"),
   Detail(3, "D"), Detail(3, "C"), Detail(-2, "DC"),
   Detail(3, "X"), Detail(3, NoField), Detail(NoField, "D"),
   Trailer(0, 0, 0), Trailer(1, 3, 0), Trailer(2, 3, 3), Trailer(2, 1, 0),
   Trailer(2, -2, 0), Trailer(1, NoField, 0)}

(* Fewer kinds of record, for longer files in a build that checks.         *)
MCLongRecords ==
  {Detail(3, "D"), Detail(-2, "DC"), Detail(1, "C"), Detail(3, "X"),
   Trailer(3, 2, 0), Trailer(3, 1, 1)}

MCAllRecords == MCRecords \cup MCLongRecords

MCDebit == {"D", "DC"}
MCCredit == {"C", "DC"}

MCCalls ==
  [data : BoundedSeq(MCRecords, MaxRecords), recordLen : {1}, build : {"release"},
   roles : {<<"Amount">>, <<"Rate", "Amount">>}, partialTail : {FALSE}]
  \cup
  [data : BoundedSeq(MCLongRecords, MaxRecords + 1), recordLen : {1}, build : {"debug"},
   roles : {<<"Amount">>}, partialTail : {FALSE}]
  \cup
  [data : BoundedSeq(MCRecords, 2) \ {<<>>}, recordLen : {0, 1}, build : {"release", "debug"},
   roles : {<<>>, <<"Amount", "Rate">>}, partialTail : BOOLEAN]
=============================================================================
