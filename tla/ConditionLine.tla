----------------------------- MODULE ConditionLine -----------------------------
(***************************************************************************)
(* parse_88 (src/src/lib.rs): a condition line, 88 NAME VALUE and its      *)
(* values. The text after the first letters VALUE of the line is split     *)
(* into tokens, and the tokens are read from left to right: two with THRU  *)
(* between them are a range, any other is a value of its own.              *)
(*                                                                         *)
(* A token is [quoted, text]. A line is [name, keyword, values], a value   *)
(* [kind |-> "one", of] or [kind |-> "range", from, to].                   *)
(***************************************************************************)
EXTENDS Integers, Sequences, SequencesExt

CONSTANTS
  Lines,
  TailOf      \* names with the letters VALUE in them -> what follows these

Token == [quoted : BOOLEAN, text : STRING]
Value == [kind : {"one"}, of : Token] \cup [kind : {"range"}, from : Token, to : Token]

LinesTyped == \A l \in Lines : l.values \in Seq(Value)

VARIABLES
  line,       \* what is read, never written
  at,         \* the next token
  values,     \* the values read
  outcome     \* "reading", "some" or "none"

vars == <<line, at, values, outcome>>

Word(text) == [quoted |-> FALSE, text |-> text]

One(token) == [kind |-> "one", of |-> token]
Thru(from, to) == [kind |-> "range", from |-> from, to |-> to]

Written(value) ==
  IF value.kind = "one" THEN <<value.of>> ELSE <<value.from, Word("THRU"), value.to>>

Body == FlattenSeq([k \in DOMAIN line.values |-> Written(line.values[k])])

(* The line is split at VALUE wherever that stands first, else at value.   *)
Tokens ==
  IF line.name \in DOMAIN TailOf
  THEN <<Word(TailOf[line.name]), Word(line.keyword)>> \o Body
  ELSE IF line.keyword \in {"VALUE", "value"} THEN Body ELSE <<>>

Init ==
  /\ line \in Lines
  /\ at = 1
  /\ values = <<>>
  /\ outcome = "reading"

(* The third word is compared without regard to case. *)
IsCondition == line.keyword \in {"VALUE", "value", "Value"}

Refuse ==
  /\ outcome = "reading" /\ ~IsCondition
  /\ outcome' = "none"
  /\ UNCHANGED <<line, at, values>>

Reading == outcome = "reading" /\ IsCondition /\ at <= Len(Tokens)

(* Mutant of IsRange: a literal is taken for the keyword it spells. *)
IsRangeQuoted == at + 2 <= Len(Tokens) /\ Tokens[at + 1].text = "THRU"

IsRange == at + 2 <= Len(Tokens) /\ Tokens[at + 1] = Word("THRU")

ReadRange ==
  /\ Reading /\ IsRange
  /\ values' = Append(values, Thru(Tokens[at], Tokens[at + 2]))
  /\ at' = at + 3
  /\ UNCHANGED <<line, outcome>>

ReadLiteral ==
  /\ Reading /\ ~IsRange
  /\ values' = Append(values, One(Tokens[at]))
  /\ at' = at + 1
  /\ UNCHANGED <<line, outcome>>

Finish ==
  /\ outcome = "reading" /\ IsCondition /\ at > Len(Tokens)
  /\ outcome' = IF values = <<>> THEN "none" ELSE "some"
  /\ UNCHANGED <<line, at, values>>

Terminated == outcome # "reading" /\ UNCHANGED vars

Next == Refuse \/ ReadRange \/ ReadLiteral \/ Finish \/ Terminated

Spec == Init /\ [][Next]_vars
-----------------------------------------------------------------------------
(* However values, ranges and literals that spell a keyword follow one     *)
(* another, each is read for itself, if the keyword is in one case, its    *)
(* letters are not in the name and no value begins with the word THRU.     *)
ReadsEachValue ==
  /\ outcome # "reading"
  /\ line.keyword \in {"VALUE", "value"} /\ line.name \notin DOMAIN TailOf
  /\ \A k \in DOMAIN line.values : Head(Written(line.values[k])) # Word("THRU")
  =>
    /\ values = line.values
    /\ outcome = IF line.values = <<>> THEN "none" ELSE "some"
================================================================================
