-------------------------------- MODULE Db2Host --------------------------------
(***************************************************************************)
(* db2host_evaluate (src/src/db2host.rs): the null and truncation state of *)
(* the value fields of one record, each read from the indicator field it   *)
(* is declared with. Bytes are decoded whatever the state.                 *)
(*                                                                         *)
(* An item is [name, kind, value]: kind is "group", "binary" or "other",   *)
(* value what the item's bytes read as: a number, or NotNumber where the   *)
(* record is too short or the text is no integer.                          *)
(***************************************************************************)
EXTENDS Integers, Sequences, SequencesExt, FiniteSetsExt

CONSTANTS Calls, NotNumber

(* An item that reads as a number reads as an integer. *)
CallsTyped ==
  /\ NotNumber \notin Int
  /\ \A c \in Calls :
       /\ c.items \in Seq(ToSet(c.items)) /\ c.pairs \in Seq(ToSet(c.pairs))
       /\ \A k \in DOMAIN c.items : c.items[k].value \in Int \cup {NotNumber}

VARIABLES
  call,      \* [parses, items, pairs], pairs a sequence of [value, indicator]
  pc,        \* "start", "pairs", "done" or "error"
  at,        \* pairs evaluated
  states,    \* [pair, state]: "null", "present", "truncated" or "unread"
  findings   \* [pair, why]

vars == <<call, pc, at, states, findings>>

Named(name) == {k \in DOMAIN call.items : call.items[k].name = name}

(* The fields of the record are searched from the first. *)
ValueOf(name) == call.items[Min(Named(name))].value

(* The usage is kept by name, of the last item that has a picture. *)
UsageOf(name) ==
  LET pictured == {k \in Named(name) : call.items[k].kind # "group"}
  IN  IF pictured = {} THEN "none" ELSE call.items[Max(pictured)].kind

Init ==
  /\ call \in Calls
  /\ pc = "start"
  /\ at = 0
  /\ states = <<>>
  /\ findings = <<>>

Fail ==
  /\ pc = "start" /\ ~call.parses
  /\ pc' = "error"
  /\ UNCHANGED <<call, at, states, findings>>

Begin ==
  /\ pc = "start" /\ call.parses
  /\ pc' = "pairs"
  /\ UNCHANGED <<call, at, states, findings>>

Pair == call.pairs[at + 1]
Evaluating == pc = "pairs" /\ at < Len(call.pairs)

(* The first thing that is wrong with a pair, or "nothing". *)
Wrong ==
  IF Named(Pair.value) = {} THEN "missing value field"
  ELSE IF Named(Pair.indicator) = {} THEN "missing indicator"
  ELSE IF UsageOf(Pair.indicator) # "binary" THEN "wrong usage"
  ELSE "nothing"

Finding(why) == [pair |-> at + 1, why |-> why]

(* A pair that is refused leaves a finding and no state. *)
Refuse ==
  /\ Evaluating
  /\ Wrong # "nothing"
  /\ findings' = Append(findings, Finding(Wrong))
  /\ at' = at + 1
  /\ UNCHANGED <<call, pc, states>>

(* Mutant of StateOf: any indicator that is not negative says present.     *)
StateOfSigned(n) ==
  IF n = NotNumber THEN "unread" ELSE IF n < 0 THEN "null" ELSE "present"

StateOf(n) ==
  IF n = NotNumber THEN "unread"
  ELSE IF n < 0 THEN "null" ELSE IF n = 0 THEN "present" ELSE "truncated"

(* An indicator that does not read as an integer leaves both a finding and *)
(* a state with no flag set.                                               *)
Evaluate ==
  LET state == StateOf(ValueOf(Pair.indicator)) IN
  /\ Evaluating
  /\ Wrong = "nothing"
  /\ states' = Append(states, [pair |-> at + 1, state |-> state])
  /\ findings' = IF state = "unread" THEN Append(findings, Finding("dirty indicator"))
                 ELSE findings
  /\ at' = at + 1
  /\ UNCHANGED <<call, pc>>

Return ==
  /\ pc = "pairs" /\ at = Len(call.pairs)
  /\ pc' = "done"
  /\ UNCHANGED <<call, at, states, findings>>

Terminated == pc \in {"done", "error"} /\ UNCHANGED vars

Next == Fail \/ Begin \/ Refuse \/ Evaluate \/ Return \/ Terminated

Spec == Init /\ [][Next]_vars
-----------------------------------------------------------------------------
States == {"null", "present", "truncated", "unread"}

TypeOK ==
  /\ pc \in {"start", "pairs", "done", "error"}
  /\ at \in 0..Len(call.pairs)
  /\ \A k \in DOMAIN states : states[k].pair \in 1..at /\ states[k].state \in States
  /\ \A k \in DOMAIN findings : findings[k].pair \in 1..at

Says(n, state) ==
  /\ n # NotNumber
  /\ state = "null" <=> n < 0
  /\ state = "present" <=> n = 0
  /\ state = "truncated" <=> n > 0

(* No value is silently present, null or truncated: of the pairs evaluated  *)
(* so far each has a finding or a state that its indicator earns, never     *)
(* both or neither. An indicator earns a state when it is the only item of  *)
(* its name, is binary and holds such a number.                             *)
NothingSilentlyPresent ==
  \A p \in 1..at :
    LET decided == {k \in DOMAIN states : states[k].pair = p /\ states[k].state # "unread"}
        named == Named(call.pairs[p].indicator)
    IN  /\ Cardinality(decided) + Cardinality({k \in DOMAIN findings : findings[k].pair = p}) = 1
        /\ \A k \in decided : Cardinality(named) = 1 =>
             \A i \in named : /\ call.items[i].kind = "binary"
                              /\ Says(call.items[i].value, states[k].state)
================================================================================
