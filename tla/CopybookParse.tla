----------------------------- MODULE CopybookParse -----------------------------
(***************************************************************************)
(* parse_program (src/src/lib.rs) and check_collisions                     *)
(* (src/src/operator.rs): the lines of an expanded copybook become laid-   *)
(* out items, categories and pictures by name, and conditions with the     *)
(* name of their parent. The library's own decoding takes the program as   *)
(* it is; reconciliation and the operator passes check it for names that   *)
(* collide first.                                                          *)
(*                                                                         *)
(* A line is an item (its name, picture and usage), a condition (whether   *)
(* its values are introduced by VALUE), or neither.                        *)
(***************************************************************************)
EXTENDS Integers, Sequences, SequencesExt, FiniteSets

CONSTANTS Calls, NoName

CallsTyped == \A c \in Calls : c.lines \in Seq(ToSet(c.lines))

VARIABLES
  call,        \* the arguments, never written
  pc,          \* "start", "lines", "done" or "error"
  at,          \* lines read
  items,       \* the line of each item, in order
  attrs,       \* category of each name that has a picture
  meta,        \* line whose picture is recorded for a name
  conditions,  \* [name, parent, line]
  lastParent   \* the most recent item with a picture

vars == <<call, pc, at, items, attrs, meta, conditions, lastParent>>

(* What the kernel makes of a picture and a usage: "none" when it cannot   *)
(* build the field.                                                        *)
BuildField(pic, usage) ==
  IF pic \in {"9", "S9"} THEN "numeric"
  ELSE IF pic = "X" /\ usage = "DISPLAY" THEN "alphanumeric"
  ELSE "none"

(* Signed COMP-6 is not admitted; an edited picture only in DISPLAY. *)
Classify(pic, usage) ==
  IF BuildField(pic, usage) # "none" /\ ~(usage = "COMP-6" /\ pic = "S9")
  THEN BuildField(pic, usage)
  ELSE IF usage = "DISPLAY" /\ pic = "edited" THEN "edited"
  ELSE "unsupported"

Init ==
  /\ call \in Calls
  /\ pc = "start"
  /\ at = 0
  /\ items = <<>>
  /\ attrs = <<>>
  /\ meta = <<>>
  /\ conditions = <<>>
  /\ lastParent = NoName

FailExpand ==
  /\ pc = "start" /\ ~call.expands
  /\ pc' = "error"
  /\ UNCHANGED <<call, at, items, attrs, meta, conditions, lastParent>>

Expand ==
  /\ pc = "start" /\ call.expands
  /\ pc' = "lines"
  /\ UNCHANGED <<call, at, items, attrs, meta, conditions, lastParent>>

Line == call.lines[at + 1]
Reading == pc = "lines" /\ at < Len(call.lines)

Condition == [name |-> Line.name, parent |-> lastParent, line |-> at + 1]

(* Mutant of ReadCondition: a condition above every item is kept. *)
ReadConditionAlways ==
  /\ Reading
  /\ Line.kind = "condition" /\ Line.wellFormed
  /\ conditions' = Append(conditions, Condition)
  /\ at' = at + 1
  /\ UNCHANGED <<call, pc, items, attrs, meta, lastParent>>

(* A condition belongs to the most recent item with a picture; before the  *)
(* first of them there is none, and the condition is left out.             *)
ReadCondition ==
  /\ Reading
  /\ Line.kind = "condition" /\ Line.wellFormed
  /\ conditions' = IF lastParent = NoName THEN conditions
                   ELSE Append(conditions, Condition)
  /\ at' = at + 1
  /\ UNCHANGED <<call, pc, items, attrs, meta, lastParent>>

(* Neither an item nor a condition that can be read: no error, no trace. *)
SkipLine ==
  /\ Reading
  /\ \/ Line.kind = "other"
     \/ Line.kind = "condition" /\ ~Line.wellFormed
  /\ at' = at + 1
  /\ UNCHANGED <<call, pc, items, attrs, meta, conditions, lastParent>>

Put(f, x, v) == [y \in DOMAIN f \cup {x} |-> IF y = x THEN v ELSE f[y]]

ReadGroup ==
  /\ Reading
  /\ Line.kind = "item" /\ Line.pic = "none"
  /\ items' = Append(items, at + 1)
  /\ at' = at + 1
  /\ UNCHANGED <<call, pc, attrs, meta, conditions, lastParent>>

(* Mutant of ReadElementary: an item whose picture is not supported does   *)
(* not become the parent of the conditions after it.                       *)
ReadElementaryKeepParent ==
  LET category == Classify(Line.pic, Line.usage) IN
  /\ Reading
  /\ Line.kind = "item" /\ Line.pic # "none"
  /\ attrs' = Put(attrs, Line.name, category)
  /\ meta' = IF category = "unsupported" THEN meta ELSE Put(meta, Line.name, at + 1)
  /\ lastParent' = IF category = "unsupported" THEN lastParent ELSE Line.name
  /\ items' = Append(items, at + 1)
  /\ at' = at + 1
  /\ UNCHANGED <<call, pc, conditions>>

(* The maps are keyed by name: a later item of that name replaces an       *)
(* earlier one, except that an unsupported one leaves the picture recorded.*)
ReadElementary ==
  LET category == Classify(Line.pic, Line.usage) IN
  /\ Reading
  /\ Line.kind = "item" /\ Line.pic # "none"
  /\ attrs' = Put(attrs, Line.name, category)
  /\ meta' = IF category = "unsupported" THEN meta ELSE Put(meta, Line.name, at + 1)
  /\ lastParent' = Line.name
  /\ items' = Append(items, at + 1)
  /\ at' = at + 1
  /\ UNCHANGED <<call, pc, conditions>>

NameOf(k) == call.lines[items[k]].name

(* Mutant of Collisions: only names that are decoded are counted. *)
CollisionsOfDecoded ==
  {n \in DOMAIN attrs :
     /\ attrs[n] # "unsupported"
     /\ \E j, k \in DOMAIN items : j # k /\ NameOf(j) = n /\ NameOf(k) = n}

(* Names with a category that more than one laid-out item has. *)
Collisions ==
  {n \in DOMAIN attrs : \E j, k \in DOMAIN items : j # k /\ NameOf(j) = n /\ NameOf(k) = n}

FailLayout ==
  /\ pc = "lines" /\ at = Len(call.lines)
  /\ ~call.laysOut
  /\ pc' = "error"
  /\ UNCHANGED <<call, at, items, attrs, meta, conditions, lastParent>>

FailCollision ==
  /\ pc = "lines" /\ at = Len(call.lines)
  /\ call.laysOut
  /\ call.checked /\ Collisions # {}
  /\ pc' = "error"
  /\ UNCHANGED <<call, at, items, attrs, meta, conditions, lastParent>>

Accept ==
  /\ pc = "lines" /\ at = Len(call.lines)
  /\ call.laysOut
  /\ ~call.checked \/ Collisions = {}
  /\ pc' = "done"
  /\ UNCHANGED <<call, at, items, attrs, meta, conditions, lastParent>>

Terminated == pc \in {"done", "error"} /\ UNCHANGED vars

Next ==
  \/ FailExpand \/ Expand
  \/ ReadCondition \/ SkipLine \/ ReadGroup \/ ReadElementary
  \/ FailLayout \/ FailCollision \/ Accept
  \/ Terminated

Spec == Init /\ [][Next]_vars
-----------------------------------------------------------------------------
Categories == {"numeric", "alphanumeric", "edited", "unsupported"}

TypeOK ==
  /\ pc \in {"start", "lines", "done", "error"}
  /\ at \in 0..Len(call.lines)
  /\ \A k \in DOMAIN items : items[k] \in 1..at
  /\ \A n \in DOMAIN attrs : attrs[n] \in Categories
  /\ DOMAIN meta \subseteq DOMAIN attrs
  /\ \A k \in DOMAIN conditions : conditions[k].parent \in DOMAIN attrs
  /\ lastParent \in DOMAIN attrs \cup {NoName}

(* What the picture of a line itself says, read off the claims of the      *)
(* project: unsigned COMP-6 only, edited pictures in DISPLAY only.         *)
Declares(l) ==
  CASE l.usage = "COMP-6" -> IF l.pic = "9" THEN "numeric" ELSE "unsupported"
    [] l.usage # "COMP-6" /\ l.pic \in {"9", "S9"} -> "numeric"
    [] l.usage = "DISPLAY" /\ l.pic = "X" -> "alphanumeric"
    [] l.usage = "DISPLAY" /\ l.pic = "edited" -> "edited"
    [] OTHER -> "unsupported"

Elementary(k) == call.lines[k].kind = "item" /\ call.lines[k].pic # "none"

DecodedByOwn(k) ==
  LET l == call.lines[items[k]] IN
  IF Elementary(items[k])
  THEN /\ attrs[l.name] = Declares(l)
       /\ IF Declares(l) = "unsupported" THEN l.name \notin DOMAIN meta
          ELSE l.name \in DOMAIN meta /\ meta[l.name] = items[k]
  ELSE l.name \notin DOMAIN attrs

(* In a program that passed the collision check, the maps by name say of   *)
(* each item what its own line says: no item is decoded or explained by    *)
(* the picture of another.                                                 *)
CheckedItemsAreTheirOwn ==
  pc = "done" /\ call.checked => \A k \in DOMAIN items : DecodedByOwn(k)

(* In such a program the first laid-out item that has the name of a        *)
(* condition's parent, the one its bytes are taken from, is the nearest    *)
(* item with a picture above the condition.                                *)
ConditionsReadTheirParent ==
  pc = "done" /\ call.checked =>
    \A c \in DOMAIN conditions :
      LET named == {items[k] : k \in {k \in DOMAIN items : NameOf(k) = conditions[c].parent}}
      IN  \E k \in named :
            /\ \A j \in named : k <= j
            /\ Elementary(k) /\ k < conditions[c].line
            /\ \A j \in (k + 1)..(conditions[c].line - 1) : ~Elementary(j)

(* The library is documented to surface what it does not support rather    *)
(* than decode it wrongly; the same is asked of a program nobody checked.  *)
EveryItemIsItsOwn ==
  pc = "done" => \A k \in DOMAIN items : DecodedByOwn(k)
================================================================================
