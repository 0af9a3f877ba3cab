-------------------------------- MODULE Copybook --------------------------------
(***************************************************************************)
(* The ways a copybook is read: the words of one declaration, the values   *)
(* of one condition, the lines of a program, given as what they declare,   *)
(* and the views of a record, which are read a second time. A behaviour    *)
(* reads one declaration, condition or program or the views of one record. *)
(***************************************************************************)
EXTENDS Integers, Sequences, SequencesExt

CONSTANTS
  Idle,            \* what the variables of the other levels hold
  None, NoName,
  Declarations,    \* of DataItem
  ConditionLines, TailOf,  \* of ConditionLine
  Programs,        \* the calls of CopybookParse
  ViewCalls, UpperOf       \* of Redefines

VARIABLES
  level, at,
  decl, pic, usage, occurs, redefines, odo, separate, leading,   \* of DataItem
  line, values, outcome,                                         \* of ConditionLine
  call, pc, items,                                    \* of CopybookParse and Redefines
  attrs, meta, conditions, lastParent,                           \* of CopybookParse
  order, groups, regions, active                                 \* of Redefines

wordVars == <<decl, pic, usage, occurs, redefines, odo, separate, leading>>
valueVars == <<line, values, outcome>>
textVars == <<call, pc, items>>
lineVars == <<attrs, meta, conditions, lastParent>>
viewVars == <<order, groups, regions, active>>
-----------------------------------------------------------------------------
Item == INSTANCE DataItem
Cond == INSTANCE ConditionLine WITH Lines <- ConditionLines
Program == INSTANCE CopybookParse WITH Calls <- Programs
Views == INSTANCE Redefines WITH Calls <- ViewCalls

ASSUME DeclarationsTyped == Item!DeclarationsTyped
ASSUME ConditionLinesTyped == Cond!LinesTyped
ASSUME ProgramsTyped == Program!CallsTyped
ASSUME ViewCallsTyped == Views!CallsTyped

NoItem ==
  /\ decl = Idle /\ pic = Idle /\ usage = Idle /\ occurs = Idle
  /\ redefines = Idle /\ odo = Idle /\ separate = Idle /\ leading = Idle

NoValues == line = Idle /\ values = Idle /\ outcome = Idle

NoText == call = Idle /\ pc = Idle /\ items = Idle

NoProgram == attrs = Idle /\ meta = Idle /\ conditions = Idle /\ lastParent = Idle

NoViews == order = Idle /\ groups = Idle /\ regions = Idle /\ active = Idle

Init ==
  \/ level = "words" /\ Item!Init /\ NoValues /\ NoText /\ NoProgram /\ NoViews
  \/ level = "values" /\ Cond!Init /\ NoItem /\ NoText /\ NoProgram /\ NoViews
  \/ level = "lines" /\ Program!Init /\ NoItem /\ NoValues /\ NoViews
  \/ level = "views" /\ Views!Init /\ NoItem /\ NoValues /\ NoProgram

Next ==
  \/ level = "words" /\ Item!Next /\ UNCHANGED <<level, valueVars, textVars, lineVars, viewVars>>
  \/ level = "values" /\ Cond!Next /\ UNCHANGED <<level, wordVars, textVars, lineVars, viewVars>>
  \/ level = "lines" /\ Program!Next /\ UNCHANGED <<level, wordVars, valueVars, viewVars>>
  \/ level = "views" /\ Views!Next /\ UNCHANGED <<level, wordVars, valueVars, lineVars>>

vars == <<level, at, wordVars, valueVars, textVars, lineVars, viewVars>>

Spec == Init /\ [][Next]_vars
-----------------------------------------------------------------------------
(* The type invariant of the level that is read. *)
TypeOK ==
  /\ level = "words" => Item!TypeOK
  /\ level = "lines" => Program!TypeOK

(* parse_item reads each clause from its own words, and parse_88 each value *)
(* from its own tokens, in every order.                                     *)
ReadsEachClause ==
  /\ level = "words" => Item!ReadsEachClause
  /\ level = "values" => Cond!ReadsEachValue

(* In a program that passed check_collisions every item is decoded by its  *)
(* own line.                                                               *)
CheckedItemsAreTheirOwn == level = "lines" => Program!CheckedItemsAreTheirOwn

(* In such a program a condition reads the bytes of the item it stands     *)
(* under.                                                                  *)
ConditionsReadTheirParent == level = "lines" => Program!ConditionsReadTheirParent

(* The manifest of a copybook that both readers understand alike is the     *)
(* overlapping storage and nothing else.                                    *)
RegionsAreStorage == level = "views" => Views!RegionsAreStorage

(* The same is documented of a program nobody checked: what is not         *)
(* supported is surfaced, not decoded wrongly.                             *)
EveryItemIsItsOwn == level = "lines" => Program!EveryItemIsItsOwn
================================================================================
