------------------------------- MODULE MCCopybook -------------------------------
(***************************************************************************)
(* The declarations, conditions, programs and records TLC reads with       *)
(* Copybook.                                                               *)
(***************************************************************************)
EXTENDS Copybook

CONSTANTS MaxClauses, MaxLines, MaxValues
-----------------------------------------------------------------------------
(* Every choice of clauses in every order, at most one of a kind; a table   *)
(* has a fixed or a depending size, and the literal is one word. Some end   *)
(* before their last clause does.                                           *)
ClauseKinds ==
  {{<<"PIC", "S9(4)">>, <<"PICTURE", "X">>},
   {<<"COMP-3">>, <<"USAGE", "IS", "COMP-6">>, <<"DISPLAY">>},
   {<<"OCCURS", "3", "TIMES">>, <<"OCCURS", "3">>,
    <<"OCCURS", "1", "TO", "3", "TIMES", "DEPENDING", "ON", "N">>},
   {<<"REDEFINES", "B">>},
   {<<"SIGN", "IS", "LEADING", "SEPARATE">>, <<"TRAILING", "SEPARATE", "CHARACTER">>},
   {<<"VALUE", "\"A\"">>}}

CutShort == {<<"PIC">>, <<"OCCURS">>, <<"OCCURS", "1", "TO">>, <<"REDEFINES">>}

MCDeclarations ==
  {d \in BoundedSeq(UNION ClauseKinds, MaxClauses) :
     \A kind \in ClauseKinds : \A j, k \in DOMAIN d : d[j] \in kind /\ d[k] \in kind => j = k}
  \cup {Append(d, c) : d \in BoundedSeq(UNION ClauseKinds, 1), c \in CutShort}

(* Up to MaxValues values and ranges of a word, a literal of the same text  *)
(* and one that spells THRU, with the keyword in each case, misspelled and  *)
(* in the name.                                                             *)
Literal(text) == [quoted |-> TRUE, text |-> text]
Plain(text) == [quoted |-> FALSE, text |-> text]

MCValues ==
  {[kind |-> "one", of |-> t] : t \in {Plain("5"), Literal("5"), Literal("THRU")}}
  \cup {[kind |-> "range", from |-> Plain("1"), to |-> t] : t \in {Plain("5"), Literal("THRU")}}

MCTailOf == [n \in {"VALUE-OK"} |-> "-OK"]

MCConditionLines ==
  [name : {"OK", "VALUE-OK"}, keyword : {"VALUE", "value", "Value", "VALUES"},
   values : BoundedSeq(MCValues, MaxValues)]

(* Copybooks of up to MaxLines lines: items of two names with pictures of   *)
(* each kind, a group, conditions of one name, and a line that is neither.  *)
MCItem(name, picture, use) == [kind |-> "item", name |-> name, pic |-> picture, usage |-> use]
MCCondition(wellFormed) == [kind |-> "condition", name |-> "C", wellFormed |-> wellFormed]

MCLines ==
  {MCItem("A", "X", "DISPLAY"), MCItem("A", "S9", "COMP-6"), MCItem("B", "9", "COMP-6"),
   MCItem("B", "edited", "DISPLAY"), MCItem("B", "edited", "COMP-3"),
   MCItem("A", "none", "DISPLAY"), MCItem("R", "none", "DISPLAY"),
   MCCondition(TRUE), MCCondition(FALSE), [kind |-> "other"]}

MCPrograms ==
  [lines : BoundedSeq(MCLines, MaxLines), checked : BOOLEAN, expands : {TRUE}, laysOut : {TRUE}]
  \cup [lines : BoundedSeq(MCLines, 1), checked : BOOLEAN, expands : BOOLEAN, laysOut : BOOLEAN]

(* Records of a base item or group, up to two views of it, and a field      *)
(* before or after them that may be redefined as well. Members may repeat   *)
(* the name FILLER, be written in lower case or come from COPY, and a view  *)
(* may have a view of its own.                                              *)
MCLine(lvl, name, size, target) ==
  [level |-> lvl, name |-> name, size |-> size, redefines |-> target, copied |-> FALSE]

MCBases ==
  {<<MCLine(5, "A", 2, NoName)>>,
   <<MCLine(5, "A", 0, NoName), MCLine(10, "B", 1, NoName), MCLine(10, "C", 1, NoName)>>,
   <<MCLine(5, "A", 0, NoName), MCLine(10, "FILLER", 1, NoName), MCLine(10, "C", 1, NoName)>>}

MCViews(v, m, n) ==
  LET group == MCLine(5, v, 0, "A") IN
  {<<MCLine(5, v, 2, "A")>>,
   <<group, MCLine(10, m, 1, NoName), MCLine(10, n, 1, NoName)>>,
   <<group, MCLine(10, m, 1, NoName), MCLine(10, "FILLER", 1, NoName)>>,
   <<group, MCLine(10, m, 2, NoName), MCLine(10, n, 1, m)>>,
   <<group, MCLine(10, "d", 2, NoName)>>,
   <<group, [MCLine(10, m, 2, NoName) EXCEPT !.copied = TRUE]>>}

MCRecords ==
  {<<MCLine(1, "R", 0, NoName)>> \o before \o base \o one \o two \o after :
     before \in {<<>>, <<MCLine(5, "S", 1, NoName)>>},
     base \in MCBases,
     one \in MCViews("V", "K", "L"),
     two \in {<<>>} \cup MCViews("W", "M", "N"),
     after \in {<<>>, <<MCLine(88, "S", 0, NoName), MCLine(5, "T", 1, NoName)>>,
                <<MCLine(5, "T", 1, NoName), MCLine(5, "U", 1, "T")>>}}

MCDiscriminators ==
  {NoName} \cup
    [field : {"S"}, mapping : {<< <<"x", "V">> >>, << <<"y", "W">>, <<"y", "V">> >>}]

MCViewCalls ==
  [lines : MCRecords, laysOut : {TRUE}, discriminator : MCDiscriminators, value : {"x"}]
  \cup [lines : {<<>>}, laysOut : {FALSE}, discriminator : {NoName}, value : {"x"}]

MCUpperOf == [d |-> "D"]
================================================================================
