------------------------------- MODULE Redefines -------------------------------
(***************************************************************************)
(* redefines_manifest (src/src/redefines.rs): the overlapping views of one *)
(* record. The record is decoded by parse_program, which expands COPY and  *)
(* upper-cases names; the views are then read from the copybook a second   *)
(* time, as it is written, and their members are looked up by name among   *)
(* the decoded fields.                                                     *)
(*                                                                         *)
(* A line is an item [level, name, size, redefines, copied]: size 0 stands *)
(* for a group, redefines is a name or NoName, copied says that the line   *)
(* comes from COPY and only the first reader sees it. Level 88 stands for  *)
(* every line that is no item.                                             *)
(***************************************************************************)
EXTENDS Arithmetic, SequencesExt, FiniteSetsExt

CONSTANTS
  Calls,       \* [lines, laysOut, discriminator, value]
  NoName,
  UpperOf      \* the upper-case form of each name that has lower-case letters

VARIABLES
  call,        \* the arguments, never written
  pc,          \* "start", "items", "groups", "regions", "done" or "error"
  at,          \* lines read, then items grouped, then regions built
  items,       \* the lines the second reader understands, in order
  order,       \* the targets of REDEFINES, in the order they were met
  groups,      \* target -> its views, as places in items
  regions,     \* what is written of each target
  active       \* the view the discriminator admits, or NoName

CallsTyped ==
  \A c \in Calls : c.laysOut =>
    /\ c.lines \in Seq(ToSet(c.lines))
    /\ \A l \in ToSet(c.lines) : l.level \in Nat /\ l.size \in Nat /\ l.name # NoName

vars == <<call, pc, at, items, order, groups, regions, active>>

Upper(name) == IF name \in DOMAIN UpperOf THEN UpperOf[name] ELSE name

Elementary(line) == line.size > 0
-----------------------------------------------------------------------------
(* The layout of the numeric kernel: an item starts where the item it      *)
(* redefines does, or in its group behind its elder siblings, those apart  *)
(* that redefine another. Place 0 stands for what is in no group.          *)
ItemsAmong(lines) ==
  LET laid[n \in 0..Len(lines)] ==
        IF n = 0 THEN <<>>
        ELSE IF lines[n].level = 88 THEN laid[n - 1]
        ELSE Append(laid[n - 1], lines[n])
  IN  laid

Laid(lines) == ItemsAmong(lines)[Len(lines)]

Above(laid, k) == {j \in 1..(k - 1) : laid[j].level < laid[k].level}

Parent(laid, k) == IF Above(laid, k) = {} THEN 0 ELSE Max(Above(laid, k))

Children(laid, k) == {j \in 1..Len(laid) : Parent(laid, j) = k}

Redefined(laid, k) ==
  {j \in Children(laid, Parent(laid, k)) :
     j < k /\ Upper(laid[j].name) = Upper(laid[k].redefines)}

OwnSizes(laid, size, k) ==
  [j \in 1..Len(laid) |->
     IF laid[j].redefines = NoName /\ Parent(laid, j) = k THEN size[j] ELSE 0]

Sizes(laid) ==
  LET size[k \in 1..Len(laid)] ==
        IF Elementary(laid[k]) THEN laid[k].size ELSE Total(OwnSizes(laid, size, k))
  IN  size

Offsets(laid) ==
  LET size == Sizes(laid)
      offset[k \in 0..Len(laid)] ==
        IF k = 0 THEN 0
        ELSE IF laid[k].redefines # NoName THEN offset[Max(Redefined(laid, k))]
        ELSE offset[Parent(laid, k)] + Sums(OwnSizes(laid, size, Parent(laid, k)))[k - 1]
  IN  offset

Storage(laid, k) == [offset |-> Offsets(laid)[k], size |-> Sizes(laid)[k]]

(* The decoded fields by name, groups among them: of fields with one name   *)
(* the last is kept.                                                        *)
FieldMap(lines) ==
  LET laid == Laid(lines)
  IN  [n \in {Upper(laid[k].name) : k \in DOMAIN laid} |->
         Storage(laid, Max({k \in DOMAIN laid : Upper(laid[k].name) = n}))]
-----------------------------------------------------------------------------
Init ==
  /\ call \in Calls
  /\ pc = "start"
  /\ at = 0
  /\ items = <<>>
  /\ order = <<>>
  /\ groups = <<>>
  /\ regions = <<>>
  /\ active = NoName

FailDecode ==
  /\ pc = "start" /\ ~call.laysOut
  /\ pc' = "error"
  /\ UNCHANGED <<call, at, items, order, groups, regions, active>>

Decode ==
  /\ pc = "start" /\ call.laysOut
  /\ pc' = "items"
  /\ UNCHANGED <<call, at, items, order, groups, regions, active>>

Line == call.lines[at + 1]
Reading == pc = "items" /\ at < Len(call.lines)

(* A line that COPY brings in is not in the text; one of level 88 is no     *)
(* storage.                                                                 *)
SkipLine ==
  /\ Reading
  /\ Line.copied \/ Line.level = 88
  /\ at' = at + 1
  /\ UNCHANGED <<call, pc, items, order, groups, regions, active>>

ReadItem ==
  /\ Reading
  /\ ~Line.copied /\ Line.level # 88
  /\ items' = Append(items, Line)
  /\ at' = at + 1
  /\ UNCHANGED <<call, pc, order, groups, regions, active>>

EndOfText ==
  /\ pc = "items" /\ at = Len(call.lines)
  /\ pc' = "groups"
  /\ at' = 0
  /\ UNCHANGED <<call, items, order, groups, regions, active>>

(* A group of views starts with the first item that has the target's name,  *)
(* when there is one, redefining or not.                                    *)
BaseView(target) ==
  LET named == {k \in DOMAIN items : items[k].name = target}
  IN  IF named = {} THEN <<>> ELSE <<Min(named)>>

ViewsSoFar(target) == IF target \in DOMAIN groups THEN groups[target] ELSE BaseView(target)

Grouping == pc = "groups" /\ at < Len(items)

AddView ==
  LET target == items[at + 1].redefines IN
  /\ Grouping
  /\ target # NoName
  /\ groups' = [t \in DOMAIN groups \cup {target} |->
                  IF t = target THEN Append(ViewsSoFar(t), at + 1) ELSE groups[t]]
  /\ order' = IF target \in DOMAIN groups THEN order ELSE Append(order, target)
  /\ at' = at + 1
  /\ UNCHANGED <<call, pc, items, regions, active>>

NoView ==
  /\ Grouping
  /\ items[at + 1].redefines = NoName
  /\ at' = at + 1
  /\ UNCHANGED <<call, pc, items, order, groups, regions, active>>

(* The discriminator, a field and an ordered list of <<value, view>>,       *)
(* selects the first view declared for the value of the field; the view     *)
(* need not exist.                                                          *)
Selected ==
  {k \in DOMAIN call.discriminator.mapping : call.discriminator.mapping[k][1] = call.value}

Admits ==
  /\ call.discriminator # NoName
  /\ call.discriminator.field \in DOMAIN FieldMap(call.lines)
  /\ Selected # {}

Discriminate ==
  /\ pc = "groups" /\ at = Len(items)
  /\ active' = IF Admits THEN call.discriminator.mapping[Min(Selected)][2] ELSE NoName
  /\ pc' = "regions"
  /\ at' = 0
  /\ UNCHANGED <<call, items, order, groups, regions>>

(* Mutant of Below: an item of the same level does not end a view. *)
BelowOrBeside(i) ==
  {k \in (i + 1)..Len(items) : \A j \in (i + 1)..k : items[j].level >= items[i].level}

(* The items under item i: until one of its level or above. *)
Below(i) ==
  {k \in (i + 1)..Len(items) : \A j \in (i + 1)..k : items[j].level > items[i].level}

(* The names of the elementary items of a view. *)
Members(i) ==
  IF Elementary(items[i]) THEN {items[i].name}
  ELSE {items[k].name : k \in {k \in Below(i) : Elementary(items[k])}}

(* A region spans what the members of all its views are decoded from; a     *)
(* member that is not among the decoded fields is left out without a word.  *)
Region(target) ==
  LET fields == FieldMap(call.lines)
      views == [v \in DOMAIN groups[target] |->
                  [id |-> items[groups[target][v]].name,
                   fields |-> Members(groups[target][v]) \cap DOMAIN fields]]
      seen == UNION {views[v].fields : v \in DOMAIN views}
      lo == Min({fields[n].offset : n \in seen})
      hi == Max({fields[n].offset + fields[n].size : n \in seen})
  IN  [target |-> target, views |-> views,
       offset |-> IF seen = {} THEN 0 ELSE lo,
       length |-> IF seen = {} THEN 0 ELSE hi - lo]

BuildRegion ==
  /\ pc = "regions" /\ at < Len(order)
  /\ regions' = Append(regions, Region(order[at + 1]))
  /\ at' = at + 1
  /\ UNCHANGED <<call, pc, items, order, groups, active>>

Return ==
  /\ pc = "regions" /\ at = Len(order)
  /\ pc' = "done"
  /\ UNCHANGED <<call, at, items, order, groups, regions, active>>

Terminated == pc \in {"done", "error"} /\ UNCHANGED vars

Next ==
  \/ FailDecode \/ Decode
  \/ SkipLine \/ ReadItem \/ EndOfText
  \/ AddView \/ NoView \/ Discriminate
  \/ BuildRegion \/ Return
  \/ Terminated

Spec == Init /\ [][Next]_vars
-----------------------------------------------------------------------------
(* A copybook both readers agree on: all in the text, no name twice, none   *)
(* that the first reader writes differently.                                *)
Plain ==
  LET laid == Laid(call.lines) IN
  /\ \A n \in DOMAIN call.lines : call.lines[n].level # 88 => ~call.lines[n].copied
  /\ \A k \in DOMAIN laid :
       /\ laid[k].name \notin DOMAIN UpperOf /\ laid[k].redefines \notin DOMAIN UpperOf
       /\ \A j \in DOMAIN laid : laid[j].name = laid[k].name => j = k

(* A layout the language allows: an item has a picture or items under it,   *)
(* and what redefines names an elder sibling and is no larger than that.    *)
Lawful(laid) ==
  \A k \in DOMAIN laid :
    /\ Elementary(laid[k]) <=> Children(laid, k) = {}
    /\ laid[k].redefines # NoName =>
         \E j \in Redefined(laid, k) : Sizes(laid)[k] <= Sizes(laid)[j]

Redefiners(laid, k) == {j \in DOMAIN laid : laid[j].redefines = laid[k].name}

(* Region r is item k: its storage, and as views the item and then its      *)
(* redefiners in the order of the text, each with a field.                  *)
IsRegionOf(r, laid, k) ==
  LET views == regions[r].views
      redefiners == Redefiners(laid, k)
  IN  /\ regions[r].target = laid[k].name
      /\ regions[r].offset = Offsets(laid)[k]
      /\ regions[r].length = Sizes(laid)[k]
      /\ Len(views) = 1 + Cardinality(redefiners)
      /\ views[1].id = laid[k].name
      /\ \A j \in redefiners :
           views[1 + Cardinality({i \in redefiners : i <= j})].id = laid[j].name
      /\ \A v \in DOMAIN views : views[v].fields # {}

(* Of such a copybook the manifest is the overlapping storage: each item    *)
(* that is redefined has one region, and there is no other.                 *)
RegionsAreStorage ==
  pc = "done" /\ Plain /\ Lawful(Laid(call.lines)) =>
    LET laid == Laid(call.lines)
        targets == {k \in DOMAIN laid : Redefiners(laid, k) # {}}
    IN  /\ \A k \in targets : \E r \in DOMAIN regions :
             /\ IsRegionOf(r, laid, k)
             /\ \A q \in DOMAIN regions : regions[q].target = laid[k].name => q = r
        /\ \A r \in DOMAIN regions : \E k \in targets : regions[r].target = laid[k].name
================================================================================
