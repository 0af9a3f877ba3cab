----------------------------- MODULE CopybookProofs -----------------------------
(***************************************************************************)
(* Proofs about the readers of Copybook, for declarations and copybooks of *)
(* any length: what a program that passed check_collisions decodes its     *)
(* items by, which item a condition reads, that reading a declaration or a *)
(* program keeps its types and never goes past the last word or line, that *)
(* every clause and every value is read from its own words, and that the   *)
(* views of a record are its overlapping storage.                          *)
(*                                                                         *)
(* The maps know exactly the pictured lines, by name, and say of a name    *)
(* what one of its lines says: all that can be said of maps that later     *)
(* lines overwrite, and enough once no name is declared twice. The words   *)
(* of a declaration are its clauses end to end, so the place where reading *)
(* stands says in which clause it is; a keyword met there is that clause's *)
(* own, and what is read of it takes no word of the next. Whatever is      *)
(* under an item of a record lies within it, and some leaf under it starts *)
(* where it starts and some leaf ends where it ends, so that a region read *)
(* from the leaves of its views spans the item that they redefine.         *)
(***************************************************************************)
EXTENDS Copybook, TLAPS, SequenceTheorems, FiniteSetTheorems, WellFoundedInduction

(* Line k of a program is an item with a picture, so one that the maps by  *)
(* name know.                                                              *)
IsItem(c, k) == c.lines[k].kind = "item"
Pictured(c, k) == IsItem(c, k) /\ c.lines[k].pic # "none"
NameAt(c, k) == c.lines[k].name
Says(c, k) == Program!Classify(c.lines[k].pic, c.lines[k].usage)

LEMMA ProgramTypes ==
  ASSUME NEW c \in Programs
  PROVE  Len(c.lines) \in Nat /\ DOMAIN c.lines = 1..Len(c.lines)
<1>1. c.lines \in Seq(Program!ToSet(c.lines))
  BY ProgramsTyped DEF Program!CallsTyped
<1>. QED BY <1>1

(* What the kernel and classify make of a line is what the line declares.  *)
LEMMA ClassifyDeclares ==
  ASSUME NEW l
  PROVE  Program!Declares(l) = Program!Classify(l.pic, l.usage)
BY DEF Program!Declares, Program!Classify, Program!BuildField

-----------------------------------------------------------------------------
(* The items read are the items among the lines, each once and in order.   *)
ItemsRead(c) ==
  /\ items \in Seq(Nat)
  /\ \A k \in DOMAIN items : items[k] \in 1..at /\ IsItem(c, items[k])
  /\ \A j, k \in DOMAIN items : j < k => items[j] < items[k]
  /\ \A n \in 1..at : IsItem(c, n) => \E k \in DOMAIN items : items[k] = n

(* The maps know exactly the pictured lines by name; what they say of a    *)
(* name is what one of the lines of that name says.                        *)
MapsRead(c) ==
  /\ \A k \in 1..at : Pictured(c, k) => NameAt(c, k) \in DOMAIN attrs
  /\ \A n \in DOMAIN attrs :
       \E k \in 1..at : Pictured(c, k) /\ NameAt(c, k) = n /\ attrs[n] = Says(c, k)
  /\ \A k \in 1..at :
       Pictured(c, k) /\ Says(c, k) # "unsupported" => NameAt(c, k) \in DOMAIN meta
  /\ \A n \in DOMAIN meta :
       \E k \in 1..at : /\ Pictured(c, k) /\ NameAt(c, k) = n /\ meta[n] = k
                        /\ Says(c, k) # "unsupported"

(* Line k is the nearest pictured one above line n. *)
NearestAbove(c, k, n) ==
  k \in 1..(n - 1) /\ Pictured(c, k) /\ \A j \in (k + 1)..(n - 1) : ~Pictured(c, j)

ConditionsOf(c) ==
  {[name |-> NameAt(c, k), parent |-> NameAt(c, j), line |-> k] :
     j \in 1..Len(c.lines), k \in 1..Len(c.lines)}

(* The parent to be is the nearest pictured line; so was that of each       *)
(* condition when it was read.                                              *)
ParentsRead(c) ==
  /\ lastParent # NoName =>
       \E k \in 1..at : NearestAbove(c, k, at + 1) /\ NameAt(c, k) = lastParent
  /\ conditions \in Seq(ConditionsOf(c))
  /\ \A i \in DOMAIN conditions :
       /\ conditions[i].line \in 1..at
       /\ \E k \in 1..at : /\ NearestAbove(c, k, conditions[i].line)
                           /\ NameAt(c, k) = conditions[i].parent

(* A checked program ends well only when no two of its items share a name  *)
(* that the maps know.                                                     *)
NamesApart(c) ==
  \A n \in DOMAIN attrs : \A j, k \in DOMAIN items :
    NameAt(c, items[j]) = n /\ NameAt(c, items[k]) = n => j = k

Progress(c) ==
  /\ c \in Programs
  /\ at \in 0..Len(c.lines)
  /\ pc = "start" => at = 0
  /\ pc = "done" => at = Len(c.lines) /\ (c.checked => NamesApart(c))
  /\ pc \in {"start", "lines", "done", "error"}

ProgramInv ==
  Progress(call) /\ ItemsRead(call) /\ MapsRead(call) /\ ParentsRead(call)

-----------------------------------------------------------------------------
LEMMA ProgramStart == Program!Init => ProgramInv
<1>. SUFFICES ASSUME Program!Init PROVE ProgramInv
  OBVIOUS
<1>1. Progress(call)
  BY ProgramTypes DEF Program!Init, Progress
<1>2. items = <<>> /\ attrs = <<>> /\ meta = <<>> /\ conditions = <<>> /\ at = 0 /\ lastParent = NoName
  BY DEF Program!Init
<1>. QED BY <1>1, <1>2 DEF ProgramInv, ItemsRead, MapsRead, ParentsRead

(* One more line that is no item. *)
LEMMA ItemsStay ==
  ASSUME NEW c \in Programs, at \in 0..Len(c.lines), at' = at + 1, ItemsRead(c),
         ~IsItem(c, at + 1), items' = items
  PROVE  ItemsRead(c)'
BY ProgramTypes DEF ItemsRead, IsItem

(* One more line that is an item. *)
LEMMA ItemsGrow ==
  ASSUME NEW c \in Programs, at \in 0..Len(c.lines), at' = at + 1, ItemsRead(c),
         IsItem(c, at + 1), items' = Append(items, at + 1)
  PROVE  ItemsRead(c)'
<1>1. at \in Nat /\ items \in Seq(Nat) /\ items' \in Seq(Nat)
  BY ProgramTypes DEF ItemsRead
<1>2. DOMAIN items' = DOMAIN items \cup {Len(items) + 1}
      /\ items'[Len(items) + 1] = at + 1
      /\ \A k \in DOMAIN items : items'[k] = items[k] /\ k < Len(items) + 1 /\ k \in Nat
  BY <1>1
<1>3. \A k \in DOMAIN items' : items'[k] \in 1..at' /\ IsItem(c, items'[k])
  BY <1>1, <1>2 DEF ItemsRead
<1>4. \A j, k \in DOMAIN items' : j < k => items'[j] < items'[k]
  <2>. SUFFICES ASSUME NEW j \in DOMAIN items', NEW k \in DOMAIN items', j < k
                PROVE  items'[j] < items'[k]
    OBVIOUS
  <2>1. j \in DOMAIN items
    BY <1>1, <1>2
  <2>. QED BY <1>1, <1>2, <2>1, SMTT(20) DEF ItemsRead
<1>5. \A n \in 1..at' : IsItem(c, n) => \E k \in DOMAIN items' : items'[k] = n
  <2>. SUFFICES ASSUME NEW n \in 1..at', IsItem(c, n)
                PROVE  \E k \in DOMAIN items' : items'[k] = n
    OBVIOUS
  <2>1. CASE n = at + 1
    BY <1>2, <2>1
  <2>2. CASE n # at + 1
    <3>1. n \in 1..at
      BY <1>1, <2>2
    <3>. QED BY <1>2, <3>1 DEF ItemsRead
  <2>. QED BY <2>1, <2>2
<1>. QED BY <1>1, <1>3, <1>4, <1>5 DEF ItemsRead, IsItem

LEMMA MapsStay ==
  ASSUME NEW c \in Programs, at \in 0..Len(c.lines), at' = at + 1, MapsRead(c),
         ~Pictured(c, at + 1), attrs' = attrs, meta' = meta
  PROVE  MapsRead(c)'
<1>1. at \in Nat /\ \A k \in 1..at' : k \in 1..at \/ k = at + 1
  BY ProgramTypes
<1>2. \A k \in 1..at : k \in 1..at'
  BY <1>1, SMTT(20)
<1>. QED BY <1>1, <1>2 DEF MapsRead, Pictured, IsItem, NameAt, Says

LEMMA MapsGrow ==
  ASSUME NEW c \in Programs, at \in 0..Len(c.lines), at' = at + 1, MapsRead(c),
         Pictured(c, at + 1),
         attrs' = Program!Put(attrs, NameAt(c, at + 1), Says(c, at + 1)),
         meta' = IF Says(c, at + 1) = "unsupported" THEN meta
                 ELSE Program!Put(meta, NameAt(c, at + 1), at + 1)
  PROVE  MapsRead(c)'
<1>1. at \in Nat /\ \A k \in 1..at' : k \in 1..at \/ k = at + 1
  BY ProgramTypes
<1>2. at + 1 \in 1..at' /\ \A k \in 1..at : k \in 1..at'
  BY <1>1
<1>. DEFINE n == NameAt(c, at + 1)
            says == Says(c, at + 1)
<1>3. /\ DOMAIN attrs' = DOMAIN attrs \cup {n} /\ attrs'[n] = says
      /\ \A m \in DOMAIN attrs : m # n => attrs'[m] = attrs[m]
  BY DEF Program!Put
<1>4. says # "unsupported" =>
        /\ DOMAIN meta' = DOMAIN meta \cup {n} /\ meta'[n] = at + 1
        /\ \A m \in DOMAIN meta : m # n => meta'[m] = meta[m]
  BY DEF Program!Put
<1>5. says = "unsupported" => meta' = meta
  OBVIOUS
<1>6. \A k \in 1..at' : Pictured(c, k) => NameAt(c, k) \in DOMAIN attrs'
  BY <1>1, <1>3 DEF MapsRead
<1>7. \A m \in DOMAIN attrs' :
        \E k \in 1..at' : Pictured(c, k) /\ NameAt(c, k) = m /\ attrs'[m] = Says(c, k)
  <2>. SUFFICES ASSUME NEW m \in DOMAIN attrs'
                PROVE  \E k \in 1..at' : Pictured(c, k) /\ NameAt(c, k) = m /\ attrs'[m] = Says(c, k)
    OBVIOUS
  <2>1. CASE m = n
    BY <1>2, <1>3, <2>1
  <2>2. CASE m # n
    BY <1>2, <1>3, <2>2 DEF MapsRead
  <2>. QED BY <2>1, <2>2
<1>8. \A k \in 1..at' :
        Pictured(c, k) /\ Says(c, k) # "unsupported" => NameAt(c, k) \in DOMAIN meta'
  BY <1>1, <1>4, <1>5 DEF MapsRead
<1>9. \A m \in DOMAIN meta' :
        \E k \in 1..at' : /\ Pictured(c, k) /\ NameAt(c, k) = m /\ meta'[m] = k
                          /\ Says(c, k) # "unsupported"
  <2>. SUFFICES ASSUME NEW m \in DOMAIN meta'
                PROVE  \E k \in 1..at' : /\ Pictured(c, k) /\ NameAt(c, k) = m /\ meta'[m] = k
                                         /\ Says(c, k) # "unsupported"
    OBVIOUS
  <2>1. CASE m = n /\ says # "unsupported"
    BY <1>2, <1>4, <2>1
  <2>2. CASE m # n \/ says = "unsupported"
    <3>1. m \in DOMAIN meta /\ meta'[m] = meta[m]
      BY <1>4, <1>5, <2>2
    <3>. QED BY <1>2, <3>1 DEF MapsRead
  <2>. QED BY <2>1, <2>2
<1>. QED BY <1>6, <1>7, <1>8, <1>9 DEF MapsRead, Pictured, IsItem, NameAt, Says

LEMMA NearestStays ==
  ASSUME NEW c, NEW n \in Nat, NEW k, NearestAbove(c, k, n + 1), ~Pictured(c, n + 1)
  PROVE  NearestAbove(c, k, n + 2)
<1>1. k \in 1..n /\ (n + 2) - 1 = n + 1 /\ (n + 1) - 1 = n
  BY DEF NearestAbove
<1>2. \A j \in (k + 1)..(n + 1) : j \in (k + 1)..n \/ j = n + 1
  BY <1>1
<1>. QED BY <1>1, <1>2 DEF NearestAbove

LEMMA NearestNow ==
  ASSUME NEW c, NEW n \in Nat, Pictured(c, n + 1)
  PROVE  NearestAbove(c, n + 1, n + 2)
<1>1. (n + 2) - 1 = n + 1 /\ n + 1 \in 1..(n + 1) /\ ((n + 1) + 1)..(n + 1) = {}
  OBVIOUS
<1>. QED BY <1>1 DEF NearestAbove

LEMMA ParentsAfter ==
  ASSUME NEW c,
         lastParent' # NoName =>
           \E k \in 1..at' : NearestAbove(c, k, at' + 1) /\ NameAt(c, k) = lastParent',
         conditions' \in Seq(ConditionsOf(c)),
         \A i \in DOMAIN conditions' :
           /\ conditions'[i].line \in 1..at'
           /\ \E k \in 1..at' : /\ NearestAbove(c, k, conditions'[i].line)
                                /\ NameAt(c, k) = conditions'[i].parent
  PROVE  ParentsRead(c)'
BY DEF ParentsRead, NearestAbove, ConditionsOf, Pictured, IsItem, NameAt

(* The conditions read so far keep their parents when another line is read. *)
LEMMA ParentsStay ==
  ASSUME NEW c \in Programs, at \in 0..Len(c.lines), at' = at + 1, ParentsRead(c),
         conditions' = conditions,
         \/ ~Pictured(c, at + 1) /\ lastParent' = lastParent
         \/ Pictured(c, at + 1) /\ lastParent' = NameAt(c, at + 1)
  PROVE  ParentsRead(c)'
<1>1. at \in Nat /\ at' + 1 = at + 2 /\ at + 1 \in 1..at' /\ \A k \in 1..at : k \in 1..at'
  BY ProgramTypes
<1>2. lastParent' # NoName =>
        \E k \in 1..at' : NearestAbove(c, k, at' + 1) /\ NameAt(c, k) = lastParent'
  <2>1. CASE ~Pictured(c, at + 1) /\ lastParent' = lastParent
    <3>. SUFFICES ASSUME lastParent # NoName
                  PROVE  \E k \in 1..at' : NearestAbove(c, k, at + 2) /\ NameAt(c, k) = lastParent
      BY <1>1, <2>1
    <3>1. PICK k \in 1..at : NearestAbove(c, k, at + 1) /\ NameAt(c, k) = lastParent
      BY DEF ParentsRead
    <3>2. NearestAbove(c, k, at + 2)
      BY <1>1, <2>1, <3>1, NearestStays
    <3>. QED BY <1>1, <3>1, <3>2
  <2>2. CASE Pictured(c, at + 1) /\ lastParent' = NameAt(c, at + 1)
    BY <1>1, <2>2, NearestNow
  <2>. QED BY <2>1, <2>2
<1>3. \A i \in DOMAIN conditions :
        /\ conditions[i].line \in 1..at'
        /\ \E k \in 1..at' : /\ NearestAbove(c, k, conditions[i].line)
                             /\ NameAt(c, k) = conditions[i].parent
  BY <1>1 DEF ParentsRead
<1>4. conditions \in Seq(ConditionsOf(c))
  BY DEF ParentsRead
<1>5. /\ lastParent' # NoName =>
           \E k \in 1..at' : NearestAbove(c, k, at' + 1) /\ NameAt(c, k) = lastParent'
      /\ conditions' \in Seq(ConditionsOf(c))
      /\ \A i \in DOMAIN conditions' :
           /\ conditions'[i].line \in 1..at'
           /\ \E k \in 1..at' : /\ NearestAbove(c, k, conditions'[i].line)
                                /\ NameAt(c, k) = conditions'[i].parent
  BY <1>2, <1>3, <1>4
<1>. QED BY <1>5, ParentsAfter

LEMMA ParentsGrow ==
  ASSUME NEW c \in Programs, at \in 0..Len(c.lines), at + 1 \in 1..Len(c.lines), at' = at + 1,
         ParentsRead(c), ~Pictured(c, at + 1), lastParent # NoName, lastParent' = lastParent,
         conditions' = Append(conditions, [name |-> NameAt(c, at + 1), parent |-> lastParent,
                                           line |-> at + 1])
  PROVE  ParentsRead(c)'
<1>. DEFINE new == [name |-> NameAt(c, at + 1), parent |-> lastParent, line |-> at + 1]
<1>1. /\ at \in Nat /\ at' + 1 = at + 2 /\ at + 1 \in 1..at'
      /\ \A k \in 1..at : k \in 1..at' /\ k \in 1..Len(c.lines)
  BY ProgramTypes
<1>2. PICK k \in 1..at : NearestAbove(c, k, at + 1) /\ NameAt(c, k) = lastParent
  BY DEF ParentsRead
<1>3. NearestAbove(c, k, at' + 1) /\ k \in 1..at'
  BY <1>1, <1>2, NearestStays
<1>4. new \in ConditionsOf(c)
  BY <1>1, <1>2 DEF ConditionsOf
<1>5. conditions \in Seq(ConditionsOf(c)) /\ conditions' = Append(conditions, new)
  BY DEF ParentsRead
<1>6. new.line = at + 1 /\ new.parent = lastParent
  OBVIOUS
<1>. HIDE DEF new
<1>7. /\ conditions' \in Seq(ConditionsOf(c))
      /\ \A i \in DOMAIN conditions' :
           \/ i \in DOMAIN conditions /\ conditions'[i] = conditions[i]
           \/ conditions'[i] = new
  BY <1>4, <1>5
<1>8. \A i \in DOMAIN conditions' :
        /\ conditions'[i].line \in 1..at'
        /\ \E j \in 1..at' : /\ NearestAbove(c, j, conditions'[i].line)
                             /\ NameAt(c, j) = conditions'[i].parent
  <2>. SUFFICES ASSUME NEW i \in DOMAIN conditions'
                PROVE  /\ conditions'[i].line \in 1..at'
                       /\ \E j \in 1..at' : /\ NearestAbove(c, j, conditions'[i].line)
                                            /\ NameAt(c, j) = conditions'[i].parent
    OBVIOUS
  <2>1. CASE i \in DOMAIN conditions /\ conditions'[i] = conditions[i]
    BY <1>1, <2>1 DEF ParentsRead
  <2>2. CASE conditions'[i] = new
    BY <1>1, <1>2, <1>6, <2>2
  <2>. QED BY <1>7, <2>1, <2>2
<1>9. \E j \in 1..at' : NearestAbove(c, j, at' + 1) /\ NameAt(c, j) = lastParent'
  BY <1>2, <1>3
<1>10. conditions' \in Seq(ConditionsOf(c))
  BY <1>7
<1>11. /\ lastParent' # NoName =>
            \E j \in 1..at' : NearestAbove(c, j, at' + 1) /\ NameAt(c, j) = lastParent'
       /\ conditions' \in Seq(ConditionsOf(c))
       /\ \A i \in DOMAIN conditions' :
            /\ conditions'[i].line \in 1..at'
            /\ \E j \in 1..at' : /\ NearestAbove(c, j, conditions'[i].line)
                                 /\ NameAt(c, j) = conditions'[i].parent
  BY <1>8, <1>9, <1>10
<1>. QED BY <1>11, ParentsAfter

(* The invariant of a program c, and that of the call when that is c.       *)
ProgramAt(c) == Progress(c) /\ ItemsRead(c) /\ MapsRead(c) /\ ParentsRead(c)

(* A line that is read, by what kind of line it is. *)
LEMMA LineRead ==
  ASSUME NEW c \in Programs, c = call, call' = c, ProgramAt(c),
         Program!ReadCondition \/ Program!SkipLine \/ Program!ReadGroup \/ Program!ReadElementary
  PROVE  ProgramAt(c)'
<1>1. /\ at \in 0..Len(c.lines) /\ at + 1 \in 1..Len(c.lines) /\ at' = at + 1 /\ pc' = "lines"
      /\ Len(c.lines) \in Nat
  BY ProgramTypes DEF ProgramAt, Progress, Program!ReadCondition, Program!SkipLine,
       Program!ReadGroup, Program!ReadElementary, Program!Reading
<1>2. Progress(c)'
  BY <1>1 DEF Progress
<1>3. CASE Program!ReadCondition \/ Program!SkipLine
  <2>1. ~IsItem(c, at + 1) /\ items' = items /\ attrs' = attrs /\ meta' = meta
        /\ lastParent' = lastParent
    BY <1>3 DEF Program!ReadCondition, Program!SkipLine, Program!Line, IsItem
  <2>2. ~Pictured(c, at + 1)
    BY <2>1 DEF Pictured
  <2>3. ItemsRead(c)'
    BY <1>1, <2>1, ItemsStay DEF ProgramAt
  <2>4. MapsRead(c)'
    BY <1>1, <2>1, <2>2, MapsStay DEF ProgramAt
  <2>5. ParentsRead(c)'
    <3>1. CASE conditions' = conditions
      BY <1>1, <2>1, <2>2, <3>1, ParentsStay DEF ProgramAt
    <3>2. CASE /\ lastParent # NoName
               /\ conditions' = Append(conditions, [name |-> NameAt(c, at + 1),
                                         parent |-> lastParent, line |-> at + 1])
      BY <1>1, <2>1, <2>2, <3>2, ParentsGrow DEF ProgramAt
    <3>. QED BY <1>3, <3>1, <3>2 DEF Program!ReadCondition, Program!SkipLine, Program!Condition,
                                     Program!Line, NameAt
  <2>. QED BY <1>2, <2>3, <2>4, <2>5 DEF ProgramAt
<1>4. CASE Program!ReadGroup
  <2>1. IsItem(c, at + 1) /\ ~Pictured(c, at + 1) /\ items' = Append(items, at + 1)
        /\ attrs' = attrs /\ meta' = meta /\ lastParent' = lastParent /\ conditions' = conditions
    BY <1>4 DEF Program!ReadGroup, Program!Line, IsItem, Pictured
  <2>2. ItemsRead(c)'
    BY <1>1, <2>1, ItemsGrow DEF ProgramAt
  <2>3. MapsRead(c)'
    BY <1>1, <2>1, MapsStay DEF ProgramAt
  <2>4. ParentsRead(c)'
    BY <1>1, <2>1, ParentsStay DEF ProgramAt
  <2>. QED BY <1>2, <2>2, <2>3, <2>4 DEF ProgramAt
<1>5. CASE Program!ReadElementary
  <2>1. IsItem(c, at + 1) /\ Pictured(c, at + 1) /\ items' = Append(items, at + 1)
        /\ lastParent' = NameAt(c, at + 1) /\ conditions' = conditions
    BY <1>5 DEF Program!ReadElementary, Program!Line, IsItem, Pictured, NameAt
  <2>2. /\ attrs' = Program!Put(attrs, NameAt(c, at + 1), Says(c, at + 1))
        /\ meta' = IF Says(c, at + 1) = "unsupported" THEN meta
                   ELSE Program!Put(meta, NameAt(c, at + 1), at + 1)
    BY <1>5 DEF Program!ReadElementary, Program!Line, NameAt, Says
  <2>3. ItemsRead(c)'
    BY <1>1, <2>1, ItemsGrow DEF ProgramAt
  <2>4. MapsRead(c)'
    BY <1>1, <2>1, <2>2, MapsGrow DEF ProgramAt
  <2>5. ParentsRead(c)'
    BY <1>1, <2>1, ParentsStay DEF ProgramAt
  <2>. QED BY <1>2, <2>3, <2>4, <2>5 DEF ProgramAt
<1>. QED BY <1>3, <1>4, <1>5

LEMMA ProgramEnds ==
  ASSUME NEW c \in Programs, c = call, call' = c, ProgramAt(c),
         \/ Program!FailExpand \/ Program!Expand \/ Program!FailLayout
         \/ Program!FailCollision \/ Program!Accept \/ Program!Terminated
  PROVE  ProgramAt(c)'
<1>1. UNCHANGED <<at, items, attrs, meta, conditions, lastParent>>
  BY DEF Program!FailExpand, Program!Expand, Program!FailLayout, Program!FailCollision,
         Program!Accept, Program!Terminated, Program!vars
<1>2. Progress(c)'
  <2>1. CASE Program!Accept
    <3>1. c.checked => NamesApart(c)
      BY <2>1 DEF Program!Accept, Program!Collisions, Program!NameOf, NamesApart, NameAt
    <3>2. (c.checked => NamesApart(c))'
      BY <1>1, <3>1 DEF NamesApart
    <3>3. pc' = "done" /\ at' = Len(c.lines)
      BY <2>1 DEF Program!Accept
    <3>. QED BY <1>1, <3>2, <3>3 DEF ProgramAt, Progress, NamesApart
  <2>2. CASE pc' = "error" \/ pc' = "lines"
    BY <1>1, <2>2 DEF ProgramAt, Progress
  <2>3. CASE pc' = pc
    BY <1>1, <2>3 DEF ProgramAt, Progress, NamesApart
  <2>. QED BY <2>1, <2>2, <2>3 DEF Program!FailExpand, Program!Expand, Program!FailLayout,
                    Program!FailCollision, Program!Terminated, Program!vars
<1>. QED BY <1>1, <1>2 DEF ProgramAt, ItemsRead, MapsRead, ParentsRead

LEMMA ProgramStep == ProgramInv /\ Program!Next => ProgramInv'
<1>. SUFFICES ASSUME ProgramInv, Program!Next PROVE ProgramInv'
  OBVIOUS
<1>1. call \in Programs /\ call' = call
  BY DEF ProgramInv, Progress, Program!Next, Program!FailExpand, Program!Expand,
       Program!FailLayout, Program!FailCollision, Program!Accept, Program!Terminated, Program!vars,
       Program!ReadCondition, Program!SkipLine, Program!ReadGroup, Program!ReadElementary
<1>2. PICK c \in Programs : c = call /\ call' = c
  BY <1>1
<1>3. ProgramAt(c)
  BY <1>2 DEF ProgramInv, ProgramAt
<1>4. ProgramAt(c)'
  BY <1>2, <1>3, LineRead, ProgramEnds DEF Program!Next
<1>. QED BY <1>2, <1>4 DEF ProgramInv, ProgramAt, Progress, ItemsRead, MapsRead, ParentsRead, NamesApart

-----------------------------------------------------------------------------
(* Of a program without a name twice in the maps, the maps speak of each   *)
(* item by its own line.                                                   *)
LEMMA OwnLine ==
  ASSUME ProgramInv, NamesApart(call), at = Len(call.lines), NEW k \in DOMAIN items
  PROVE  Program!DecodedByOwn(k)
<1>. DEFINE n == NameAt(call, items[k])
<1>1. items[k] \in 1..at /\ IsItem(call, items[k])
  BY DEF ProgramInv, ItemsRead
<1>2. ASSUME NEW j \in 1..at, Pictured(call, j), NameAt(call, j) = n
      PROVE  j = items[k]
  <2>1. PICK i \in DOMAIN items : items[i] = j
    BY <1>2 DEF ProgramInv, ItemsRead, Pictured
  <2>2. n \in DOMAIN attrs
    BY <1>2 DEF ProgramInv, MapsRead
  <2>. QED BY <1>2, <2>1, <2>2 DEF NamesApart
<1>3. CASE Pictured(call, items[k])
  <2>1. n \in DOMAIN attrs /\ attrs[n] = Says(call, items[k])
    BY <1>1, <1>2, <1>3 DEF ProgramInv, MapsRead
  <2>2. IF Says(call, items[k]) = "unsupported" THEN n \notin DOMAIN meta
        ELSE n \in DOMAIN meta /\ meta[n] = items[k]
    BY <1>1, <1>2, <1>3 DEF ProgramInv, MapsRead
  <2>3. Program!Declares(call.lines[items[k]]) = Says(call, items[k])
    BY ClassifyDeclares DEF Says
  <2>. QED BY <1>3, <2>1, <2>2, <2>3 DEF Program!DecodedByOwn, Program!Elementary, Pictured, IsItem, NameAt
<1>4. CASE ~Pictured(call, items[k])
  <2>1. n \notin DOMAIN attrs
    BY <1>2, <1>4 DEF ProgramInv, MapsRead
  <2>. QED BY <1>4, <2>1 DEF Program!DecodedByOwn, Program!Elementary, Pictured, IsItem, NameAt
<1>. QED BY <1>3, <1>4

(* Of such a program, the first item with the name of a condition's parent *)
(* is the nearest pictured one above the condition.                        *)
LEMMA OwnParent ==
  ASSUME ProgramInv, NamesApart(call), at = Len(call.lines), NEW i \in DOMAIN conditions
  PROVE  \E k \in {items[j] : j \in {j \in DOMAIN items : Program!NameOf(j) = conditions[i].parent}} :
           /\ \A j \in {items[m] : m \in {m \in DOMAIN items : Program!NameOf(m) = conditions[i].parent}} :
                k <= j
           /\ Program!Elementary(k) /\ k < conditions[i].line
           /\ \A j \in (k + 1)..(conditions[i].line - 1) : ~Program!Elementary(j)
<1>1. PICK k \in 1..at : NearestAbove(call, k, conditions[i].line)
                         /\ NameAt(call, k) = conditions[i].parent
  BY DEF ProgramInv, ParentsRead
<1>2. conditions[i].line \in Nat
  BY DEF ProgramInv, ParentsRead
<1>3. Pictured(call, k) /\ k < conditions[i].line /\ k \in Nat
      /\ \A j \in (k + 1)..(conditions[i].line - 1) : ~Pictured(call, j)
  BY <1>1, <1>2 DEF NearestAbove
<1>4. NameAt(call, k) \in DOMAIN attrs
  BY <1>1, <1>3 DEF ProgramInv, MapsRead
<1>5. PICK m \in DOMAIN items : items[m] = k
  BY <1>1, <1>3 DEF ProgramInv, ItemsRead, Pictured
<1>6. \A j \in DOMAIN items : Program!NameOf(j) = conditions[i].parent => items[j] = k
  BY <1>1, <1>4, <1>5 DEF NamesApart, NameAt, Program!NameOf
<1>7. Program!NameOf(m) = conditions[i].parent
  BY <1>1, <1>5 DEF NameAt, Program!NameOf
<1>8. \A j : Program!Elementary(j) <=> Pictured(call, j)
  BY DEF Program!Elementary, Pictured, IsItem
<1>. QED BY <1>3, <1>5, <1>6, <1>7, <1>8

LEMMA ProgramRead == Spec => [](level = "lines" => ProgramInv)
<1>. DEFINE IInv == level = "lines" => ProgramInv
<1>1. Init => IInv
  BY ProgramStart DEF Init
<1>2. IInv /\ [Next]_vars => IInv'
  <2>1. CASE UNCHANGED vars
    BY <2>1 DEF vars, textVars, lineVars, ProgramInv, Progress, ItemsRead, MapsRead, ParentsRead, NamesApart
  <2>2. CASE level = "lines" /\ Program!Next /\ level' = level
    BY <2>2, ProgramStep
  <2>3. CASE level # "lines" /\ level' = level
    BY <2>3
  <2>. QED BY <2>1, <2>2, <2>3 DEF Next
<1>. QED BY <1>1, <1>2, PTL DEF Spec

(* In a program that passed check_collisions the maps by name, which later *)
(* lines overwrite, say of each item what its own line says, whatever the  *)
(* order of items, groups and conditions.                                  *)
THEOREM OwnPictures == Spec => []CheckedItemsAreTheirOwn
<1>1. (level = "lines" => ProgramInv) => CheckedItemsAreTheirOwn
  BY OwnLine DEF CheckedItemsAreTheirOwn, Program!CheckedItemsAreTheirOwn, ProgramInv, Progress
<1>. QED BY <1>1, ProgramRead, PTL

(* In such a program a condition, which knows its parent only by name,     *)
(* reads the bytes of the item it stands under.                            *)
THEOREM OwnParents == Spec => []ConditionsReadTheirParent
<1>1. (level = "lines" => ProgramInv) => ConditionsReadTheirParent
  <2>. SUFFICES ASSUME ProgramInv, pc = "done", call.checked, NEW i \in DOMAIN conditions
                PROVE  \E k \in {items[j] : j \in {j \in DOMAIN items : Program!NameOf(j) = conditions[i].parent}} :
                         /\ \A j \in {items[m] : m \in {m \in DOMAIN items : Program!NameOf(m) = conditions[i].parent}} :
                              k <= j
                         /\ Program!Elementary(k) /\ k < conditions[i].line
                         /\ \A j \in (k + 1)..(conditions[i].line - 1) : ~Program!Elementary(j)
    BY Zenon DEF ConditionsReadTheirParent, Program!ConditionsReadTheirParent
  <2>. QED BY OwnParent DEF ProgramInv, Progress
<1>. QED BY <1>1, ProgramRead, PTL

-----------------------------------------------------------------------------
Usages == {"DISPLAY", "COMP", "COMP-3", "COMP-5", "COMP-6", "COMP-X"}

LEMMA UsageTyped == \A w \in DOMAIN Item!UsageOf : Item!UsageOf[w] \in Usages
BY DEF Item!UsageOf, Usages

(* FlattenSeq, which the words of a declaration come from, defines a        *)
(* function by recursion: the first i clauses, one after the other.         *)
FlatTo(d, f, i) == IF i = 1 THEN d[i] ELSE f[i - 1] \o d[i]
Flats(d, f, m) == f = [i \in 1..m |-> FlatTo(d, f, i)]
Flat(d) == CHOOSE f : Flats(d, f, Len(d))

LEMMA LeastIn ==
  ASSUME NEW S, S \subseteq Nat, S # {}
  PROVE  \E k \in S : \A j \in S : k <= j
<1>1. PICK k \in S : \A j \in S : ~(<<j, k>> \in OpToRel(<, Nat))
  BY NatLessThanWellFounded, WFMin, Zenon
<1>2. ASSUME NEW j \in S PROVE k <= j
  <2>1. SUFFICES ASSUME j < k PROVE FALSE
    OBVIOUS
  <2>2. <<j, k>> \in Nat \X Nat /\ <<j, k>>[1] < <<j, k>>[2]
    BY <2>1
  <2>. QED BY <1>1, <2>2, Zenon DEF OpToRel
<1>. QED BY <1>2

LEMMA OneMoreClause ==
  ASSUME NEW d, NEW f, NEW m \in Nat \ {0}, Flats(d, f, m - 1)
  PROVE  \E g : Flats(d, g, m)
<1>. DEFINE more == [k \in 1..m |-> IF k = m THEN FlatTo(d, f, m) ELSE f[k]]
<1>1. /\ \A k \in 1..m : more[k] = IF k = m THEN FlatTo(d, f, m) ELSE f[k]
      /\ more = [k \in 1..m |-> more[k]]
  OBVIOUS
<1>. HIDE DEF more
<1>2. more[m] = FlatTo(d, more, m)
  <2>1. m \in 1..m /\ more[m] = FlatTo(d, f, m)
    BY <1>1
  <2>2. m # 1 => m - 1 \in 1..m /\ m - 1 # m
    OBVIOUS
  <2>3. m # 1 => more[m - 1] = f[m - 1]
    BY <1>1, <2>2
  <2>. QED BY <2>1, <2>3, Zenon DEF FlatTo
<1>3. ASSUME NEW k \in 1..(m - 1) PROVE more[k] = FlatTo(d, more, k)
  <2>1. f[k] = FlatTo(d, f, k)
    BY DEF Flats
  <2>2. more[k] = f[k] /\ k \in 1..m
    BY <1>1
  <2>3. k # 1 => k - 1 \in 1..m /\ more[k - 1] = f[k - 1]
    BY <1>1
  <2>. QED BY <2>1, <2>2, <2>3 DEF FlatTo
<1>4. \A k \in 1..m : more[k] = FlatTo(d, more, k)
  BY <1>2, <1>3
<1>. QED BY <1>1, <1>4 DEF Flats

LEMMA FlatIs ==
  ASSUME NEW d, Len(d) \in Nat
  PROVE  Flats(d, Flat(d), Len(d))
<1>. DEFINE open == {m \in 0..Len(d) : ~\E f : Flats(d, f, m)}
<1>1. open = {}
  <2>. SUFFICES ASSUME open # {} PROVE FALSE
    OBVIOUS
  <2>1. PICK m \in open : \A j \in open : m <= j
    <3>1. open \subseteq Nat
      OBVIOUS
    <3>. HIDE DEF open
    <3>. QED BY <3>1, LeastIn
  <2>2. m # 0
    <3>1. Flats(d, [k \in 1..0 |-> <<>>], 0)
      BY DEF Flats
    <3>. QED BY <2>1, <3>1
  <2>3. m \in Nat \ {0} /\ m - 1 \in 0..Len(d)
    BY <2>1, <2>2
  <2>4. m - 1 \notin open
    <3>. HIDE DEF open
    <3>. QED BY <2>1, <2>3
  <2>. QED BY <2>1, <2>3, <2>4, OneMoreClause
<1>2. \E f : Flats(d, f, Len(d))
  BY <1>1
<1>. QED BY <1>2 DEF Flat

(* Where piece i of a sequence of pieces begins when they are put one after *)
(* the other: Before(d, i) words stand before it.                           *)
Before(d, i) == IF i = 1 THEN 0 ELSE Len(Flat(d)[i - 1])

(* The first m pieces typed, each at its place, and nothing else.           *)
PlacedTo(d, S, m) ==
  /\ \A i \in 1..m : Flat(d)[i] \in Seq(S) /\ Len(Flat(d)[i]) = Before(d, i) + Len(d[i])
  /\ \A i, j \in 1..m : i < j => Before(d, i) + Len(d[i]) <= Before(d, j)
  /\ \A i, j \in 1..m : i <= j =>
       \A q \in 1..Len(d[i]) : Flat(d)[j][Before(d, i) + q] = d[i][q]
  /\ \A j \in 1..m : \A n \in 1..Len(Flat(d)[j]) :
       \E i \in 1..j : \E q \in 1..Len(d[i]) : n = Before(d, i) + q

LEMMA OneMorePlaced ==
  ASSUME NEW S, NEW d \in Seq(Seq(S)), NEW m \in 1..Len(d), PlacedTo(d, S, m - 1)
  PROVE  PlacedTo(d, S, m)
<1>. DEFINE f == Flat(d)
<1>1. Len(d) \in Nat /\ m \in Nat /\ \A i \in 1..Len(d) : d[i] \in Seq(S) /\ Len(d[i]) \in Nat
  OBVIOUS
<1>2. \A i \in 1..Len(d) : f[i] = FlatTo(d, f, i)
  BY <1>1, FlatIs DEF Flats
<1>3. \A i \in 1..(m - 1) : /\ f[i] \in Seq(S) /\ Len(f[i]) \in Nat
                            /\ Len(f[i]) = Before(d, i) + Len(d[i])
  BY DEF PlacedTo
<1>4. CASE m = 1
  <2>1. f[1] = d[1] /\ Before(d, 1) = 0
    BY <1>2, <1>4 DEF FlatTo, Before
  <2>2. \A i \in 1..1 : i = 1
    OBVIOUS
  <2>3. d[1] \in Seq(S) /\ Len(d[1]) \in Nat
    BY <1>1, <1>4
  <2>. QED BY <1>4, <2>1, <2>2, <2>3 DEF PlacedTo
<1>5. CASE m # 1
  <2>. DEFINE s == f[m - 1]
              c == d[m]
  <2>1. m - 1 \in 1..(m - 1) /\ f[m] = s \o c /\ Before(d, m) = Len(s)
    <3>1. m - 1 \in 1..(m - 1)
      BY <1>1, <1>5
    <3>2. f[m] = FlatTo(d, f, m)
      BY <1>2
    <3>. QED BY <1>5, <3>1, <3>2 DEF FlatTo, Before
  <2>2. s \in Seq(S) /\ c \in Seq(S) /\ Len(s) \in Nat /\ Len(c) \in Nat
        /\ Len(s) = Before(d, m - 1) + Len(d[m - 1])
    BY <1>1, <1>3, <2>1
  <2>. HIDE DEF s, c
  <2>3. /\ s \o c \in Seq(S) /\ Len(s \o c) = Len(s) + Len(c)
        /\ \A n \in 1..Len(s) : (s \o c)[n] = s[n]
        /\ \A q \in 1..Len(c) : (s \o c)[Len(s) + q] = c[q]
        /\ \A n \in 1..Len(s \o c) : n \in 1..Len(s) \/ \E q \in 1..Len(c) : n = Len(s) + q
    <3>1. \A n \in 1..(Len(s) + Len(c)) : n \notin 1..Len(s) =>
            n - Len(s) \in 1..Len(c) /\ n = Len(s) + (n - Len(s))
      BY <2>2, SMTT(20)
    <3>2. s \o c \in Seq(S) /\ Len(s \o c) = Len(s) + Len(c)
      <4>1. s \in Seq(S) /\ c \in Seq(S)
        BY <2>2
      <4>. QED BY <4>1, ConcatProperties
    <3>3. \A n \in 1..Len(s) : (s \o c)[n] = s[n]
      BY <2>2
    <3>4. \A q \in 1..Len(c) : (s \o c)[Len(s) + q] = c[q]
      BY <2>2, SMTT(20)
    <3>. QED BY <3>1, <3>2, <3>3, <3>4
  <2>4. \A i \in 1..m : i \in 1..(m - 1) \/ i = m
    BY <1>1
  <2>5. \A i \in 1..(m - 1) : Before(d, i) \in Nat /\ Before(d, i) + Len(d[i]) <= Len(s)
    <3>. SUFFICES ASSUME NEW i \in 1..(m - 1)
                  PROVE  Before(d, i) \in Nat /\ Before(d, i) + Len(d[i]) <= Len(s)
      OBVIOUS
    <3>1. Before(d, i) \in Nat
      <4>1. i # 1 => i - 1 \in 1..(m - 1)
        BY <1>1
      <4>. QED BY <1>3, <4>1 DEF Before
    <3>2. Before(d, i) + Len(d[i]) <= Before(d, m - 1) \/ i = m - 1
      BY <1>1, <2>1 DEF PlacedTo
    <3>3. Before(d, m - 1) \in Nat /\ Len(d[m - 1]) \in Nat /\ Len(d[i]) \in Nat
      <4>1. m - 1 # 1 => m - 2 \in 1..(m - 1)
        BY <1>1, <2>1
      <4>2. (m - 1) - 1 = m - 2
        BY <1>1
      <4>3. Before(d, m - 1) \in Nat
        BY <1>3, <4>1, <4>2 DEF Before
      <4>4. m - 1 \in 1..Len(d) /\ i \in 1..Len(d)
        BY <1>1, <2>1
      <4>. QED BY <1>1, <4>3, <4>4
    <3>4. CASE i = m - 1
      BY <2>2, <3>1, <3>4
    <3>5. CASE Before(d, i) + Len(d[i]) <= Before(d, m - 1)
      <4>1. Len(s) >= Before(d, m - 1)
        BY <2>2, <3>3, SMTT(20)
      <4>. QED BY <2>2, <3>1, <3>3, <3>5, <4>1, SMTT(20)
    <3>. QED BY <3>2, <3>4, <3>5
  <2>6. \A i \in 1..m : f[i] \in Seq(S) /\ Len(f[i]) = Before(d, i) + Len(d[i])
    BY <1>3, <2>1, <2>3, <2>4 DEF c
  <2>7. \A i, j \in 1..m : i < j => Before(d, i) + Len(d[i]) <= Before(d, j)
    <3>. SUFFICES ASSUME NEW i \in 1..m, NEW j \in 1..m, i < j
                  PROVE  Before(d, i) + Len(d[i]) <= Before(d, j)
      OBVIOUS
    <3>1. i \in 1..(m - 1)
      BY <1>1
    <3>. QED BY <2>1, <2>4, <2>5, <3>1 DEF PlacedTo
  <2>8. \A i, j \in 1..m : i <= j =>
          \A q \in 1..Len(d[i]) : f[j][Before(d, i) + q] = d[i][q]
    <3>. SUFFICES ASSUME NEW i \in 1..m, NEW j \in 1..m, i <= j, NEW q \in 1..Len(d[i])
                  PROVE  f[j][Before(d, i) + q] = d[i][q]
      OBVIOUS
    <3>1. CASE j \in 1..(m - 1)
      <4>1. i \in 1..(m - 1)
        BY <1>1, <3>1
      <4>. QED BY <3>1, <4>1 DEF PlacedTo
    <3>2. CASE j = m /\ i = m
      BY <2>1, <2>3, <3>2 DEF c
    <3>3. CASE j = m /\ i \in 1..(m - 1)
      <4>1. Before(d, i) + q \in 1..Len(s)
        <5>1. Before(d, i) \in Nat /\ Before(d, i) + Len(d[i]) <= Len(s) /\ Len(d[i]) \in Nat
          BY <1>1, <2>5, <3>3
        <5>. QED BY <2>2, <5>1, SMTT(20)
      <4>2. s[Before(d, i) + q] = d[i][q]
        BY <1>1, <2>1, <3>3 DEF PlacedTo, s
      <4>. QED BY <2>1, <2>3, <3>3, <4>1, <4>2
    <3>. QED BY <2>4, <3>1, <3>2, <3>3
  <2>9. \A j \in 1..m : \A n \in 1..Len(f[j]) :
          \E i \in 1..j : \E q \in 1..Len(d[i]) : n = Before(d, i) + q
    <3>. SUFFICES ASSUME NEW j \in 1..m, NEW n \in 1..Len(f[j])
                  PROVE  \E i \in 1..j : \E q \in 1..Len(d[i]) : n = Before(d, i) + q
      OBVIOUS
    <3>1. CASE j \in 1..(m - 1)
      BY <3>1 DEF PlacedTo
    <3>2. CASE j = m /\ n \in 1..Len(s)
      <4>1. \E i \in 1..(m - 1) : \E q \in 1..Len(d[i]) : n = Before(d, i) + q
        BY <2>1, <3>2 DEF PlacedTo, s
      <4>2. \A i \in 1..(m - 1) : i \in 1..j
        BY <1>1, <3>2
      <4>. QED BY <4>1, <4>2
    <3>3. CASE j = m /\ \E q \in 1..Len(c) : n = Len(s) + q
      BY <1>1, <2>1, <3>3 DEF c
    <3>. QED BY <2>1, <2>3, <2>4, <3>1, <3>2, <3>3
  <2>. QED BY <2>6, <2>7, <2>8, <2>9 DEF PlacedTo
<1>. QED BY <1>4, <1>5

LEMMA AllPlaced ==
  ASSUME NEW S, NEW d \in Seq(Seq(S))
  PROVE  PlacedTo(d, S, Len(d))
<1>. DEFINE open == {m \in 0..Len(d) : ~PlacedTo(d, S, m)}
<1>1. Len(d) \in Nat
  OBVIOUS
<1>2. open = {}
  <2>. SUFFICES ASSUME open # {} PROVE FALSE
    OBVIOUS
  <2>1. PICK m \in open : \A j \in open : m <= j
    <3>1. open \subseteq Nat
      OBVIOUS
    <3>. HIDE DEF open
    <3>. QED BY <3>1, LeastIn
  <2>2. m # 0
    <3>1. PlacedTo(d, S, 0)
      BY DEF PlacedTo
    <3>. QED BY <2>1, <3>1
  <2>3. m \in 1..Len(d) /\ m - 1 \in 0..Len(d) /\ ~(m <= m - 1)
    BY <1>1, <2>1, <2>2
  <2>4. m - 1 \notin open
    <3>. HIDE DEF open
    <3>. QED BY <2>1, <2>3
  <2>. QED BY <2>1, <2>3, <2>4, OneMorePlaced
<1>. QED BY <1>1, <1>2

(* The pieces of d one after the other are w; piece i has start[i] words    *)
(* before it.                                                               *)
Pieces(d, w, start) ==
  /\ start \in [1..(Len(d) + 1) -> Nat]
  /\ start[1] = 0 /\ start[Len(d) + 1] = Len(w)
  /\ \A i \in DOMAIN d : start[i + 1] = start[i] + Len(d[i])
  /\ \A i, j \in DOMAIN d : i < j => start[i] + Len(d[i]) <= start[j]
  /\ \A i \in DOMAIN d : start[i] + Len(d[i]) <= Len(w)
  /\ \A i \in DOMAIN d : \A q \in 1..Len(d[i]) : w[start[i] + q] = d[i][q]
  /\ \A n \in 1..Len(w) : \E i \in DOMAIN d : \E q \in 1..Len(d[i]) : n = start[i] + q

StartOf(d) == CHOOSE start : Pieces(d, FlattenSeq(d), start)

LEMMA Flattened ==
  ASSUME NEW S, NEW d \in Seq(Seq(S))
  PROVE  FlattenSeq(d) \in Seq(S) /\ Pieces(d, FlattenSeq(d), StartOf(d))
<1>. DEFINE w == FlattenSeq(d)
            f == Flat(d)
<1>1. Len(d) \in Nat /\ DOMAIN d = 1..Len(d) /\ \A i \in 1..Len(d) : d[i] \in Seq(S) /\ Len(d[i]) \in Nat
  OBVIOUS
<1>2. CASE Len(d) = 0
  <2>1. w = d
    BY <1>2 DEF FlattenSeq
  <2>2. d = <<>> /\ DOMAIN d = {}
    BY <1>2
  <2>3. Pieces(d, w, [i \in 1..1 |-> 0])
    BY <1>2, <2>1, <2>2 DEF Pieces
  <2>. QED BY <2>1, <2>2, <2>3 DEF StartOf
<1>3. CASE Len(d) # 0
  <2>1. w = f[Len(d)] /\ Len(d) \in 1..Len(d)
    BY <1>1, <1>3 DEF FlattenSeq, Flat, Flats, FlatTo
  <2>2. PlacedTo(d, S, Len(d))
    BY AllPlaced
  <2>3. \A i \in 1..Len(d) : f[i] \in Seq(S) /\ Len(f[i]) \in Nat /\ Len(f[i]) = Before(d, i) + Len(d[i])
    BY <2>2 DEF PlacedTo
  <2>. DEFINE start == [i \in 1..(Len(d) + 1) |-> Before(d, i)]
  <2>4. start \in [1..(Len(d) + 1) -> Nat]
    <3>. SUFFICES ASSUME NEW i \in 1..(Len(d) + 1) PROVE Before(d, i) \in Nat
      OBVIOUS
    <3>1. i # 1 => i - 1 \in 1..Len(d)
      BY <1>1
    <3>. QED BY <2>3, <3>1 DEF Before
  <2>5. /\ \A i \in 1..(Len(d) + 1) : start[i] = Before(d, i)
        /\ Before(d, 1) = 0 /\ Before(d, Len(d) + 1) = Len(w)
        /\ \A i \in 1..Len(d) : Before(d, i + 1) = Before(d, i) + Len(d[i])
    <3>1. Len(d) + 1 # 1 /\ (Len(d) + 1) - 1 = Len(d)
      BY <1>1, <1>3
    <3>2. \A i \in 1..Len(d) : i + 1 # 1 /\ (i + 1) - 1 = i
      BY <1>1
    <3>. QED BY <2>1, <2>3, <3>1, <3>2 DEF Before
  <2>6. \A i \in 1..Len(d) : i \in 1..(Len(d) + 1) /\ i + 1 \in 1..(Len(d) + 1) /\ i <= Len(d)
    BY <1>1
  <2>7. \A i, j \in 1..Len(d) : i < j => start[i] + Len(d[i]) <= start[j]
    BY <2>2, <2>5, <2>6 DEF PlacedTo
  <2>8. \A i \in 1..Len(d) : start[i] + Len(d[i]) <= Len(w)
    <3>. SUFFICES ASSUME NEW i \in 1..Len(d) PROVE Before(d, i) + Len(d[i]) <= Len(w)
      BY <2>5, <2>6
    <3>1. CASE i = Len(d)
      BY <2>1, <2>3, <3>1
    <3>2. CASE i < Len(d)
      <4>1. Before(d, i) + Len(d[i]) <= Before(d, Len(d))
        BY <2>1, <2>2, <3>2 DEF PlacedTo
      <4>2. Len(w) = Before(d, Len(d)) + Len(d[Len(d)]) /\ Len(d[Len(d)]) \in Nat
        BY <1>1, <2>1, <2>3
      <4>3. Before(d, i) \in Nat /\ Before(d, Len(d)) \in Nat /\ Len(d[i]) \in Nat
        BY <1>1, <2>1, <2>4, <2>5, <2>6
      <4>. HIDE DEF w
      <4>. QED BY <4>1, <4>2, <4>3, SMTT(20)
    <3>3. Len(d) \in Nat
      BY <1>1
    <3>4. i = Len(d) \/ i < Len(d)
      BY <3>3
    <3>. QED BY <3>1, <3>2, <3>4
  <2>9. \A i \in 1..Len(d) : \A q \in 1..Len(d[i]) : w[start[i] + q] = d[i][q]
    <3>1. \A i \in 1..Len(d) : \A q \in 1..Len(d[i]) : w[Before(d, i) + q] = d[i][q]
      BY <2>1, <2>2 DEF PlacedTo
    <3>2. \A i \in 1..Len(d) : start[i] = Before(d, i)
      BY <2>5, <2>6
    <3>. HIDE DEF start, w
    <3>. QED BY <3>1, <3>2
  <2>10. \A n \in 1..Len(w) : \E i \in 1..Len(d) : \E q \in 1..Len(d[i]) : n = start[i] + q
    <3>1. \A n \in 1..Len(w) : \E i \in 1..Len(d) : \E q \in 1..Len(d[i]) : n = Before(d, i) + q
      <4>1. \A n \in 1..Len(f[Len(d)]) : \E i \in 1..Len(d) : \E q \in 1..Len(d[i]) : n = Before(d, i) + q
        BY <2>1, <2>2 DEF PlacedTo
      <4>. QED BY <2>1, <4>1
    <3>2. \A i \in 1..Len(d) : start[i] = Before(d, i)
      BY <2>5, <2>6
    <3>. HIDE DEF start, w
    <3>. QED BY <3>1, <3>2
  <2>. HIDE DEF start, w
  <2>11. start[1] = 0 /\ start[Len(d) + 1] = Len(w) /\ \A i \in DOMAIN d : start[i + 1] = start[i] + Len(d[i])
    BY <1>1, <1>3, <2>5, <2>6
  <2>12. Pieces(d, w, start)
    <3>1. DOMAIN d = 1..Len(d)
      BY <1>1
    <3>2. \A i, j \in DOMAIN d : i < j => start[i] + Len(d[i]) <= start[j]
      BY <3>1, <2>7
    <3>3. \A i \in DOMAIN d : start[i] + Len(d[i]) <= Len(w)
      BY <3>1, <2>8
    <3>4. \A i \in DOMAIN d : \A q \in 1..Len(d[i]) : w[start[i] + q] = d[i][q]
      BY <3>1, <2>9, Zenon
    <3>5. \A n \in 1..Len(w) : \E i \in DOMAIN d : \E q \in 1..Len(d[i]) : n = start[i] + q
      BY <3>1, <2>10, Zenon
    <3>. QED BY <2>4, <2>11, <3>2, <3>3, <3>4, <3>5, Zenon DEF Pieces
  <2>. QED BY <2>1, <2>3, <2>12 DEF StartOf, w
<1>. QED BY <1>2, <1>3

LEMMA WordsTyped ==
  ASSUME NEW d \in Seq(Seq(STRING))
  PROVE  Item!FlattenSeq(d) = FlattenSeq(d) /\ FlattenSeq(d) \in Seq(STRING)
<1>1. Item!FlattenSeq(d) = FlattenSeq(d)
  BY DEF Item!FlattenSeq, FlattenSeq
<1>. QED BY <1>1, Flattened

LEMMA ItemStep == Item!TypeOK /\ Item!Next => Item!TypeOK'
<1>. SUFFICES ASSUME Item!TypeOK, Item!Next PROVE Item!TypeOK'
  OBVIOUS
<1>1. decl' = decl /\ Item!Words' = Item!Words
  BY DEF Item!Next, Item!ReadPicture, Item!ReadUsage, Item!ReadDepending, Item!ReadOccurs,
         Item!ReadRedefines, Item!ReadSign, Item!PassOver, Item!Terminated, Item!vars, Item!Words
<1>2. Item!Words \in Seq(STRING)
  BY DeclarationsTyped, WordsTyped DEF Item!TypeOK, Item!Words, Item!DeclarationsTyped
<1>3. PICK w \in Seq(STRING) : w = Item!Words
  BY <1>2
<1>4. /\ decl \in Declarations /\ at \in 1..(Len(w) + 1) /\ usage \in Usages
      /\ {pic, occurs, redefines} \subseteq Item!ToSet(w) \cup {None}
  BY <1>3 DEF Item!TypeOK, Usages
<1>5. \A k \in 1..Len(w) : w[k] \in Item!ToSet(w)
  BY DEF Item!ToSet
<1>6. Len(w) \in Nat
  OBVIOUS
<1>7. SUFFICES /\ at' \in 1..(Len(w) + 1) /\ usage' \in Usages
               /\ {pic', occurs', redefines'} \subseteq Item!ToSet(w) \cup {None}
  BY <1>1, <1>3, <1>4 DEF Item!TypeOK, Usages
<1>8. CASE Item!ReadPicture
  BY <1>3, <1>4, <1>5, <1>6, <1>8 DEF Item!ReadPicture, Item!Has, Item!More
<1>9. CASE Item!ReadUsage
  BY <1>3, <1>4, <1>6, <1>9, UsageTyped DEF Item!ReadUsage, Item!More
<1>10. CASE Item!ReadDepending
  BY <1>3, <1>4, <1>6, <1>10 DEF Item!ReadDepending, Item!IsOdo, Item!Has, Item!More
<1>11. CASE Item!ReadOccurs \/ Item!ReadRedefines
  BY <1>3, <1>4, <1>5, <1>6, <1>11 DEF Item!ReadOccurs, Item!ReadRedefines, Item!Has, Item!More
<1>12. CASE Item!ReadSign \/ Item!PassOver
  BY <1>3, <1>4, <1>6, <1>12 DEF Item!ReadSign, Item!PassOver, Item!More
<1>13. CASE Item!Terminated
  BY <1>4, <1>13 DEF Item!Terminated, Item!vars
<1>. QED BY <1>8, <1>9, <1>10, <1>11, <1>12, <1>13 DEF Item!Next

LEMMA ProgramTyped == ProgramInv => Program!TypeOK
<1>. SUFFICES ASSUME ProgramInv PROVE Program!TypeOK
  OBVIOUS
<1>1. \A k : Says(call, k) \in Program!Categories
  BY DEF Says, Program!Classify, Program!BuildField, Program!Categories
<1>2. \A k \in 1..at : Pictured(call, k) => NameAt(call, k) \in DOMAIN attrs
  BY DEF ProgramInv, MapsRead
<1>3. \A n \in DOMAIN attrs : attrs[n] \in Program!Categories
  BY <1>1 DEF ProgramInv, MapsRead
<1>4. DOMAIN meta \subseteq DOMAIN attrs
  BY <1>2 DEF ProgramInv, MapsRead
<1>5. \A i \in DOMAIN conditions : conditions[i].parent \in DOMAIN attrs
  BY <1>2 DEF ProgramInv, ParentsRead, NearestAbove
<1>6. lastParent \in DOMAIN attrs \cup {NoName}
  BY <1>2 DEF ProgramInv, ParentsRead, NearestAbove
<1>. QED BY <1>3, <1>4, <1>5, <1>6 DEF ProgramInv, Progress, ItemsRead, Program!TypeOK

(* Reading a declaration never looks past its last word, whatever clause   *)
(* is cut short; in a program the maps, the conditions and the parent to    *)
(* be name only items with a picture.                                      *)
THEOREM WithinTheText == Spec => []TypeOK
<1>. DEFINE IInv == level = "words" => Item!TypeOK
<1>1. Init => IInv
  <2>. SUFFICES ASSUME Item!Init PROVE Item!TypeOK
    BY DEF Init
  <2>1. Item!Words \in Seq(STRING)
    BY DeclarationsTyped, WordsTyped DEF Item!Init, Item!Words, Item!DeclarationsTyped
  <2>2. Len(Item!Words) \in Nat
    BY <2>1
  <2>. QED BY <2>2 DEF Item!Init, Item!TypeOK
<1>2. IInv /\ [Next]_vars => IInv'
  <2>1. CASE UNCHANGED vars
    BY <2>1 DEF vars, wordVars, Item!TypeOK, Item!Words
  <2>2. CASE level = "words" /\ Item!Next /\ level' = level
    BY <2>2, ItemStep
  <2>3. CASE level # "words" /\ level' = level
    BY <2>3
  <2>. QED BY <2>1, <2>2, <2>3 DEF Next
<1>3. IInv /\ (level = "lines" => ProgramInv) => TypeOK
  BY ProgramTyped DEF TypeOK
<1>. QED BY <1>1, <1>2, <1>3, ProgramRead, PTL DEF Spec

-----------------------------------------------------------------------------
LEMMA WithinPiece ==
  ASSUME NEW x \in Nat, NEW a \in Nat, NEW b \in Nat, x + a <= b, NEW q \in 1..a
  PROVE  x + q \in 1..b
OBVIOUS

LEMMA SumIsNat ==
  ASSUME NEW a \in Nat, NEW b \in Nat
  PROVE  a + b \in Nat
OBVIOUS

(* A word is in one piece and has one place there.                          *)
LEMMA OnePlace ==
  ASSUME NEW S, NEW d \in Seq(Seq(S)), NEW w, NEW s, Pieces(d, w, s),
         NEW k \in DOMAIN d, NEW j \in DOMAIN d,
         NEW q \in 1..Len(d[k]), NEW r \in 1..Len(d[j]), s[k] + q = s[j] + r
  PROVE  j = k /\ r = q
<1>1. /\ DOMAIN d = 1..Len(d) /\ Len(d) \in Nat
      /\ Len(d[k]) \in Nat /\ Len(d[j]) \in Nat
  OBVIOUS
<1>2. s[k] \in Nat /\ s[j] \in Nat
  BY <1>1 DEF Pieces
<1>3. /\ k < j => s[k] + Len(d[k]) <= s[j]
      /\ j < k => s[j] + Len(d[j]) <= s[k]
  BY DEF Pieces
<1>4. ~(k < j) /\ ~(j < k)
  <2>. DEFINE x == s[k]
              y == s[j]
              a == Len(d[k])
              b == Len(d[j])
  <2>1. x \in Nat /\ y \in Nat /\ a \in Nat /\ b \in Nat /\ q \in 1..a /\ r \in 1..b /\ x + q = y + r
    BY <1>1, <1>2
  <2>2. (k < j => x + a <= y) /\ (j < k => y + b <= x)
    BY <1>3
  <2>. HIDE DEF x, y, a, b
  <2>. QED BY <2>1, <2>2
<1>5. k = j
  BY <1>1, <1>4
<1>. QED BY <1>2, <1>5

(* After word q of piece k comes the next one of that piece, the first of   *)
(* the next, or the end.                                                    *)
LEMMA NextPlace ==
  ASSUME NEW S, NEW d \in Seq(Seq(S)), NEW w, NEW s, Pieces(d, w, s),
         NEW k \in DOMAIN d, NEW q \in 1..Len(d[k])
  PROVE  /\ s[k] + q \in 1..Len(w) /\ w[s[k] + q] = d[k][q]
         /\ q = Len(d[k]) =>
              \/ k = Len(d) /\ s[k] + q = Len(w)
              \/ k + 1 \in DOMAIN d /\ s[k] + q = s[k + 1]
<1>1. DOMAIN d = 1..Len(d) /\ Len(d) \in Nat /\ Len(d[k]) \in Nat
  OBVIOUS
<1>2. s[k] \in Nat /\ s[k] + Len(d[k]) <= Len(w) /\ s[k + 1] = s[k] + Len(d[k])
      /\ s[Len(d) + 1] = Len(w)
  BY <1>1 DEF Pieces
<1>3. s[Len(d) + 1] \in Nat
  BY <1>1 DEF Pieces
<1>4. k = Len(d) \/ k + 1 \in DOMAIN d
  BY <1>1
<1>5. w[s[k] + q] = d[k][q]
  BY DEF Pieces
<1>6. s[k] + q \in 1..Len(w)
  <2>1. s[k] \in Nat /\ Len(d[k]) \in Nat /\ Len(w) \in Nat /\ s[k] + Len(d[k]) <= Len(w)
    BY <1>1, <1>2, <1>3
  <2>. QED BY <2>1, WithinPiece
<1>7. ASSUME q = Len(d[k])
      PROVE  \/ k = Len(d) /\ s[k] + q = Len(w)
             \/ k + 1 \in DOMAIN d /\ s[k] + q = s[k + 1]
  BY <1>2, <1>4, <1>7
<1>. QED BY <1>5, <1>6, <1>7

(* What has been read before word n of the pieces K, whose word e[k] says   *)
(* v[k]: what one of them says, or nothing yet.                             *)
ReadOff(x, none, s, K, e, v, n) ==
  IF \E k \in K : s[k] + e[k] < n THEN \E k \in K : s[k] + e[k] < n /\ x = v[k] ELSE x = none

LEMMA OneMoreRead ==
  ASSUME NEW S, NEW d \in Seq(Seq(S)), NEW w, NEW s, Pieces(d, w, s),
         NEW K \in SUBSET DOMAIN d, NEW e, NEW v, \A j \in K : e[j] \in 1..Len(d[j]),
         NEW k \in DOMAIN d, NEW q \in 1..Len(d[k]), NEW m \in Nat \ {0}, q + m <= Len(d[k]) + 1,
         NEW x, NEW y, NEW none, ReadOff(x, none, s, K, e, v, s[k] + q),
         IF k \in K /\ e[k] \in q..(q + m - 1) THEN y = v[k] ELSE y = x
  PROVE  ReadOff(y, none, s, K, e, v, s[k] + q + m)
<1>1. /\ \A j \in DOMAIN d : s[j] \in Nat /\ Len(d[j]) \in Nat
      /\ \A j \in K : e[j] \in Nat
  <2>1. DOMAIN d = 1..Len(d) /\ Len(d) \in Nat /\ \A j \in DOMAIN d : Len(d[j]) \in Nat
    OBVIOUS
  <2>2. \A j \in DOMAIN d : s[j] \in Nat
    BY <2>1 DEF Pieces
  <2>3. \A j \in K : e[j] \in Nat
    <3>1. \A a : \A b \in 1..a : b \in Nat
      OBVIOUS
    <3>. QED BY <3>1
  <2>. QED BY <2>1, <2>2, <2>3
<1>2. q \in Nat /\ s[k] \in Nat /\ Len(d[k]) \in Nat
  BY <1>1
<1>3. ASSUME NEW j \in K, s[j] + e[j] < s[k] + q + m, ~(s[j] + e[j] < s[k] + q)
      PROVE  j = k /\ e[k] \in q..(q + m - 1)
  <2>. DEFINE r == s[j] + e[j] - s[k]
  <2>1. s[j] \in Nat /\ e[j] \in Nat
    BY <1>1
  <2>2. r \in q..(q + m - 1) /\ r \in 1..Len(d[k]) /\ s[k] + r = s[j] + e[j]
    <3>1. /\ s[k] \in Nat /\ Len(d[k]) \in Nat /\ s[j] \in Nat /\ e[j] \in Nat
          /\ q \in 1..Len(d[k]) /\ m \in Nat /\ q + m <= Len(d[k]) + 1
          /\ s[j] + e[j] < s[k] + q + m /\ ~(s[j] + e[j] < s[k] + q)
      BY <1>2, <1>3, <2>1
    <3>. DEFINE sk == s[k]
                ek == Len(d[k])
                sj == s[j]
                ej == e[j]
    <3>2. /\ sk \in Nat /\ ek \in Nat /\ sj \in Nat /\ ej \in Nat
          /\ q \in 1..ek /\ m \in Nat /\ q + m <= ek + 1
          /\ sj + ej < sk + q + m /\ ~(sj + ej < sk + q)
      BY <3>1
    <3>. HIDE DEF sk, ek, sj, ej
    <3>3. sj + ej - sk \in q..(q + m - 1)
      BY <3>2
    <3>4. sj + ej - sk \in 1..ek
      BY <3>2
    <3>5. sk + (sj + ej - sk) = sj + ej
      BY <3>2
    <3>6. r = sj + ej - sk
      BY DEF sk, sj, ej
    <3>. HIDE DEF r
    <3>. QED BY <3>3, <3>4, <3>5, <3>6 DEF sk, ek, sj, ej
  <2>. HIDE DEF r
  <2>3. j = k /\ e[j] = r
    BY <2>2, OnePlace, SMTT(20)
  <2>. QED BY <2>2, <2>3
<1>4. CASE k \in K /\ e[k] \in q..(q + m - 1)
  <2>1. s[k] + e[k] < s[k] + q + m
    BY <1>1, <1>2, <1>4, SMTT(20)
  <2>. QED BY <1>4, <2>1 DEF ReadOff
<1>5. CASE ~(k \in K /\ e[k] \in q..(q + m - 1))
  <2>1. \A j \in K : s[j] + e[j] < s[k] + q + m => s[j] + e[j] < s[k] + q
    BY <1>3, <1>5
  <2>2. \A j \in K : s[j] + e[j] < s[k] + q => s[j] + e[j] < s[k] + q + m
    <3>. SUFFICES ASSUME NEW j \in K, s[j] + e[j] < s[k] + q
                  PROVE  s[j] + e[j] < s[k] + q + m
      OBVIOUS
    <3>1. s[j] \in Nat /\ e[j] \in Nat
      BY <1>1
    <3>2. s[j] + e[j] \in Nat
      BY <3>1, SumIsNat
    <3>. QED BY <1>2, <3>2, SMTT(20)
  <2>3. y = x
    BY <1>5
  <2>4. ReadOff(x, none, s, K, e, v, s[k] + q) => ReadOff(x, none, s, K, e, v, s[k] + q + m)
    BY <2>1, <2>2, Zenon DEF ReadOff
  <2>. QED BY <2>3, <2>4
<1>. QED BY <1>4, <1>5

(* At the end the one piece of K was read.                                  *)
LEMMA AllRead ==
  ASSUME NEW x, NEW none, NEW s, NEW K, NEW e, NEW v, NEW n, ReadOff(x, none, s, K, e, v, n),
         \A j \in K : s[j] + e[j] < n, \A i, j \in K : i = j
  PROVE  /\ \A j \in K : x = v[j]
         /\ K = {} => x = none
BY DEF ReadOff

-----------------------------------------------------------------------------
ClauseKind(c) ==
  \/ Item!IsPicture(c) \/ Item!IsRedefines(c) \/ Item!IsUsage(c) \/ Item!IsTable(c)
  \/ Item!IsDepending(c) \/ Item!IsSign(c) \/ Item!IsOther(c)

Pictures(d) == {k \in DOMAIN d : Item!IsPicture(d[k])}
Redefinitions(d) == {k \in DOMAIN d : Item!IsRedefines(d[k])}
UsageClauses(d) == {k \in DOMAIN d : Item!IsUsage(d[k])}
FixedTables(d) == {k \in DOMAIN d : Item!IsTable(d[k])}
VariableTables(d) == {k \in DOMAIN d : Item!IsDepending(d[k])}

AtMostOne(K) == \A i, j \in K : i = j

(* A declaration of clauses that are understood.                            *)
Formed(d) ==
  /\ \A k \in DOMAIN d : Len(d[k]) >= 1 /\ ClauseKind(d[k])
  /\ AtMostOne(Pictures(d)) /\ AtMostOne(Redefinitions(d)) /\ AtMostOne(UsageClauses(d))
  /\ AtMostOne(FixedTables(d)) /\ AtMostOne(VariableTables(d))

(* The words of a clause at which reading may stand: not one that the word  *)
(* before it takes.                                                         *)
Free(c, q) ==
  \/ q = 1
  \/ Item!IsTable(c) /\ q >= 3
  \/ Item!IsDepending(c) /\ q >= 5
  \/ Item!IsUsage(c) \/ Item!IsSign(c) \/ Item!IsOther(c)

UsageWords == DOMAIN Item!UsageOf

LEMMA TheUsageWords ==
  UsageWords = {"COMP-3", "PACKED-DECIMAL", "COMPUTATIONAL-3", "COMP", "BINARY", "COMPUTATIONAL",
                "COMP-6", "COMPUTATIONAL-6", "COMP-5", "COMP-X", "DISPLAY"}
BY DEF UsageWords, Item!UsageOf

(* No word of a clause is taken for another's keyword.                      *)
LEMMA KindsApart ==
  ASSUME NEW c \in Seq(STRING), Len(c) >= 1
  PROVE  /\ Item!IsPicture(c) => /\ ~Item!IsRedefines(c) /\ ~Item!IsUsage(c) /\ ~Item!IsTable(c)
                                 /\ ~Item!IsDepending(c) /\ ~Item!IsSign(c) /\ ~Item!IsOther(c)
         /\ Item!IsRedefines(c) => /\ ~Item!IsUsage(c) /\ ~Item!IsTable(c)
                                   /\ ~Item!IsDepending(c) /\ ~Item!IsSign(c) /\ ~Item!IsOther(c)
         /\ Item!IsUsage(c) => /\ ~Item!IsTable(c) /\ ~Item!IsDepending(c) /\ ~Item!IsSign(c)
                               /\ ~Item!IsOther(c)
         /\ Item!IsTable(c) => ~Item!IsDepending(c) /\ ~Item!IsSign(c) /\ ~Item!IsOther(c)
         /\ Item!IsDepending(c) => ~Item!IsSign(c) /\ ~Item!IsOther(c)
<1>1. Len(c) \in Nat /\ 1 \in 1..Len(c) /\ Len(c) \in 1..Len(c) /\ Item!Last(c) = c[Len(c)]
  BY DEF Item!Last
<1>2. \A n \in 1..Len(c) : c[n] \in Item!ToSet(c)
  BY DEF Item!ToSet
<1>3. Item!IsUsage(c) => c[1] \in UsageWords \cup {"USAGE", "IS"}
  <2>1. CASE Len(c) = 1
    BY <1>1, <2>1 DEF Item!IsUsage, UsageWords
  <2>2. CASE Len(c) # 1
    <3>0. Len(c) \in Nat /\ Len(c) >= 1
      BY <1>1
    <3>2. \A n \in Nat : n >= 1 /\ n # 1 => 1 \in 1..(n - 1)
      OBVIOUS
    <3>1. 1 \in 1..(Len(c) - 1)
      BY <2>2, <3>0, <3>2
    <3>. QED BY <3>1 DEF Item!IsUsage
  <2>. QED BY <2>1, <2>2
<1>4. Item!IsUsage(c) => c[Len(c)] \in UsageWords
  BY <1>1 DEF Item!IsUsage, UsageWords
<1>5. Item!IsSign(c) => /\ c[1] \in {"SIGN", "IS", "LEADING", "TRAILING", "SEPARATE", "CHARACTER"}
                        /\ c[Len(c)] \in {"SIGN", "IS", "LEADING", "TRAILING", "SEPARATE", "CHARACTER"}
  BY <1>1, <1>2 DEF Item!IsSign
<1>6. Item!IsOther(c) => c[1] \notin Item!Keywords /\ c[Len(c)] \notin Item!Keywords
  BY <1>1 DEF Item!IsOther, Item!NoKeyword
<1>7. Item!Keywords = UsageWords \cup {"PIC", "PICTURE", "OCCURS", "REDEFINES", "SEPARATE", "LEADING"}
  BY DEF Item!Keywords, UsageWords
<1>8. Item!IsTable(c) => c[1] = "OCCURS" /\ (Len(c) >= 3 => c[3] # "TO")
  BY DEF Item!IsTable
<1>9. Item!IsDepending(c) => c[1] = "OCCURS" /\ Len(c) >= 7 /\ c[3] = "TO"
  BY DEF Item!IsDepending
<1>10. Item!IsPicture(c) => c[1] \in {"PIC", "PICTURE"}
  BY DEF Item!IsPicture
<1>11. Item!IsRedefines(c) => c[1] = "REDEFINES"
  BY DEF Item!IsRedefines
<1>12. ~(Item!IsTable(c) /\ Item!IsDepending(c))
  BY <1>1, <1>8, <1>9
<1>. QED BY <1>3, <1>4, <1>5, <1>6, <1>7, <1>8, <1>9, <1>10, <1>11, <1>12, TheUsageWords

(* A keyword at which reading stands is that of its own clause.             *)
LEMMA KeywordsOwn ==
  ASSUME NEW c \in Seq(STRING), Len(c) >= 1, ClauseKind(c), NEW q \in 1..Len(c), Free(c, q)
  PROVE  /\ c[q] \in {"PIC", "PICTURE"} <=> Item!IsPicture(c)
         /\ c[q] = "REDEFINES" <=> Item!IsRedefines(c)
         /\ c[q] \in UsageWords <=> Item!IsUsage(c) /\ q = Len(c)
         /\ c[q] = "OCCURS" <=> (Item!IsTable(c) \/ Item!IsDepending(c)) /\ q = 1
         /\ c[q] \in {"SEPARATE", "LEADING"} => Item!IsSign(c)
         /\ Item!IsPicture(c) \/ Item!IsRedefines(c) => q = 1 /\ Len(c) = 2
<1>. DEFINE u == c[q]
<1>1. Len(c) \in Nat /\ q \in Nat /\ q <= Len(c) /\ 1 <= q
  OBVIOUS
<1>2. u \in Item!ToSet(c)
  BY DEF Item!ToSet
<1>3. Item!Keywords = UsageWords \cup {"PIC", "PICTURE", "OCCURS", "REDEFINES", "SEPARATE", "LEADING"}
  BY DEF Item!Keywords, UsageWords
<1>4. CASE Item!IsPicture(c)
  <2>1. q = 1
    BY <1>4, KindsApart DEF Free
  <2>2. u \in {"PIC", "PICTURE"} /\ Len(c) = 2
    BY <1>4, <2>1 DEF Item!IsPicture
  <2>. QED BY <1>4, <2>1, <2>2, KindsApart, TheUsageWords
<1>5. CASE Item!IsRedefines(c)
  <2>1. q = 1
    BY <1>5, KindsApart DEF Free
  <2>2. u = "REDEFINES" /\ Len(c) = 2
    BY <1>5, <2>1 DEF Item!IsRedefines
  <2>. QED BY <1>5, <2>1, <2>2, KindsApart, TheUsageWords
<1>6. CASE Item!IsUsage(c)
  <2>1. CASE q = Len(c)
    <3>1. u \in UsageWords
      BY <1>1, <1>6, <2>1 DEF Item!IsUsage, UsageWords, Item!Last
    <3>. QED BY <1>6, <2>1, <3>1, KindsApart, TheUsageWords
  <2>2. CASE q # Len(c)
    <3>1. q \in 1..(Len(c) - 1)
      BY <1>1, <2>2
    <3>2. u \in {"USAGE", "IS"}
      BY <1>6, <3>1 DEF Item!IsUsage
    <3>. QED BY <1>6, <2>2, <3>2, KindsApart, TheUsageWords
  <2>. QED BY <2>1, <2>2
<1>7. CASE Item!IsTable(c)
  <2>1. q = 1 \/ q >= 3
    BY <1>7, KindsApart DEF Free
  <2>2. q = 1 => u = "OCCURS"
    BY <1>7 DEF Item!IsTable
  <2>3. q >= 3 => u \notin Item!Keywords
    BY <1>1, <1>7 DEF Item!IsTable, Item!NoKeyword
  <2>. QED BY <1>3, <1>7, <2>1, <2>2, <2>3, KindsApart, TheUsageWords
<1>8. CASE Item!IsDepending(c)
  <2>1. q = 1 \/ q >= 5
    BY <1>8, KindsApart DEF Free
  <2>2. q = 1 => u = "OCCURS"
    BY <1>8 DEF Item!IsDepending
  <2>3. q >= 5 => u \notin Item!Keywords
    BY <1>1, <1>8 DEF Item!IsDepending, Item!NoKeyword
  <2>. QED BY <1>3, <1>8, <2>1, <2>2, <2>3, KindsApart, TheUsageWords
<1>9. CASE Item!IsSign(c)
  <2>1. u \in {"SIGN", "IS", "LEADING", "TRAILING", "SEPARATE", "CHARACTER"}
    BY <1>2, <1>9 DEF Item!IsSign
  <2>. QED BY <1>9, <2>1, KindsApart, TheUsageWords
<1>10. CASE Item!IsOther(c)
  <2>1. u \notin Item!Keywords
    BY <1>1, <1>10 DEF Item!IsOther, Item!NoKeyword
  <2>. QED BY <1>3, <1>10, <2>1, KindsApart
<1>. QED BY <1>4, <1>5, <1>6, <1>7, <1>8, <1>9, <1>10 DEF ClauseKind

(* No clause begins with the word that makes a table's size a range.        *)
LEMMA NoneStartsTo ==
  ASSUME NEW c \in Seq(STRING), Len(c) >= 1, ClauseKind(c)
  PROVE  c[1] # "TO"
<1>1. 1 \in 1..Len(c) /\ Len(c) \in Nat /\ Len(c) \in 1..Len(c)
  OBVIOUS
<1>2. CASE Item!IsUsage(c)
  <2>1. CASE Len(c) = 1
    BY <1>2, <2>1, TheUsageWords DEF Item!IsUsage, Item!Last, UsageWords
  <2>2. CASE Len(c) # 1
    <3>1. \A n \in Nat : n >= 1 /\ n # 1 => 1 \in 1..(n - 1)
      OBVIOUS
    <3>2. 1 \in 1..(Len(c) - 1)
      BY <1>1, <2>2, <3>1
    <3>. QED BY <1>2, <3>2 DEF Item!IsUsage
  <2>. QED BY <2>1, <2>2
<1>3. CASE Item!IsSign(c)
  BY <1>1, <1>3, SMTT(20) DEF Item!IsSign, Item!ToSet
<1>4. CASE Item!IsPicture(c) \/ Item!IsRedefines(c) \/ Item!IsTable(c) \/ Item!IsDepending(c)
  BY <1>4 DEF Item!IsPicture, Item!IsRedefines, Item!IsTable, Item!IsDepending
<1>5. CASE Item!IsOther(c)
  BY <1>5 DEF Item!IsOther
<1>. QED BY <1>2, <1>3, <1>4, <1>5 DEF ClauseKind

-----------------------------------------------------------------------------
(* Reading stands behind the last word or at a word that no word before it  *)
(* takes.                                                                   *)
Standing(d, s, n) ==
  \/ n = Len(FlattenSeq(d)) + 1
  \/ \E k \in DOMAIN d : \E q \in 1..Len(d[k]) : n = s[k] + q /\ Free(d[k], q)

(* Which word of a clause is the one read for it, and what is read.         *)
FirstOf(d) == [k \in DOMAIN d |-> 1]
LastOf(d) == [k \in DOMAIN d |-> Len(d[k])]
SecondOf(d) == [k \in DOMAIN d |-> d[k][2]]
UseOf(d) == [k \in DOMAIN d |-> Item!UsageOf[Item!Last(d[k])]]
TableOf(d) == [k \in DOMAIN d |-> [min |-> d[k][2], max |-> d[k][4], on |-> Item!Last(d[k])]]

(* x says whether the word of a sign clause was read before word n.         *)
SignRead(x, word, d, s, n) ==
  /\ x \in BOOLEAN
  /\ x <=> \E k \in DOMAIN d : \E q \in 1..Len(d[k]) :
             s[k] + q < n /\ Item!IsSign(d[k]) /\ d[k][q] = word

(* The clauses before the next word are read, each as it says.              *)
ReadTo(d, s) ==
  /\ Standing(d, s, at)
  /\ ReadOff(pic, None, s, Pictures(d), FirstOf(d), SecondOf(d), at)
  /\ ReadOff(redefines, None, s, Redefinitions(d), FirstOf(d), SecondOf(d), at)
  /\ ReadOff(usage, "DISPLAY", s, UsageClauses(d), LastOf(d), UseOf(d), at)
  /\ ReadOff(occurs, None, s, FixedTables(d), FirstOf(d), SecondOf(d), at)
  /\ ReadOff(odo, None, s, VariableTables(d), FirstOf(d), TableOf(d), at)
  /\ SignRead(separate, "SEPARATE", d, s, at)
  /\ SignRead(leading, "LEADING", d, s, at)

(* Reading m words from word q of clause k makes y of x: what the clause    *)
(* says, when it is one of K and its word e[k] is read.                     *)
Takes(x, y, K, e, v, k, q, m) ==
  IF k \in K /\ e[k] \in q..(q + m - 1) THEN y = v[k] ELSE y = x

TakesSign(x, y, word, d, k, q, m) ==
  /\ y \in BOOLEAN
  /\ IF Item!IsSign(d[k]) THEN m = 1 /\ (y <=> x \/ d[k][q] = word) ELSE y = x

LEMMA OneMoreSign ==
  ASSUME NEW S, NEW d \in Seq(Seq(S)), NEW w, NEW s, Pieces(d, w, s),
         NEW k \in DOMAIN d, NEW q \in 1..Len(d[k]), NEW m \in Nat \ {0}, q + m <= Len(d[k]) + 1,
         NEW x, NEW y, NEW word, SignRead(x, word, d, s, s[k] + q), TakesSign(x, y, word, d, k, q, m)
  PROVE  SignRead(y, word, d, s, s[k] + q + m)
<1>1. /\ \A j \in DOMAIN d : s[j] \in Nat /\ Len(d[j]) \in Nat
      /\ q \in Nat
  <2>1. DOMAIN d = 1..Len(d) /\ Len(d) \in Nat /\ \A j \in DOMAIN d : Len(d[j]) \in Nat
    OBVIOUS
  <2>2. \A j \in DOMAIN d : s[j] \in Nat
    BY <2>1 DEF Pieces
  <2>. QED BY <2>1, <2>2
<1>2. ASSUME NEW j \in DOMAIN d, NEW r \in 1..Len(d[j]), s[j] + r < s[k] + q + m, ~(s[j] + r < s[k] + q)
      PROVE  j = k /\ r \in q..(q + m - 1)
  <2>. DEFINE sk == s[k]
              ek == Len(d[k])
              sj == s[j]
              t == sj + r - sk
  <2>1. /\ sk \in Nat /\ ek \in Nat /\ sj \in Nat /\ r \in Nat
        /\ q \in 1..ek /\ m \in Nat /\ q + m <= ek + 1
        /\ sj + r < sk + q + m /\ ~(sj + r < sk + q)
    BY <1>1, <1>2
  <2>. HIDE DEF sk, ek, sj
  <2>2. t \in q..(q + m - 1)
    BY <2>1
  <2>3. t \in 1..ek
    BY <2>1
  <2>4. sk + t = sj + r
    BY <2>1
  <2>. HIDE DEF t
  <2>5. s[k] + t = s[j] + r /\ t \in 1..Len(d[k])
    BY <2>3, <2>4 DEF sk, sj, ek
  <2>6. j = k /\ r = t
    BY <2>5, OnePlace
  <2>. QED BY <2>2, <2>6
<1>3. ASSUME NEW j \in DOMAIN d, NEW r \in 1..Len(d[j]), s[j] + r < s[k] + q
      PROVE  s[j] + r < s[k] + q + m
  <2>1. r \in Nat /\ s[j] \in Nat /\ s[k] \in Nat
    BY <1>1
  <2>2. s[j] + r \in Nat /\ s[k] + q \in Nat
    BY <1>1, <2>1, SumIsNat
  <2>. QED BY <1>3, <2>2, SMTT(20)
<1>4. CASE Item!IsSign(d[k])
  <2>1. m = 1 /\ y \in BOOLEAN /\ (y <=> x \/ d[k][q] = word)
    BY <1>4 DEF TakesSign
  <2>2. \A j \in DOMAIN d : \A r \in 1..Len(d[j]) :
          s[j] + r < s[k] + q + m <=> s[j] + r < s[k] + q \/ (j = k /\ r = q)
    <3>. SUFFICES ASSUME NEW j \in DOMAIN d, NEW r \in 1..Len(d[j])
                  PROVE  s[j] + r < s[k] + q + m <=> s[j] + r < s[k] + q \/ (j = k /\ r = q)
      OBVIOUS
    <3>1. s[k] + q < s[k] + q + m
      <4>1. s[k] + q \in Nat
        BY <1>1, SumIsNat
      <4>. QED BY <2>1, <4>1
    <3>2. \A t \in q..(q + m - 1) : t = q
      BY <1>1, <2>1
    <3>. QED BY <1>2, <1>3, <3>1, <3>2
  <2>. QED BY <1>4, <2>1, <2>2 DEF SignRead
<1>5. CASE ~Item!IsSign(d[k])
  <2>1. y = x /\ y \in BOOLEAN
    BY <1>5 DEF TakesSign
  <2>2. \A j \in DOMAIN d : \A r \in 1..Len(d[j]) :
          Item!IsSign(d[j]) => (s[j] + r < s[k] + q + m <=> s[j] + r < s[k] + q)
    BY <1>2, <1>3, <1>5
  <2>. QED BY <2>1, <2>2 DEF SignRead
<1>. QED BY <1>4, <1>5

(* Reading m words of clause k at once, and of each kind what it takes.     *)
TakesAll(d, k, q, m) ==
  /\ Takes(pic, pic', Pictures(d), FirstOf(d), SecondOf(d), k, q, m)
  /\ Takes(redefines, redefines', Redefinitions(d), FirstOf(d), SecondOf(d), k, q, m)
  /\ Takes(usage, usage', UsageClauses(d), LastOf(d), UseOf(d), k, q, m)
  /\ Takes(occurs, occurs', FixedTables(d), FirstOf(d), SecondOf(d), k, q, m)
  /\ Takes(odo, odo', VariableTables(d), FirstOf(d), TableOf(d), k, q, m)
  /\ TakesSign(separate, separate', "SEPARATE", d, k, q, m)
  /\ TakesSign(leading, leading', "LEADING", d, k, q, m)

LEMMA StandsNext ==
  ASSUME NEW d \in Seq(Seq(STRING)), NEW s, Pieces(d, FlattenSeq(d), s), Formed(d),
         NEW k \in DOMAIN d, NEW q \in 1..Len(d[k]), NEW m \in Nat \ {0}, q + m <= Len(d[k]) + 1,
         q + m <= Len(d[k]) => Free(d[k], q + m)
  PROVE  Standing(d, s, s[k] + q + m)
<1>1. /\ DOMAIN d = 1..Len(d) /\ Len(d) \in Nat /\ Len(d[k]) \in Nat
      /\ s[k] \in Nat /\ q \in Nat
  BY SMTT(20) DEF Pieces
<1>2. (s[k] + q) + m = s[k] + (q + m)
  BY <1>1
<1>3. CASE q + m <= Len(d[k])
  <2>1. q + m \in 1..Len(d[k])
    BY <1>1, <1>3
  <2>. QED BY <1>2, <1>3, <2>1 DEF Standing
<1>4. CASE ~(q + m <= Len(d[k]))
  <2>1. q + m = Len(d[k]) + 1 /\ Len(d[k]) \in 1..Len(d[k])
    BY <1>1, <1>4
  <2>2. \/ s[k] + Len(d[k]) = Len(FlattenSeq(d))
        \/ k + 1 \in DOMAIN d /\ s[k] + Len(d[k]) = s[k + 1]
    BY <2>1, NextPlace
  <2>3. s[k] + (q + m) = s[k] + Len(d[k]) + 1
    <3>1. s[k] + (q + m) = s[k] + (Len(d[k]) + 1)
      BY <2>1
    <3>. QED BY <1>1, <3>1
  <2>4. k + 1 \in DOMAIN d => 1 \in 1..Len(d[k + 1]) /\ Free(d[k + 1], 1)
    BY DEF Formed, Free
  <2>. QED BY <1>2, <2>2, <2>3, <2>4 DEF Standing
<1>. QED BY <1>3, <1>4

LEMMA MoveOn ==
  ASSUME NEW d \in Seq(Seq(STRING)), NEW s, Pieces(d, FlattenSeq(d), s), Formed(d), ReadTo(d, s),
         NEW k \in DOMAIN d, NEW q \in 1..Len(d[k]), NEW m \in Nat \ {0}, q + m <= Len(d[k]) + 1,
         q + m <= Len(d[k]) => Free(d[k], q + m),
         at = s[k] + q, at' = at + m, TakesAll(d, k, q, m)
  PROVE  ReadTo(d, s)'
<1>. DEFINE w == FlattenSeq(d)
            next == s[k] + q + m
<1>1. /\ Pictures(d) \in SUBSET DOMAIN d /\ Redefinitions(d) \in SUBSET DOMAIN d
      /\ UsageClauses(d) \in SUBSET DOMAIN d /\ FixedTables(d) \in SUBSET DOMAIN d
      /\ VariableTables(d) \in SUBSET DOMAIN d
  BY DEF Pictures, Redefinitions, UsageClauses, FixedTables, VariableTables
<1>2. \A j \in DOMAIN d : FirstOf(d)[j] \in 1..Len(d[j]) /\ LastOf(d)[j] \in 1..Len(d[j])
  BY DEF Formed, FirstOf, LastOf
<1>3. Standing(d, s, next)
  BY StandsNext
<1>4. ReadOff(pic', None, s, Pictures(d), FirstOf(d), SecondOf(d), next)
  <2>1. /\ ReadOff(pic, None, s, Pictures(d), FirstOf(d), SecondOf(d), s[k] + q)
        /\ IF k \in Pictures(d) /\ FirstOf(d)[k] \in q..(q + m - 1)
           THEN pic' = SecondOf(d)[k] ELSE pic' = pic
        /\ \A j \in Pictures(d) : FirstOf(d)[j] \in 1..Len(d[j])
    BY <1>1, <1>2 DEF ReadTo, TakesAll, Takes
  <2>. QED BY <1>1, <2>1, OneMoreRead
<1>5. ReadOff(redefines', None, s, Redefinitions(d), FirstOf(d), SecondOf(d), next)
  <2>1. /\ ReadOff(redefines, None, s, Redefinitions(d), FirstOf(d), SecondOf(d), s[k] + q)
        /\ IF k \in Redefinitions(d) /\ FirstOf(d)[k] \in q..(q + m - 1)
           THEN redefines' = SecondOf(d)[k] ELSE redefines' = redefines
        /\ \A j \in Redefinitions(d) : FirstOf(d)[j] \in 1..Len(d[j])
    BY <1>1, <1>2 DEF ReadTo, TakesAll, Takes
  <2>. QED BY <1>1, <2>1, OneMoreRead
<1>6. ReadOff(usage', "DISPLAY", s, UsageClauses(d), LastOf(d), UseOf(d), next)
  <2>1. /\ ReadOff(usage, "DISPLAY", s, UsageClauses(d), LastOf(d), UseOf(d), s[k] + q)
        /\ IF k \in UsageClauses(d) /\ LastOf(d)[k] \in q..(q + m - 1)
           THEN usage' = UseOf(d)[k] ELSE usage' = usage
        /\ \A j \in UsageClauses(d) : LastOf(d)[j] \in 1..Len(d[j])
    BY <1>1, <1>2 DEF ReadTo, TakesAll, Takes
  <2>. QED BY <1>1, <2>1, OneMoreRead
<1>7. ReadOff(occurs', None, s, FixedTables(d), FirstOf(d), SecondOf(d), next)
  <2>1. /\ ReadOff(occurs, None, s, FixedTables(d), FirstOf(d), SecondOf(d), s[k] + q)
        /\ IF k \in FixedTables(d) /\ FirstOf(d)[k] \in q..(q + m - 1)
           THEN occurs' = SecondOf(d)[k] ELSE occurs' = occurs
        /\ \A j \in FixedTables(d) : FirstOf(d)[j] \in 1..Len(d[j])
    BY <1>1, <1>2 DEF ReadTo, TakesAll, Takes
  <2>. QED BY <1>1, <2>1, OneMoreRead
<1>8. ReadOff(odo', None, s, VariableTables(d), FirstOf(d), TableOf(d), next)
  <2>1. /\ ReadOff(odo, None, s, VariableTables(d), FirstOf(d), TableOf(d), s[k] + q)
        /\ IF k \in VariableTables(d) /\ FirstOf(d)[k] \in q..(q + m - 1)
           THEN odo' = TableOf(d)[k] ELSE odo' = odo
        /\ \A j \in VariableTables(d) : FirstOf(d)[j] \in 1..Len(d[j])
    BY <1>1, <1>2 DEF ReadTo, TakesAll, Takes
  <2>. QED BY <1>1, <2>1, OneMoreRead
<1>9. SignRead(separate', "SEPARATE", d, s, next)
  BY OneMoreSign DEF ReadTo, TakesAll
<1>10. SignRead(leading', "LEADING", d, s, next)
  BY OneMoreSign DEF ReadTo, TakesAll
<1>11. at' = next
  OBVIOUS
<1>. HIDE DEF next
<1>. QED BY <1>3, <1>4, <1>5, <1>6, <1>7, <1>8, <1>9, <1>10, <1>11 DEF ReadTo

(* Reading stands at word q of clause k.                                    *)
StandsAt(d, s, k, q) ==
  /\ d \in Seq(Seq(STRING)) /\ d = decl /\ Formed(d)
  /\ Pieces(d, FlattenSeq(d), s)
  /\ k \in DOMAIN d /\ q \in 1..Len(d[k]) /\ Free(d[k], q) /\ at = s[k] + q

LEMMA WordsAhead ==
  ASSUME NEW d, NEW s, NEW k, NEW q, StandsAt(d, s, k, q)
  PROVE  /\ Len(d[k]) \in Nat /\ q \in Nat /\ at \in Nat /\ d[k] \in Seq(STRING)
         /\ Len(d[k]) >= 1 /\ ClauseKind(d[k])
         /\ Item!Words = FlattenSeq(d) /\ Len(Item!Words) \in Nat
         /\ \A r \in 0..(Len(d[k]) - q) :
              at + r <= Len(Item!Words) /\ Item!Words[at + r] = d[k][q + r]
         /\ Item!Word = d[k][q] /\ at <= Len(Item!Words)
<1>1. /\ d \in Seq(Seq(STRING)) /\ k \in DOMAIN d /\ q \in 1..Len(d[k]) /\ at = s[k] + q
      /\ Pieces(d, FlattenSeq(d), s)
  BY DEF StandsAt
<1>2. /\ DOMAIN d = 1..Len(d) /\ Len(d) \in Nat /\ d[k] \in Seq(STRING) /\ Len(d[k]) \in Nat
      /\ q \in Nat
  BY <1>1
<1>3. s[k] \in Nat /\ s[Len(d) + 1] = Len(FlattenSeq(d)) /\ s[Len(d) + 1] \in Nat
  BY <1>1, <1>2, SMTT(20) DEF Pieces
<1>4. Item!Words = FlattenSeq(d) /\ Len(Item!Words) \in Nat
  BY <1>3 DEF StandsAt, Item!Words, Item!FlattenSeq, FlattenSeq
<1>5. ASSUME NEW r \in 0..(Len(d[k]) - q)
      PROVE  at + r <= Len(Item!Words) /\ Item!Words[at + r] = d[k][q + r]
  <2>1. q + r \in 1..Len(d[k]) /\ q + r \in Nat
    BY <1>1, <1>2
  <2>2. s[k] + (q + r) \in 1..Len(FlattenSeq(d)) /\ FlattenSeq(d)[s[k] + (q + r)] = d[k][q + r]
    BY <1>1, <2>1, NextPlace
  <2>3. s[k] + (q + r) = at + r
    BY <1>1, <1>2, <1>3, SMTT(20)
  <2>. QED BY <1>4, <2>2, <2>3
<1>6. at \in Nat /\ 0 \in 0..(Len(d[k]) - q) /\ at + 0 = at /\ q + 0 = q
  BY <1>1, <1>2, <1>3, SMTT(20)
<1>. QED BY <1>1, <1>2, <1>4, <1>5, <1>6 DEF StandsAt, Formed, Item!Word

(* No word is read for a kind the clause is not of, nor from one that is    *)
(* passed over.                                                             *)
LEMMA Untaken ==
  ASSUME NEW d \in Seq(Seq(STRING)), NEW k \in DOMAIN d, NEW q, NEW m, NEW x, NEW y, y = x,
         NEW v
  PROVE  /\ ~Item!IsPicture(d[k]) => Takes(x, y, Pictures(d), FirstOf(d), v, k, q, m)
         /\ ~Item!IsRedefines(d[k]) => Takes(x, y, Redefinitions(d), FirstOf(d), v, k, q, m)
         /\ ~Item!IsUsage(d[k]) => Takes(x, y, UsageClauses(d), LastOf(d), v, k, q, m)
         /\ ~Item!IsTable(d[k]) => Takes(x, y, FixedTables(d), FirstOf(d), v, k, q, m)
         /\ ~Item!IsDepending(d[k]) => Takes(x, y, VariableTables(d), FirstOf(d), v, k, q, m)
BY DEF Takes, Pictures, Redefinitions, UsageClauses, FixedTables, VariableTables

LEMMA PictureRead ==
  ASSUME NEW d, NEW s, NEW k, NEW q, StandsAt(d, s, k, q), ReadTo(d, s), Item!ReadPicture
  PROVE  ReadTo(d, s)'
<1>1. /\ d \in Seq(Seq(STRING)) /\ Pieces(d, FlattenSeq(d), s) /\ Formed(d) /\ k \in DOMAIN d
      /\ q \in 1..Len(d[k]) /\ Free(d[k], q) /\ at = s[k] + q
  BY DEF StandsAt
<1>2. Item!IsPicture(d[k]) /\ q = 1 /\ Len(d[k]) = 2
  BY <1>1, WordsAhead, KeywordsOwn, SMTT(20) DEF Item!ReadPicture
<1>3. pic' = d[k][2] /\ at' = at + 2
  <2>1. 1 \in 0..(Len(d[k]) - q) /\ q + 1 = 2
    BY <1>2
  <2>. QED BY <2>1, WordsAhead DEF Item!ReadPicture
<1>4. /\ ~Item!IsRedefines(d[k]) /\ ~Item!IsUsage(d[k]) /\ ~Item!IsTable(d[k])
      /\ ~Item!IsDepending(d[k]) /\ ~Item!IsSign(d[k])
  BY <1>2, WordsAhead, KindsApart
<1>5. TakesAll(d, k, q, 2)
  <2>1. Takes(pic, pic', Pictures(d), FirstOf(d), SecondOf(d), k, q, 2)
    BY <1>1, <1>2, <1>3 DEF Takes, Pictures, FirstOf, SecondOf
  <2>2. TakesSign(separate, separate', "SEPARATE", d, k, q, 2)
        /\ TakesSign(leading, leading', "LEADING", d, k, q, 2)
    BY <1>4 DEF TakesSign, ReadTo, SignRead, Item!ReadPicture
  <2>. QED BY <1>1, <1>4, <2>1, <2>2, Untaken DEF TakesAll, Item!ReadPicture
<1>6. 2 \in Nat \ {0} /\ q + 2 <= Len(d[k]) + 1 /\ ~(q + 2 <= Len(d[k]))
  BY <1>2
<1>. QED BY <1>1, <1>3, <1>5, <1>6, MoveOn, Zenon

LEMMA RedefinesRead ==
  ASSUME NEW d, NEW s, NEW k, NEW q, StandsAt(d, s, k, q), ReadTo(d, s), Item!ReadRedefines
  PROVE  ReadTo(d, s)'
<1>1. /\ d \in Seq(Seq(STRING)) /\ Pieces(d, FlattenSeq(d), s) /\ Formed(d) /\ k \in DOMAIN d
      /\ q \in 1..Len(d[k]) /\ Free(d[k], q) /\ at = s[k] + q
  BY DEF StandsAt
<1>2. Item!IsRedefines(d[k]) /\ q = 1 /\ Len(d[k]) = 2
  BY <1>1, WordsAhead, KeywordsOwn, SMTT(20) DEF Item!ReadRedefines
<1>3. redefines' = d[k][2] /\ at' = at + 2
  <2>1. 1 \in 0..(Len(d[k]) - q) /\ q + 1 = 2
    BY <1>2
  <2>. QED BY <2>1, WordsAhead DEF Item!ReadRedefines
<1>4. /\ ~Item!IsPicture(d[k]) /\ ~Item!IsUsage(d[k]) /\ ~Item!IsTable(d[k])
      /\ ~Item!IsDepending(d[k]) /\ ~Item!IsSign(d[k])
  BY <1>2, WordsAhead, KindsApart
<1>5. TakesAll(d, k, q, 2)
  <2>1. Takes(redefines, redefines', Redefinitions(d), FirstOf(d), SecondOf(d), k, q, 2)
    BY <1>1, <1>2, <1>3 DEF Takes, Redefinitions, FirstOf, SecondOf
  <2>2. TakesSign(separate, separate', "SEPARATE", d, k, q, 2)
        /\ TakesSign(leading, leading', "LEADING", d, k, q, 2)
    BY <1>4 DEF TakesSign, ReadTo, SignRead, Item!ReadRedefines
  <2>. QED BY <1>1, <1>4, <2>1, <2>2, Untaken DEF TakesAll, Item!ReadRedefines
<1>6. 2 \in Nat \ {0} /\ q + 2 <= Len(d[k]) + 1 /\ ~(q + 2 <= Len(d[k]))
  BY <1>2
<1>. QED BY <1>1, <1>3, <1>5, <1>6, MoveOn, Zenon

LEMMA UsageRead ==
  ASSUME NEW d, NEW s, NEW k, NEW q, StandsAt(d, s, k, q), ReadTo(d, s), Item!ReadUsage
  PROVE  ReadTo(d, s)'
<1>1. /\ d \in Seq(Seq(STRING)) /\ Pieces(d, FlattenSeq(d), s) /\ Formed(d) /\ k \in DOMAIN d
      /\ q \in 1..Len(d[k]) /\ Free(d[k], q) /\ at = s[k] + q
  BY DEF StandsAt
<1>2. Item!IsUsage(d[k]) /\ q = Len(d[k])
  BY <1>1, WordsAhead, KeywordsOwn, SMTT(20) DEF Item!ReadUsage, UsageWords
<1>3. usage' = Item!UsageOf[Item!Last(d[k])] /\ at' = at + 1
  BY <1>2, WordsAhead DEF Item!ReadUsage, Item!Last
<1>4. /\ ~Item!IsPicture(d[k]) /\ ~Item!IsRedefines(d[k]) /\ ~Item!IsTable(d[k])
      /\ ~Item!IsDepending(d[k]) /\ ~Item!IsSign(d[k])
  BY <1>2, WordsAhead, KindsApart
<1>5. q \in Nat /\ q \in q..(q + 1 - 1)
  BY WordsAhead
<1>6. TakesAll(d, k, q, 1)
  <2>1. Takes(usage, usage', UsageClauses(d), LastOf(d), UseOf(d), k, q, 1)
    BY <1>1, <1>2, <1>3, <1>5 DEF Takes, UsageClauses, LastOf, UseOf
  <2>2. TakesSign(separate, separate', "SEPARATE", d, k, q, 1)
        /\ TakesSign(leading, leading', "LEADING", d, k, q, 1)
    BY <1>4 DEF TakesSign, ReadTo, SignRead, Item!ReadUsage
  <2>. QED BY <1>1, <1>4, <2>1, <2>2, Untaken DEF TakesAll, Item!ReadUsage
<1>7. q + 1 <= Len(d[k]) + 1 /\ ~(q + 1 <= Len(d[k]))
  BY <1>2, <1>5
<1>. QED BY <1>1, <1>3, <1>6, <1>7, MoveOn

LEMMA SignWordRead ==
  ASSUME NEW d, NEW s, NEW k, NEW q, StandsAt(d, s, k, q), ReadTo(d, s), Item!ReadSign
  PROVE  ReadTo(d, s)'
<1>1. /\ d \in Seq(Seq(STRING)) /\ Pieces(d, FlattenSeq(d), s) /\ Formed(d) /\ k \in DOMAIN d
      /\ q \in 1..Len(d[k]) /\ Free(d[k], q) /\ at = s[k] + q
  BY DEF StandsAt
<1>2. Item!IsSign(d[k]) /\ Item!Word = d[k][q]
  BY <1>1, WordsAhead, KeywordsOwn DEF Item!ReadSign
<1>3. at' = at + 1
  BY DEF Item!ReadSign
<1>4. /\ ~Item!IsPicture(d[k]) /\ ~Item!IsRedefines(d[k]) /\ ~Item!IsUsage(d[k])
      /\ ~Item!IsTable(d[k]) /\ ~Item!IsDepending(d[k])
  BY <1>2, WordsAhead, KindsApart
<1>5. TakesAll(d, k, q, 1)
  <2>1. TakesSign(separate, separate', "SEPARATE", d, k, q, 1)
        /\ TakesSign(leading, leading', "LEADING", d, k, q, 1)
    BY <1>2 DEF TakesSign, ReadTo, SignRead, Item!ReadSign
  <2>. QED BY <1>1, <1>4, <2>1, Untaken DEF TakesAll, Item!ReadSign
<1>6. 1 \in Nat \ {0} /\ q + 1 <= Len(d[k]) + 1 /\ Free(d[k], q + 1)
  BY <1>1, <1>2, WordsAhead DEF Free
<1>. QED BY <1>1, <1>3, <1>5, <1>6, MoveOn, Zenon

(* TO stands third in the clauses of a table whose size depends, and in no *)
(* other place behind an OCCURS.                                            *)
LEMMA OdoHere ==
  ASSUME NEW d, NEW s, NEW k, NEW q, StandsAt(d, s, k, q), Item!Word = "OCCURS"
  PROVE  /\ q = 1
         /\ Item!IsOdo => Item!IsDepending(d[k])
         /\ ~Item!IsOdo => Item!IsTable(d[k])
<1>1. /\ d \in Seq(Seq(STRING)) /\ Pieces(d, FlattenSeq(d), s) /\ Formed(d) /\ k \in DOMAIN d
      /\ q \in 1..Len(d[k]) /\ Free(d[k], q) /\ at = s[k] + q
  BY DEF StandsAt
<1>2. q = 1 /\ (Item!IsTable(d[k]) \/ Item!IsDepending(d[k]))
  BY <1>1, WordsAhead, KeywordsOwn
<1>3. CASE Item!IsDepending(d[k])
  <2>1. Len(d[k]) \in Nat /\ Len(d[k]) >= 7 /\ d[k][3] = "TO"
    BY <1>3, WordsAhead DEF Item!IsDepending
  <2>2. 2 \in 0..(Len(d[k]) - q) /\ 3 \in 0..(Len(d[k]) - q) /\ q + 2 = 3
    BY <1>2, <2>1
  <2>3. at + 3 <= Len(Item!Words) /\ Item!Words[at + 2] = "TO"
    BY <2>1, <2>2, WordsAhead
  <2>. QED BY <1>2, <1>3, <2>3 DEF Item!IsOdo, Item!Has
<1>4. CASE ~Item!IsDepending(d[k])
  <2>. SUFFICES ASSUME Item!IsOdo PROVE FALSE
    BY <1>2, <1>4
  <2>1. Item!IsTable(d[k]) /\ Item!Words[at + 2] = "TO" /\ at + 3 <= Len(Item!Words)
    BY <1>2, <1>4 DEF Item!IsOdo, Item!Has
  <2>2. Len(d[k]) \in Nat /\ Len(d[k]) >= 2 /\ (Len(d[k]) >= 3 => d[k][3] # "TO")
    BY <2>1, WordsAhead DEF Item!IsTable
  <2>3. CASE Len(d[k]) >= 3
    <3>1. 2 \in 0..(Len(d[k]) - q) /\ q + 2 = 3
      BY <1>2, <2>2, <2>3
    <3>. QED BY <2>1, <2>2, <2>3, <3>1, WordsAhead
  <2>4. CASE Len(d[k]) = 2
    <3>1. 2 \in 1..Len(d[k]) /\ s[k] \in Nat /\ at = s[k] + 1
      BY <1>1, <1>2, <2>4 DEF Pieces
    <3>2. \/ s[k] + 2 = Len(FlattenSeq(d))
          \/ k + 1 \in DOMAIN d /\ s[k] + 2 = s[k + 1]
      <4>1. Len(d[k]) \in 1..Len(d[k])
        BY <2>4, <3>1
      <4>2. \/ s[k] + Len(d[k]) = Len(FlattenSeq(d))
            \/ k + 1 \in DOMAIN d /\ s[k] + Len(d[k]) = s[k + 1]
        BY <1>1, <4>1, NextPlace
      <4>. QED BY <2>4, <4>2
    <3>3. s[k] + 2 # Len(FlattenSeq(d))
      BY <2>1, <3>1, WordsAhead
    <3>4. /\ d[k + 1] \in Seq(STRING) /\ Len(d[k + 1]) \in Nat /\ Len(d[k + 1]) >= 1
          /\ ClauseKind(d[k + 1]) /\ 1 \in 1..Len(d[k + 1])
      BY <1>1, <3>2, <3>3 DEF Formed
    <3>5. FlattenSeq(d)[s[k + 1] + 1] = d[k + 1][1]
      BY <1>1, <3>2, <3>3, <3>4, NextPlace, SMTT(20)
    <3>6. s[k + 1] + 1 = at + 2
      BY <3>1, <3>2, <3>3
    <3>7. Item!Words = FlattenSeq(d)
      BY WordsAhead
    <3>8. d[k + 1][1] # "TO"
      BY <3>4, NoneStartsTo
    <3>. QED BY <2>1, <3>5, <3>6, <3>7, <3>8
  <2>5. \A n \in Nat : n >= 2 => n = 2 \/ n >= 3
    OBVIOUS
  <2>. QED BY <2>2, <2>3, <2>4, <2>5
<1>. QED BY <1>3, <1>4

LEMMA TableRead ==
  ASSUME NEW d, NEW s, NEW k, NEW q, StandsAt(d, s, k, q), ReadTo(d, s), Item!ReadOccurs
  PROVE  ReadTo(d, s)'
<1>1. /\ d \in Seq(Seq(STRING)) /\ Pieces(d, FlattenSeq(d), s) /\ Formed(d) /\ k \in DOMAIN d
      /\ q \in 1..Len(d[k]) /\ Free(d[k], q) /\ at = s[k] + q
  BY DEF StandsAt
<1>2. q = 1 /\ Item!IsTable(d[k])
  BY OdoHere DEF Item!ReadOccurs
<1>3. Len(d[k]) \in Nat /\ Len(d[k]) >= 2
  BY <1>2, WordsAhead DEF Item!IsTable
<1>4. occurs' = d[k][2] /\ at' = at + 2
  <2>1. 1 \in 0..(Len(d[k]) - q) /\ q + 1 = 2
    BY <1>2, <1>3
  <2>. QED BY <2>1, WordsAhead DEF Item!ReadOccurs
<1>5. /\ ~Item!IsPicture(d[k]) /\ ~Item!IsRedefines(d[k]) /\ ~Item!IsUsage(d[k])
      /\ ~Item!IsDepending(d[k]) /\ ~Item!IsSign(d[k])
  BY <1>2, WordsAhead, KindsApart
<1>6. TakesAll(d, k, q, 2)
  <2>1. Takes(occurs, occurs', FixedTables(d), FirstOf(d), SecondOf(d), k, q, 2)
    BY <1>1, <1>2, <1>4 DEF Takes, FixedTables, FirstOf, SecondOf
  <2>2. TakesSign(separate, separate', "SEPARATE", d, k, q, 2)
        /\ TakesSign(leading, leading', "LEADING", d, k, q, 2)
    BY <1>5 DEF TakesSign, ReadTo, SignRead, Item!ReadOccurs
  <2>. QED BY <1>1, <1>5, <2>1, <2>2, Untaken DEF TakesAll, Item!ReadOccurs
<1>7. 2 \in Nat \ {0} /\ q + 2 <= Len(d[k]) + 1 /\ Free(d[k], q + 2)
  BY <1>2, <1>3 DEF Free
<1>. QED BY <1>1, <1>4, <1>6, <1>7, MoveOn, Zenon

LEMMA VariableTableRead ==
  ASSUME NEW d, NEW s, NEW k, NEW q, StandsAt(d, s, k, q), ReadTo(d, s), Item!ReadDepending
  PROVE  ReadTo(d, s)'
<1>1. /\ d \in Seq(Seq(STRING)) /\ Pieces(d, FlattenSeq(d), s) /\ Formed(d) /\ k \in DOMAIN d
      /\ q \in 1..Len(d[k]) /\ Free(d[k], q) /\ at = s[k] + q
  BY DEF StandsAt
<1>. DEFINE c == d[k]
<1>2. q = 1 /\ Item!IsDepending(c)
  BY OdoHere DEF Item!ReadDepending
<1>3. /\ Len(c) \in Nat /\ Len(c) >= 7 /\ at \in Nat /\ Item!Last(c) = c[Len(c)]
      /\ c[Len(c) - 2] = "DEPENDING" /\ c[Len(c) - 1] = "ON"
      /\ \A n \in 5..(Len(c) - 3) : c[n] # "DEPENDING"
  BY <1>2, WordsAhead DEF Item!IsDepending, Item!Last
<1>4. \A n \in 1..Len(c) :
        at + (n - 1) <= Len(Item!Words) /\ Item!Words[at + (n - 1)] = c[n]
  <2>. SUFFICES ASSUME NEW n \in 1..Len(c)
                PROVE  at + (n - 1) <= Len(Item!Words) /\ Item!Words[at + (n - 1)] = c[n]
    OBVIOUS
  <2>1. n - 1 \in 0..(Len(c) - q) /\ q + (n - 1) = n
    BY <1>2, <1>3
  <2>. QED BY <2>1, WordsAhead
<1>. HIDE DEF c
<1>. DEFINE W == Item!Words
            found == {j \in (at + 4)..(Len(W) - 2) : W[j] = "DEPENDING" /\ W[j + 1] = "ON"}
            least == at + (Len(c) - 3)
<1>5. least \in found
  <2>1. Len(c) \in 1..Len(c) /\ Len(c) - 1 \in 1..Len(c) /\ Len(c) - 2 \in 1..Len(c)
    BY <1>3
  <2>2. /\ at + (Len(c) - 1) <= Len(W)
        /\ W[at + ((Len(c) - 1) - 1)] = "ON" /\ W[at + ((Len(c) - 2) - 1)] = "DEPENDING"
    BY <1>3, <1>4, <2>1
  <2>3. Len(W) \in Nat
    BY WordsAhead
  <2>4. /\ at + ((Len(c) - 1) - 1) = least + 1 /\ at + ((Len(c) - 2) - 1) = least
        /\ least \in Int /\ at + 4 <= least
    BY <1>3
  <2>5. least <= Len(W) - 2
    <3>. HIDE DEF W
    <3>. QED BY <1>3, <2>2, <2>3
  <2>6. least \in (at + 4)..(Len(W) - 2)
    <3>. HIDE DEF least, W
    <3>. QED BY <1>3, <2>3, <2>4, <2>5
  <2>. HIDE DEF least
  <2>. QED BY <2>2, <2>4, <2>6
<1>6. ASSUME NEW j \in found, j < least PROVE FALSE
  <2>1. j \in Int /\ at + 4 <= j /\ W[j] = "DEPENDING"
    BY <1>3, WordsAhead
  <2>2. j - at + 1 \in 5..(Len(c) - 3) /\ j - at + 1 \in 1..Len(c) /\ at + ((j - at + 1) - 1) = j
    <3>. HIDE DEF found
    <3>. QED BY <1>3, <1>6, <2>1
  <2>3. W[j] = c[j - at + 1]
    BY <1>4, <2>2
  <2>. QED BY <1>3, <2>1, <2>2, <2>3
<1>7. \A j \in found : j \in Int
  BY WordsAhead
<1>8. (CHOOSE j \in found : \A i \in found : j <= i) = least
  <2>1. least \in Int
    BY <1>3
  <2>2. \A i \in found : least <= i
    <3>. HIDE DEF found, least
    <3>. QED BY <1>6, <1>7, <2>1
  <2>3. \A j \in found : (\A i \in found : j <= i) => j = least
    <3>. HIDE DEF found, least
    <3>. QED BY <1>5, <1>7, <2>1, <2>2
  <2>. HIDE DEF found, least
  <2>. QED BY <1>5, <2>2, <2>3
<1>9. Item!Depending = c[Len(c)]
  <2>1. Item!Depending = W[least + 2]
    <3>1. Item!Depending = IF found = {} THEN ""
                           ELSE W[(CHOOSE j \in found : \A i \in found : j <= i) + 2]
      BY DEF Item!Depending
    <3>. HIDE DEF found, least, W
    <3>. QED BY <1>5, <1>8, <3>1, Zenon
  <2>2. Len(c) \in 1..Len(c) /\ least + 2 = at + (Len(c) - 1)
    BY <1>3
  <2>. QED BY <1>4, <2>1, <2>2
<1>10. odo' = [min |-> c[2], max |-> c[4], on |-> Item!Last(c)] /\ at' = at + 4
  <2>1. 2 \in 1..Len(c) /\ 4 \in 1..Len(c) /\ 2 - 1 = 1 /\ 4 - 1 = 3
    BY <1>3
  <2>2. Item!Words[at + 1] = c[2] /\ Item!Words[at + 3] = c[4]
    BY <1>4, <2>1
  <2>. QED BY <1>3, <1>9, <2>2 DEF Item!ReadDepending
<1>11. /\ ~Item!IsPicture(d[k]) /\ ~Item!IsRedefines(d[k]) /\ ~Item!IsUsage(d[k])
       /\ ~Item!IsTable(d[k]) /\ ~Item!IsSign(d[k])
  BY <1>2, WordsAhead, KindsApart DEF c
<1>12. TakesAll(d, k, q, 4)
  <2>1. Takes(odo, odo', VariableTables(d), FirstOf(d), TableOf(d), k, q, 4)
    BY <1>1, <1>2, <1>10 DEF Takes, VariableTables, FirstOf, TableOf, c
  <2>2. TakesSign(separate, separate', "SEPARATE", d, k, q, 4)
        /\ TakesSign(leading, leading', "LEADING", d, k, q, 4)
    BY <1>11 DEF TakesSign, ReadTo, SignRead, Item!ReadDepending
  <2>. QED BY <1>1, <1>11, <2>1, <2>2, Untaken DEF TakesAll, Item!ReadDepending
<1>13. 4 \in Nat \ {0} /\ q + 4 <= Len(d[k]) + 1 /\ Free(d[k], q + 4)
  BY <1>2, <1>3 DEF Free, c
<1>. QED BY <1>1, <1>10, <1>12, <1>13, MoveOn, Zenon

LEMMA WordPassedOver ==
  ASSUME NEW d, NEW s, NEW k, NEW q, StandsAt(d, s, k, q), ReadTo(d, s), Item!PassOver
  PROVE  ReadTo(d, s)'
<1>1. /\ d \in Seq(Seq(STRING)) /\ Pieces(d, FlattenSeq(d), s) /\ Formed(d) /\ k \in DOMAIN d
      /\ q \in 1..Len(d[k]) /\ Free(d[k], q) /\ at = s[k] + q
  BY DEF StandsAt
<1>. DEFINE u == d[k][q]
<1>2. u = Item!Word /\ u \notin UsageWords /\ u \notin {"SEPARATE", "LEADING"} /\ at' = at + 1
  BY WordsAhead DEF Item!PassOver, UsageWords
<1>3. /\ Len(d[k]) \in Nat /\ q \in Nat /\ d[k] \in Seq(STRING)
      /\ Len(d[k]) >= 1 /\ ClauseKind(d[k])
  BY WordsAhead
<1>4. /\ u \in {"PIC", "PICTURE"} <=> Item!IsPicture(d[k])
      /\ u = "REDEFINES" <=> Item!IsRedefines(d[k])
      /\ ~(Item!IsUsage(d[k]) /\ q = Len(d[k]))
      /\ u = "OCCURS" <=> (Item!IsTable(d[k]) \/ Item!IsDepending(d[k])) /\ q = 1
      /\ Item!IsPicture(d[k]) \/ Item!IsRedefines(d[k]) => q = 1 /\ Len(d[k]) = 2
  BY <1>1, <1>2, <1>3, KeywordsOwn
<1>5. u \notin {"PIC", "PICTURE", "OCCURS", "REDEFINES"}
  <2>. SUFFICES ASSUME u \in {"PIC", "PICTURE", "OCCURS", "REDEFINES"} PROVE FALSE
    OBVIOUS
  <2>1. q = 1 /\ Len(d[k]) >= 2
    <3>1. Item!IsTable(d[k]) => Len(d[k]) >= 2
      BY DEF Item!IsTable
    <3>2. Item!IsDepending(d[k]) => Len(d[k]) >= 2
      BY <1>3 DEF Item!IsDepending
    <3>. QED BY <1>3, <1>4, <3>1, <3>2
  <2>2. 1 \in 0..(Len(d[k]) - q)
    BY <1>3, <2>1
  <2>3. Item!Has(1)
    BY <2>2, WordsAhead DEF Item!Has
  <2>. QED BY <1>2, <2>3 DEF Item!PassOver
<1>6. /\ ~Item!IsPicture(d[k]) /\ ~Item!IsRedefines(d[k])
      /\ Item!IsTable(d[k]) \/ Item!IsDepending(d[k]) => q # 1
  BY <1>4, <1>5
<1>7. TakesAll(d, k, q, 1)
  <2>1. Takes(usage, usage', UsageClauses(d), LastOf(d), UseOf(d), k, q, 1)
    BY <1>1, <1>3, <1>4 DEF Takes, UsageClauses, LastOf, Item!PassOver
  <2>2. Takes(occurs, occurs', FixedTables(d), FirstOf(d), SecondOf(d), k, q, 1)
    BY <1>1, <1>3, <1>6 DEF Takes, FixedTables, FirstOf, Item!PassOver
  <2>3. Takes(odo, odo', VariableTables(d), FirstOf(d), TableOf(d), k, q, 1)
    BY <1>1, <1>3, <1>6 DEF Takes, VariableTables, FirstOf, Item!PassOver
  <2>4. TakesSign(separate, separate', "SEPARATE", d, k, q, 1)
        /\ TakesSign(leading, leading', "LEADING", d, k, q, 1)
    BY <1>2 DEF TakesSign, ReadTo, SignRead, Item!PassOver
  <2>. QED BY <1>1, <1>6, <2>1, <2>2, <2>3, <2>4, Untaken DEF TakesAll, Item!PassOver
<1>8. 1 \in Nat \ {0} /\ q + 1 <= Len(d[k]) + 1 /\ (q + 1 <= Len(d[k]) => Free(d[k], q + 1))
  BY <1>1, <1>3, <1>6 DEF Free, ClauseKind
<1>. QED BY <1>1, <1>2, <1>7, <1>8, MoveOn, Zenon

LEMMA ClauseStep ==
  ASSUME NEW d \in Seq(Seq(STRING)), d = decl, Formed(d), NEW s, Pieces(d, FlattenSeq(d), s),
         ReadTo(d, s), Item!Next
  PROVE  ReadTo(d, s)'
<1>1. CASE Item!Terminated
  BY <1>1 DEF Item!Terminated, Item!vars, ReadTo
<1>2. CASE Item!More
  <2>1. Item!Words = FlattenSeq(d) /\ Len(Item!Words) \in Nat
    <3>1. FlattenSeq(d) \in Seq(STRING)
      BY Flattened
    <3>. QED BY <3>1 DEF Item!Words, Item!FlattenSeq, FlattenSeq
  <2>2. at # Len(FlattenSeq(d)) + 1
    BY <1>2, <2>1 DEF Item!More
  <2>3. PICK k \in DOMAIN d : \E q \in 1..Len(d[k]) : StandsAt(d, s, k, q)
    BY <2>2 DEF ReadTo, Standing, StandsAt
  <2>4. PICK q \in 1..Len(d[k]) : StandsAt(d, s, k, q)
    BY <2>3
  <2>5. CASE Item!ReadPicture
    BY <2>4, <2>5, PictureRead
  <2>6. CASE Item!ReadUsage
    BY <2>4, <2>6, UsageRead
  <2>7. CASE Item!ReadDepending
    BY <2>4, <2>7, VariableTableRead
  <2>8. CASE Item!ReadOccurs
    BY <2>4, <2>8, TableRead
  <2>9. CASE Item!ReadRedefines
    BY <2>4, <2>9, RedefinesRead
  <2>10. CASE Item!ReadSign
    BY <2>4, <2>10, SignWordRead
  <2>11. CASE Item!PassOver
    BY <2>4, <2>11, WordPassedOver
  <2>. QED BY <1>1, <2>5, <2>6, <2>7, <2>8, <2>9, <2>10, <2>11 DEF Item!Next
<1>. QED BY <1>1, <1>2 DEF Item!Next, Item!ReadPicture, Item!ReadUsage, Item!ReadDepending,
            Item!ReadOccurs, Item!ReadRedefines, Item!ReadSign, Item!PassOver

LEMMA NothingRead ==
  ASSUME NEW d \in Seq(Seq(STRING)), d = decl, Formed(d), NEW s, Pieces(d, FlattenSeq(d), s),
         Item!Init
  PROVE  ReadTo(d, s)
<1>1. DOMAIN d = 1..Len(d) /\ Len(d) \in Nat
  OBVIOUS
<1>2. at = 1 /\ s[1] = 0 /\ \A k \in DOMAIN d : s[k] \in Nat /\ Len(d[k]) \in Nat
  BY <1>1 DEF Pieces, Item!Init
<1>3. \A k \in DOMAIN d : \A q \in 1..Len(d[k]) : ~(s[k] + q < at)
  BY <1>2
<1>4. Standing(d, s, at)
  <2>1. CASE Len(d) = 0
    BY <1>1, <1>2, <2>1 DEF Standing, Pieces
  <2>2. CASE Len(d) # 0
    <3>1. 1 \in DOMAIN d
      BY <1>1, <2>2
    <3>2. 1 \in 1..Len(d[1])
      BY <3>1 DEF Formed
    <3>. QED BY <1>2, <3>1, <3>2 DEF Standing, Free
  <2>. QED BY <2>1, <2>2
<1>5. \A k \in DOMAIN d : FirstOf(d)[k] \in 1..Len(d[k]) /\ LastOf(d)[k] \in 1..Len(d[k])
  BY DEF Formed, FirstOf, LastOf
<1>. QED BY <1>3, <1>4, <1>5 DEF ReadTo, ReadOff, SignRead, Pictures, Redefinitions, UsageClauses,
            FixedTables, VariableTables, Item!Init

(* A well-formed declaration is one of clauses that are understood, at most *)
(* one of a kind.                                                           *)
LEMMA WellFormedIsFormed ==
  ASSUME decl \in Seq(Seq(STRING)), Item!WellFormed
  PROVE  Formed(decl)
<1>1. \A k \in DOMAIN decl : decl[k] \in Seq(STRING)
  OBVIOUS
<1>2. \A k \in DOMAIN decl : Len(decl[k]) >= 1 /\ ClauseKind(decl[k])
  BY DEF Item!WellFormed, ClauseKind
<1>3. ASSUME NEW i \in DOMAIN decl, NEW j \in DOMAIN decl
      PROVE  /\ Item!IsPicture(decl[i]) /\ Item!IsPicture(decl[j]) => i = j
             /\ Item!IsRedefines(decl[i]) /\ Item!IsRedefines(decl[j]) => i = j
             /\ Item!IsUsage(decl[i]) /\ Item!IsUsage(decl[j]) => i = j
             /\ Item!IsTable(decl[i]) /\ Item!IsTable(decl[j]) => i = j
             /\ Item!IsDepending(decl[i]) /\ Item!IsDepending(decl[j]) => i = j
  BY <1>1, <1>2, KindsApart DEF Item!WellFormed
<1>. QED BY <1>2, <1>3 DEF Formed, AtMostOne, Pictures, Redefinitions, UsageClauses, FixedTables,
            VariableTables

(* At the end every clause was read.                                        *)
LEMMA AllClausesRead ==
  ASSUME decl \in Seq(Seq(STRING)), Formed(decl), NEW s, Pieces(decl, FlattenSeq(decl), s),
         ReadTo(decl, s), ~Item!More
  PROVE  Item!ReadsEachClause
<1>1. PICK d \in Seq(Seq(STRING)) : d = decl
  OBVIOUS
<1>2. /\ Formed(d) /\ ReadTo(d, s) /\ Pieces(d, FlattenSeq(d), s)
      /\ Item!ToSet(decl) = {d[k] : k \in DOMAIN d}
  BY <1>1 DEF Item!ToSet
<1>. DEFINE w == FlattenSeq(d)
<1>3. at = Len(w) + 1
  <2>1. Item!Words = w /\ Len(w) \in Nat
    <3>1. w \in Seq(STRING)
      BY Flattened
    <3>. QED BY <1>1, <3>1 DEF Item!Words, Item!FlattenSeq, FlattenSeq
  <2>2. \A k \in DOMAIN d : \A q \in 1..Len(d[k]) : s[k] + q \in 1..Len(w)
    BY <1>2, NextPlace
  <2>3. \A k \in DOMAIN d : \A q \in 1..Len(d[k]) : at # s[k] + q
    <3>. HIDE DEF w
    <3>. QED BY <2>1, <2>2 DEF Item!More
  <2>. QED BY <1>2, <2>3, SMTT(20) DEF ReadTo, Standing
<1>4. /\ \A j \in DOMAIN d : FirstOf(d)[j] \in 1..Len(d[j]) /\ LastOf(d)[j] \in 1..Len(d[j])
      /\ Pictures(d) \in SUBSET DOMAIN d /\ Redefinitions(d) \in SUBSET DOMAIN d
      /\ UsageClauses(d) \in SUBSET DOMAIN d /\ FixedTables(d) \in SUBSET DOMAIN d
      /\ VariableTables(d) \in SUBSET DOMAIN d
  BY <1>2 DEF Formed, FirstOf, LastOf, Pictures, Redefinitions, UsageClauses, FixedTables,
              VariableTables
<1>5. Pieces(d, w, s)
  BY <1>2
<1>. HIDE DEF w
<1>6. \A k \in DOMAIN d : \A q \in 1..Len(d[k]) : s[k] + q < Len(w) + 1
  <2>1. \A k \in DOMAIN d : \A q \in 1..Len(d[k]) : s[k] + q \in 1..Len(w)
    BY <1>5, NextPlace
  <2>2. Len(w) \in Nat
    <3>1. w \in Seq(STRING)
      BY Flattened DEF w
    <3>. QED BY <3>1
  <2>. QED BY <2>1, <2>2
<1>7. /\ \A j \in Pictures(d) : pic = d[j][2]
      /\ Pictures(d) = {} => pic = None
  <2>1. \A j \in Pictures(d) : s[j] + FirstOf(d)[j] < Len(w) + 1
    BY <1>4, <1>6
  <2>2. ReadOff(pic, None, s, Pictures(d), FirstOf(d), SecondOf(d), Len(w) + 1)
        /\ \A i, j \in Pictures(d) : i = j
    BY <1>2, <1>3 DEF ReadTo, Formed, AtMostOne
  <2>3. /\ \A j \in Pictures(d) : pic = SecondOf(d)[j]
        /\ Pictures(d) = {} => pic = None
    BY <2>1, <2>2, AllRead
  <2>. QED BY <1>4, <2>3 DEF SecondOf
<1>8. /\ \A j \in Redefinitions(d) : redefines = d[j][2]
      /\ Redefinitions(d) = {} => redefines = None
  <2>1. \A j \in Redefinitions(d) : s[j] + FirstOf(d)[j] < Len(w) + 1
    BY <1>4, <1>6
  <2>2. ReadOff(redefines, None, s, Redefinitions(d), FirstOf(d), SecondOf(d), Len(w) + 1)
        /\ \A i, j \in Redefinitions(d) : i = j
    BY <1>2, <1>3 DEF ReadTo, Formed, AtMostOne
  <2>3. /\ \A j \in Redefinitions(d) : redefines = SecondOf(d)[j]
        /\ Redefinitions(d) = {} => redefines = None
    BY <2>1, <2>2, AllRead
  <2>. QED BY <1>4, <2>3 DEF SecondOf
<1>9. /\ \A j \in UsageClauses(d) : usage = Item!UsageOf[Item!Last(d[j])]
      /\ UsageClauses(d) = {} => usage = "DISPLAY"
  <2>1. \A j \in UsageClauses(d) : s[j] + LastOf(d)[j] < Len(w) + 1
    BY <1>4, <1>6
  <2>2. ReadOff(usage, "DISPLAY", s, UsageClauses(d), LastOf(d), UseOf(d), Len(w) + 1)
        /\ \A i, j \in UsageClauses(d) : i = j
    BY <1>2, <1>3 DEF ReadTo, Formed, AtMostOne
  <2>3. /\ \A j \in UsageClauses(d) : usage = UseOf(d)[j]
        /\ UsageClauses(d) = {} => usage = "DISPLAY"
    BY <2>1, <2>2, AllRead
  <2>. QED BY <1>4, <2>3 DEF UseOf
<1>10. /\ \A j \in FixedTables(d) : occurs = d[j][2]
       /\ FixedTables(d) = {} => occurs = None
  <2>1. \A j \in FixedTables(d) : s[j] + FirstOf(d)[j] < Len(w) + 1
    BY <1>4, <1>6
  <2>2. ReadOff(occurs, None, s, FixedTables(d), FirstOf(d), SecondOf(d), Len(w) + 1)
        /\ \A i, j \in FixedTables(d) : i = j
    BY <1>2, <1>3 DEF ReadTo, Formed, AtMostOne
  <2>3. /\ \A j \in FixedTables(d) : occurs = SecondOf(d)[j]
        /\ FixedTables(d) = {} => occurs = None
    BY <2>1, <2>2, AllRead
  <2>. QED BY <1>4, <2>3 DEF SecondOf
<1>11. /\ \A j \in VariableTables(d) :
            odo = [min |-> d[j][2], max |-> d[j][4], on |-> Item!Last(d[j])]
       /\ VariableTables(d) = {} => odo = None
  <2>1. \A j \in VariableTables(d) : s[j] + FirstOf(d)[j] < Len(w) + 1
    BY <1>4, <1>6
  <2>2. ReadOff(odo, None, s, VariableTables(d), FirstOf(d), TableOf(d), Len(w) + 1)
        /\ \A i, j \in VariableTables(d) : i = j
    BY <1>2, <1>3 DEF ReadTo, Formed, AtMostOne
  <2>3. /\ \A j \in VariableTables(d) : odo = TableOf(d)[j]
        /\ VariableTables(d) = {} => odo = None
    BY <2>1, <2>2, AllRead
  <2>. QED BY <1>4, <2>3 DEF TableOf
<1>12. \A k \in DOMAIN d : Item!ToSet(d[k]) = {d[k][q] : q \in 1..Len(d[k])}
  <2>1. \A k \in DOMAIN d : DOMAIN d[k] = 1..Len(d[k])
    OBVIOUS
  <2>. QED BY <2>1 DEF Item!ToSet
<1>13. /\ separate = (\E c \in Item!ToSet(decl) : Item!IsSign(c) /\ "SEPARATE" \in Item!ToSet(c))
       /\ leading = (\E c \in Item!ToSet(decl) : Item!IsSign(c) /\ "LEADING" \in Item!ToSet(c))
  <2>1. \A word : (\E c \in Item!ToSet(decl) : Item!IsSign(c) /\ word \in Item!ToSet(c)) <=>
          \E k \in DOMAIN d : \E q \in 1..Len(d[k]) :
            s[k] + q < Len(w) + 1 /\ Item!IsSign(d[k]) /\ d[k][q] = word
    BY <1>1, <1>2, <1>6, <1>12
  <2>2. SignRead(separate, "SEPARATE", d, s, Len(w) + 1) /\ SignRead(leading, "LEADING", d, s, Len(w) + 1)
    BY <1>2, <1>3 DEF ReadTo
  <2>. QED BY <2>1, <2>2 DEF SignRead
<1>14. pic = IF \E c \in Item!ToSet(decl) : Item!IsPicture(c)
             THEN (CHOOSE c \in Item!ToSet(decl) : Item!IsPicture(c))[2] ELSE None
  <2>1. \A c : c \in Item!ToSet(decl) /\ Item!IsPicture(c) <=> \E k \in Pictures(d) : c = d[k]
    BY <1>2 DEF Pictures
  <2>2. CASE Pictures(d) = {}
    BY <1>7, <2>1, <2>2, Zenon
  <2>3. CASE Pictures(d) # {}
    <3>. DEFINE x == CHOOSE c \in Item!ToSet(decl) : Item!IsPicture(c)
    <3>1. \E c \in Item!ToSet(decl) : Item!IsPicture(c)
      BY <2>1, <2>3, Zenon
    <3>2. x \in Item!ToSet(decl) /\ Item!IsPicture(x)
      BY <3>1, Zenon
    <3>. HIDE DEF x
    <3>3. PICK k \in Pictures(d) : x = d[k]
      BY <2>1, <3>2, Zenon
    <3>. QED BY <1>7, <3>1, <3>3, Zenon DEF x
  <2>. QED BY <2>2, <2>3
<1>15. redefines = IF \E c \in Item!ToSet(decl) : Item!IsRedefines(c)
                   THEN (CHOOSE c \in Item!ToSet(decl) : Item!IsRedefines(c))[2] ELSE None
  <2>1. \A c : c \in Item!ToSet(decl) /\ Item!IsRedefines(c) <=> \E k \in Redefinitions(d) : c = d[k]
    BY <1>2 DEF Redefinitions
  <2>2. CASE Redefinitions(d) = {}
    BY <1>8, <2>1, <2>2, Zenon
  <2>3. CASE Redefinitions(d) # {}
    <3>. DEFINE x == CHOOSE c \in Item!ToSet(decl) : Item!IsRedefines(c)
    <3>1. \E c \in Item!ToSet(decl) : Item!IsRedefines(c)
      BY <2>1, <2>3, Zenon
    <3>2. x \in Item!ToSet(decl) /\ Item!IsRedefines(x)
      BY <3>1, Zenon
    <3>. HIDE DEF x
    <3>3. PICK k \in Redefinitions(d) : x = d[k]
      BY <2>1, <3>2, Zenon
    <3>. QED BY <1>8, <3>1, <3>3, Zenon DEF x
  <2>. QED BY <2>2, <2>3
<1>16. usage = IF \E c \in Item!ToSet(decl) : Item!IsUsage(c)
               THEN Item!UsageOf[Item!Last(CHOOSE c \in Item!ToSet(decl) : Item!IsUsage(c))]
               ELSE "DISPLAY"
  <2>1. \A c : c \in Item!ToSet(decl) /\ Item!IsUsage(c) <=> \E k \in UsageClauses(d) : c = d[k]
    BY <1>2 DEF UsageClauses
  <2>2. CASE UsageClauses(d) = {}
    BY <1>9, <2>1, <2>2, Zenon
  <2>3. CASE UsageClauses(d) # {}
    <3>. DEFINE x == CHOOSE c \in Item!ToSet(decl) : Item!IsUsage(c)
    <3>1. \E c \in Item!ToSet(decl) : Item!IsUsage(c)
      BY <2>1, <2>3, Zenon
    <3>2. x \in Item!ToSet(decl) /\ Item!IsUsage(x)
      BY <3>1, Zenon
    <3>. HIDE DEF x
    <3>3. PICK k \in UsageClauses(d) : x = d[k]
      BY <2>1, <3>2, Zenon
    <3>. QED BY <1>9, <3>1, <3>3, Zenon DEF x
  <2>. QED BY <2>2, <2>3
<1>17. occurs = IF \E c \in Item!ToSet(decl) : Item!IsTable(c)
                THEN (CHOOSE c \in Item!ToSet(decl) : Item!IsTable(c))[2] ELSE None
  <2>1. \A c : c \in Item!ToSet(decl) /\ Item!IsTable(c) <=> \E k \in FixedTables(d) : c = d[k]
    BY <1>2 DEF FixedTables
  <2>2. CASE FixedTables(d) = {}
    BY <1>10, <2>1, <2>2, Zenon
  <2>3. CASE FixedTables(d) # {}
    <3>. DEFINE x == CHOOSE c \in Item!ToSet(decl) : Item!IsTable(c)
    <3>1. \E c \in Item!ToSet(decl) : Item!IsTable(c)
      BY <2>1, <2>3, Zenon
    <3>2. x \in Item!ToSet(decl) /\ Item!IsTable(x)
      BY <3>1, Zenon
    <3>. HIDE DEF x
    <3>3. PICK k \in FixedTables(d) : x = d[k]
      BY <2>1, <3>2, Zenon
    <3>. QED BY <1>10, <3>1, <3>3, Zenon DEF x
  <2>. QED BY <2>2, <2>3
<1>18. odo = IF \E c \in Item!ToSet(decl) : Item!IsDepending(c)
             THEN LET c == CHOOSE c \in Item!ToSet(decl) : Item!IsDepending(c)
                  IN  [min |-> c[2], max |-> c[4], on |-> Item!Last(c)]
             ELSE None
  <2>1. \A c : c \in Item!ToSet(decl) /\ Item!IsDepending(c) <=> \E k \in VariableTables(d) : c = d[k]
    BY <1>2 DEF VariableTables
  <2>2. CASE VariableTables(d) = {}
    BY <1>11, <2>1, <2>2, Zenon
  <2>3. CASE VariableTables(d) # {}
    <3>. DEFINE x == CHOOSE c \in Item!ToSet(decl) : Item!IsDepending(c)
    <3>1. \E c \in Item!ToSet(decl) : Item!IsDepending(c)
      BY <2>1, <2>3, Zenon
    <3>2. x \in Item!ToSet(decl) /\ Item!IsDepending(x)
      BY <3>1, Zenon
    <3>. HIDE DEF x
    <3>3. PICK k \in VariableTables(d) : x = d[k]
      BY <2>1, <3>2, Zenon
    <3>. QED BY <1>11, <3>1, <3>3, Zenon DEF x
  <2>. QED BY <2>2, <2>3
<1>. QED BY <1>13, <1>14, <1>15, <1>16, <1>17, <1>18
            DEF Item!ReadsEachClause, Item!ReadOf

-----------------------------------------------------------------------------
(* The tokens that each value of a line is written with.                    *)
WrittenAs(l) == [k \in DOMAIN l.values |-> Cond!Written(l.values[k])]

(* The condition lines that every value is read of.                         *)
Understood(l) ==
  /\ l.keyword \in {"VALUE", "value"} /\ l.name \notin DOMAIN TailOf
  /\ \A k \in DOMAIN l.values : Head(Cond!Written(l.values[k])) # Cond!Word("THRU")

Tokens == Cond!Token \cup {Cond!Word("THRU")}

LEMMA ValueWritten ==
  ASSUME NEW v \in Cond!Value
  PROVE  /\ Cond!Written(v) \in Seq(Tokens)
         /\ \/ /\ Len(Cond!Written(v)) = 1 /\ v = Cond!One(Cond!Written(v)[1])
            \/ /\ Len(Cond!Written(v)) = 3 /\ v = Cond!Thru(Cond!Written(v)[1], Cond!Written(v)[3])
               /\ Cond!Written(v)[2] = Cond!Word("THRU")
         /\ Head(Cond!Written(v)) = Cond!Written(v)[1]
<1>1. CASE v \in [kind : {"one"}, of : Cond!Token]
  <2>1. v = [kind |-> "one", of |-> v.of] /\ v.of \in Cond!Token /\ v.kind = "one"
    BY <1>1
  <2>2. Cond!Written(v) = <<v.of>>
    BY <2>1 DEF Cond!Written
  <2>. QED BY <2>1, <2>2 DEF Cond!One, Tokens
<1>2. CASE v \in [kind : {"range"}, from : Cond!Token, to : Cond!Token]
  <2>1. /\ v = [kind |-> "range", from |-> v.from, to |-> v.to]
        /\ v.from \in Cond!Token /\ v.to \in Cond!Token /\ v.kind = "range"
    BY <1>2
  <2>2. Cond!Written(v) = <<v.from, Cond!Word("THRU"), v.to>>
    BY <2>1 DEF Cond!Written
  <2>. QED BY <2>1, <2>2 DEF Cond!Thru, Tokens
<1>. QED BY <1>1, <1>2 DEF Cond!Value

LEMMA LineTypes ==
  ASSUME NEW l \in ConditionLines
  PROVE  /\ l.values \in Seq(Cond!Value) /\ Len(l.values) \in Nat
         /\ DOMAIN l.values = 1..Len(l.values)
         /\ WrittenAs(l) \in Seq(Seq(Tokens)) /\ DOMAIN WrittenAs(l) = 1..Len(l.values)
         /\ Len(WrittenAs(l)) = Len(l.values)
         /\ \A k \in 1..Len(l.values) :
              l.values[k] \in Cond!Value /\ WrittenAs(l)[k] = Cond!Written(l.values[k])
         /\ Pieces(WrittenAs(l), FlattenSeq(WrittenAs(l)), StartOf(WrittenAs(l)))
         /\ FlattenSeq(WrittenAs(l)) \in Seq(Tokens)
<1>1. l.values \in Seq(Cond!Value)
  BY ConditionLinesTyped DEF Cond!LinesTyped
<1>2. /\ DOMAIN l.values = 1..Len(l.values) /\ Len(l.values) \in Nat
      /\ \A k \in 1..Len(l.values) : l.values[k] \in Cond!Value
  BY <1>1
<1>3. WrittenAs(l) = [k \in 1..Len(l.values) |-> Cond!Written(l.values[k])]
  BY <1>2 DEF WrittenAs
<1>4. \A k \in 1..Len(l.values) : Cond!Written(l.values[k]) \in Seq(Tokens)
  BY <1>2, ValueWritten
<1>5. WrittenAs(l) \in Seq(Seq(Tokens)) /\ Len(WrittenAs(l)) = Len(l.values)
  BY <1>2, <1>3, <1>4
<1>. QED BY <1>1, <1>2, <1>3, <1>5, Flattened

(* The first values are read, the next is the one at whose first token      *)
(* reading stands; the outcome is told when none is left.                   *)
ValuesRead(l) ==
  /\ values \in Seq(Cond!Value) /\ Len(values) <= Len(l.values)
  /\ \A k \in 1..Len(values) : values[k] = l.values[k]
  /\ outcome = "reading" => at = StartOf(WrittenAs(l))[Len(values) + 1] + 1
  /\ outcome # "reading" =>
       Len(values) = Len(l.values) /\ outcome = IF values = <<>> THEN "none" ELSE "some"

ValuesInv == line \in ConditionLines /\ (Understood(line) => ValuesRead(line))

LEMMA TokensAre ==
  ASSUME NEW l \in ConditionLines, l = line, Understood(l)
  PROVE  Cond!Tokens = FlattenSeq(WrittenAs(l)) /\ Cond!IsCondition
<1>1. Cond!Body = FlattenSeq(WrittenAs(l))
  BY DEF Cond!Body, WrittenAs, Cond!FlattenSeq, FlattenSeq
<1>. QED BY <1>1 DEF Cond!Tokens, Cond!IsCondition, Understood

(* Reading stands at the first token of value k: what is there.             *)
LEMMA TokensAhead ==
  ASSUME NEW l \in ConditionLines, l = line, Understood(l), NEW k \in 1..Len(l.values),
         at = StartOf(WrittenAs(l))[k] + 1
  PROVE  /\ \/ /\ ~Cond!IsRange /\ l.values[k] = Cond!One(Cond!Tokens[at])
               /\ at + 1 = StartOf(WrittenAs(l))[k + 1] + 1
            \/ /\ Cond!IsRange /\ l.values[k] = Cond!Thru(Cond!Tokens[at], Cond!Tokens[at + 2])
               /\ at + 3 = StartOf(WrittenAs(l))[k + 1] + 1
         /\ at <= Len(Cond!Tokens)
<1>. DEFINE d == WrittenAs(l)
            s == StartOf(d)
            w == FlattenSeq(d)
            v == l.values[k]
<1>1. /\ DOMAIN d = 1..Len(l.values) /\ Len(d) = Len(l.values) /\ Len(l.values) \in Nat
      /\ Pieces(d, w, s) /\ v \in Cond!Value /\ d[k] = Cond!Written(v)
      /\ w \in Seq(Tokens) /\ DOMAIN l.values = 1..Len(l.values)
  BY LineTypes
<1>2. Cond!Tokens = w /\ Len(w) \in Nat
  BY <1>1, TokensAre
<1>3. /\ s[k] \in Nat /\ s[k + 1] = s[k] + Len(d[k]) /\ s[k] + Len(d[k]) <= Len(w)
      /\ \A q \in 1..Len(d[k]) : w[s[k] + q] = d[k][q]
      /\ s[Len(d) + 1] = Len(w) /\ Len(d[k]) \in Nat
  <2>. HIDE DEF d, s, w, v
  <2>1. Pieces(d, w, s) /\ k \in DOMAIN d /\ k \in 1..(Len(d) + 1)
    BY <1>1
  <2>2. Len(d[k]) \in Nat
    <3>1. d[k] \in Seq(Tokens)
      BY <1>1, ValueWritten
    <3>. QED BY <3>1
  <2>. QED BY <2>1, <2>2 DEF Pieces
<1>. HIDE DEF d, s, w, v
<1>4. at = s[k] + 1
  BY DEF d, s
<1>5. CASE Len(d[k]) = 1 /\ v = Cond!One(d[k][1])
  <2>1. w[at] = d[k][1] /\ at + 1 = s[k + 1] + 1 /\ at <= Len(w)
    BY <1>2, <1>3, <1>4, <1>5
  <2>2. ~Cond!IsRange
    <3>. SUFFICES ASSUME at + 2 <= Len(w), w[at + 1] = Cond!Word("THRU") PROVE FALSE
      BY <1>2 DEF Cond!IsRange
    <3>1. s[k + 1] + 2 <= Len(w) /\ at + 1 = s[k + 1] + 1 /\ s[k + 1] \in Nat
      BY <1>2, <1>3, <1>4, <1>5, SMTT(20)
    <3>2. s[k + 1] # Len(w)
      BY <1>2, <3>1
    <3>3. k + 1 \in 1..Len(l.values)
      <4>1. k # Len(d)
        BY <1>3, <3>2
      <4>. QED BY <1>1, <4>1
    <3>4. d[k + 1] = Cond!Written(l.values[k + 1]) /\ l.values[k + 1] \in Cond!Value
      BY <3>3, LineTypes DEF d
    <3>5. Len(d[k + 1]) >= 1 /\ d[k + 1][1] # Cond!Word("THRU")
      <4>1. Len(d[k + 1]) \in {1, 3} /\ Head(d[k + 1]) = d[k + 1][1]
        BY <3>4, ValueWritten
      <4>2. Head(d[k + 1]) # Cond!Word("THRU")
        BY <1>1, <3>3, <3>4 DEF Understood
      <4>. QED BY <4>1, <4>2
    <3>6. 1 \in 1..Len(d[k + 1])
      BY <3>4, <3>5, ValueWritten
    <3>7. w[s[k + 1] + 1] = d[k + 1][1]
      BY <1>1, <3>3, <3>6 DEF Pieces
    <3>. QED BY <3>1, <3>5, <3>7
  <2>. QED BY <1>2, <1>5, <2>1, <2>2 DEF v, s, d
<1>6. CASE Len(d[k]) = 3 /\ v = Cond!Thru(d[k][1], d[k][3]) /\ d[k][2] = Cond!Word("THRU")
  <2>1. /\ w[s[k] + 1] = d[k][1] /\ w[s[k] + 2] = d[k][2] /\ w[s[k] + 3] = d[k][3]
    BY <1>3, <1>6
  <2>2. at + 1 = s[k] + 2 /\ at + 2 = s[k] + 3 /\ at + 2 <= Len(w) /\ at + 3 = s[k + 1] + 1
        /\ at <= Len(w)
    <3>1. s[k + 1] = s[k] + 3 /\ s[k] + 3 <= Len(w)
      BY <1>3, <1>6
    <3>. QED BY <1>2, <1>3, <1>4, <3>1, SMTT(20)
  <2>3. Cond!IsRange
    BY <1>2, <1>6, <2>1, <2>2 DEF Cond!IsRange
  <2>. QED BY <1>2, <1>4, <1>6, <2>1, <2>2, <2>3 DEF v, s, d
<1>. QED BY <1>1, <1>5, <1>6, ValueWritten

LEMMA ValueStep == ValuesInv /\ Cond!Next => ValuesInv'
<1>. SUFFICES ASSUME ValuesInv, Cond!Next PROVE ValuesInv'
  OBVIOUS
<1>1. line' = line
  BY DEF Cond!Next, Cond!Refuse, Cond!ReadRange, Cond!ReadLiteral, Cond!Finish, Cond!Terminated,
         Cond!vars
<1>2. PICK l \in ConditionLines : l = line
  BY DEF ValuesInv
<1>. SUFFICES ASSUME Understood(l) PROVE ValuesRead(l)'
  BY <1>1, <1>2 DEF ValuesInv
<1>. DEFINE s == StartOf(WrittenAs(l))
            n == Len(values) + 1
<1>3. /\ ValuesRead(l) /\ values \in Seq(Cond!Value) /\ Len(values) \in Nat
      /\ Len(l.values) \in Nat /\ Len(values) <= Len(l.values)
      /\ \A k \in 1..Len(values) : values[k] = l.values[k]
      /\ Cond!IsCondition
  BY <1>2, LineTypes, TokensAre DEF ValuesInv, ValuesRead
<1>4. ASSUME outcome = "reading", at <= Len(Cond!Tokens)
      PROVE  n \in 1..Len(l.values)
  <2>1. s[Len(l.values) + 1] = Len(Cond!Tokens) /\ Len(Cond!Tokens) \in Nat
    <3>1. /\ Pieces(WrittenAs(l), FlattenSeq(WrittenAs(l)), s) /\ Len(WrittenAs(l)) = Len(l.values)
          /\ Len(FlattenSeq(WrittenAs(l))) \in Nat
      BY LineTypes
    <3>. QED BY <1>2, <3>1, TokensAre DEF Pieces
  <2>2. n # Len(l.values) + 1
    BY <1>3, <1>4, <2>1 DEF ValuesRead
  <2>. QED BY <1>3, <2>2
<1>5. ASSUME NEW v, values' = Append(values, v), n \in 1..Len(l.values), v = l.values[n],
             outcome' = "reading", at' = s[n + 1] + 1
      PROVE  ValuesRead(l)'
  <2>1. v \in Cond!Value
    BY <1>5, LineTypes
  <2>2. values' \in Seq(Cond!Value) /\ Len(values') = n
        /\ \A k \in 1..n : values'[k] = IF k = n THEN v ELSE values[k]
    BY <1>3, <1>5, <2>1
  <2>3. n <= Len(l.values) /\ \A k \in 1..n : k # n => k \in 1..Len(values)
    BY <1>3, <1>5
  <2>. QED BY <1>3, <1>5, <2>2, <2>3 DEF ValuesRead
<1>6. CASE Cond!ReadRange
  <2>1. outcome = "reading" /\ at <= Len(Cond!Tokens) /\ Cond!IsRange /\ outcome' = "reading"
    BY <1>6 DEF Cond!ReadRange, Cond!Reading
  <2>2. n \in 1..Len(l.values) /\ at = s[n] + 1
    BY <1>3, <1>4, <2>1 DEF ValuesRead
  <2>3. l.values[n] = Cond!Thru(Cond!Tokens[at], Cond!Tokens[at + 2]) /\ at + 3 = s[n + 1] + 1
    BY <1>2, <2>1, <2>2, TokensAhead
  <2>. QED BY <1>5, <1>6, <2>1, <2>2, <2>3 DEF Cond!ReadRange
<1>7. CASE Cond!ReadLiteral
  <2>1. outcome = "reading" /\ at <= Len(Cond!Tokens) /\ ~Cond!IsRange /\ outcome' = "reading"
    BY <1>7 DEF Cond!ReadLiteral, Cond!Reading
  <2>2. n \in 1..Len(l.values) /\ at = s[n] + 1
    BY <1>3, <1>4, <2>1 DEF ValuesRead
  <2>3. l.values[n] = Cond!One(Cond!Tokens[at]) /\ at + 1 = s[n + 1] + 1
    BY <1>2, <2>1, <2>2, TokensAhead
  <2>. QED BY <1>5, <1>7, <2>1, <2>2, <2>3 DEF Cond!ReadLiteral
<1>8. CASE Cond!Finish
  <2>1. outcome = "reading" /\ ~(at <= Len(Cond!Tokens)) /\ values' = values
        /\ outcome' = IF values = <<>> THEN "none" ELSE "some"
    <3>1. Len(Cond!Tokens) \in Nat
      <4>1. Len(FlattenSeq(WrittenAs(l))) \in Nat
        BY LineTypes
      <4>. QED BY <1>2, <4>1, TokensAre
    <3>2. at \in Nat
      <4>1. s \in [1..(Len(l.values) + 1) -> Nat]
        BY LineTypes DEF Pieces
      <4>2. n \in 1..(Len(l.values) + 1)
        BY <1>3
      <4>. QED BY <1>3, <1>8, <4>1, <4>2 DEF ValuesRead, Cond!Finish
    <3>. QED BY <1>8, <3>1, <3>2 DEF Cond!Finish
  <2>2. Len(values) = Len(l.values)
    <3>1. n \notin 1..Len(l.values)
      BY <1>2, <1>3, <2>1, TokensAhead DEF ValuesRead
    <3>. QED BY <1>3, <3>1
  <2>. QED BY <1>3, <2>1, <2>2 DEF ValuesRead
<1>9. CASE Cond!Terminated
  BY <1>3, <1>9 DEF Cond!Terminated, Cond!vars, ValuesRead
<1>10. ~Cond!Refuse
  BY <1>3 DEF Cond!Refuse
<1>. QED BY <1>6, <1>7, <1>8, <1>9, <1>10 DEF Cond!Next

LEMMA ValueStart == Cond!Init => ValuesInv
<1>. SUFFICES ASSUME Cond!Init PROVE ValuesInv
  OBVIOUS
<1>1. PICK l \in ConditionLines : l = line
  BY DEF Cond!Init
<1>2. /\ StartOf(WrittenAs(l))[1] = 0 /\ Len(l.values) \in Nat
  BY LineTypes DEF Pieces
<1>. QED BY <1>1, <1>2 DEF ValuesInv, ValuesRead, Cond!Init

LEMMA AllValuesRead == ValuesInv => Cond!ReadsEachValue
<1>. SUFFICES ASSUME ValuesInv, outcome # "reading", Understood(line)
              PROVE  values = line.values /\ outcome = IF line.values = <<>> THEN "none" ELSE "some"
  BY DEF Cond!ReadsEachValue, Understood
<1>1. /\ values \in Seq(Cond!Value) /\ Len(values) = Len(line.values)
      /\ \A k \in 1..Len(values) : values[k] = line.values[k]
      /\ outcome = IF values = <<>> THEN "none" ELSE "some"
  BY DEF ValuesInv, ValuesRead
<1>2. line.values \in Seq(Cond!Value)
  BY LineTypes DEF ValuesInv
<1>3. values = line.values
  BY <1>1, <1>2
<1>. QED BY <1>1, <1>3

-----------------------------------------------------------------------------
(* The clauses of a declaration and the values of a condition are read each *)
(* from its own words, in whatever order and however many there are.        *)
ClausesInv ==
  /\ level = "words" =>
       decl \in Declarations /\ (Formed(decl) => ReadTo(decl, StartOf(decl)))
  /\ level = "values" => ValuesInv

(* parse_item reads each clause of a well-formed declaration from its own   *)
(* words and no other's, and parse_88 each value of a condition from its    *)
(* own tokens: for declarations and conditions of any length.               *)
THEOREM ClausesRead == Spec => []ReadsEachClause
<1>1. \A d \in Declarations : d \in Seq(Seq(STRING)) /\ Pieces(d, FlattenSeq(d), StartOf(d))
  BY DeclarationsTyped, Flattened DEF Item!DeclarationsTyped
<1>2. Init => ClausesInv
  <2>1. level = "words" /\ Item!Init /\ Formed(decl) => ReadTo(decl, StartOf(decl))
    BY <1>1, NothingRead DEF Item!Init
  <2>. QED BY <2>1, ValueStart DEF Init, ClausesInv, Item!Init
<1>3. ClausesInv /\ [Next]_vars => ClausesInv'
  <2>. SUFFICES ASSUME ClausesInv, [Next]_vars PROVE ClausesInv'
    OBVIOUS
  <2>1. CASE UNCHANGED vars
    BY <2>1 DEF vars, wordVars, valueVars, ClausesInv, ReadTo, ValuesInv, ValuesRead
  <2>2. CASE level = "words" /\ Item!Next /\ level' = level
    <3>1. decl' = decl /\ decl \in Declarations
      BY <2>2 DEF ClausesInv, Item!Next, Item!ReadPicture, Item!ReadUsage, Item!ReadDepending,
         Item!ReadOccurs, Item!ReadRedefines, Item!ReadSign, Item!PassOver, Item!Terminated,
         Item!vars
    <3>2. PICK d \in Declarations : d = decl
      BY <3>1
    <3>3. ASSUME Formed(d) PROVE ReadTo(d, StartOf(d))'
      <4>1. ReadTo(d, StartOf(d))
        BY <2>2, <3>2, <3>3 DEF ClausesInv
      <4>2. d \in Seq(Seq(STRING)) /\ Pieces(d, FlattenSeq(d), StartOf(d))
        BY <1>1
      <4>. QED BY <2>2, <3>2, <3>3, <4>1, <4>2, ClauseStep
    <3>4. level' = "words" /\ decl' = d /\ d \in Declarations
      BY <2>2, <3>1, <3>2
    <3>. QED BY <3>3, <3>4 DEF ClausesInv, ReadTo
  <2>3. CASE level = "values" /\ Cond!Next /\ level' = level
    BY <2>3, ValueStep DEF ClausesInv
  <2>4. CASE level \notin {"words", "values"} /\ level' = level
    BY <2>4 DEF ClausesInv
  <2>. QED BY <2>1, <2>2, <2>3, <2>4 DEF Next
<1>4. ClausesInv => ReadsEachClause
  <2>. SUFFICES ASSUME ClausesInv PROVE ReadsEachClause
    OBVIOUS
  <2>1. ASSUME level = "words" PROVE Item!ReadsEachClause
    <3>1. CASE ~Item!More /\ Item!WellFormed
      <4>1. /\ decl \in Seq(Seq(STRING)) /\ Pieces(decl, FlattenSeq(decl), StartOf(decl))
        BY <1>1, <2>1 DEF ClausesInv
      <4>2. Formed(decl)
        BY <3>1, <4>1, WellFormedIsFormed
      <4>. QED BY <2>1, <3>1, <4>1, <4>2, AllClausesRead DEF ClausesInv
    <3>2. CASE ~(~Item!More /\ Item!WellFormed)
      BY <3>2, Zenon DEF Item!ReadsEachClause
    <3>. QED BY <3>1, <3>2
  <2>2. level = "values" => Cond!ReadsEachValue
    BY AllValuesRead DEF ClausesInv
  <2>. QED BY <2>1, <2>2 DEF ReadsEachClause
<1>. QED BY <1>2, <1>3, <1>4, PTL DEF Spec

-----------------------------------------------------------------------------
(* What the views of a record are read from: sums, least and greatest       *)
(* places, and the layout as its recursions define it.                      *)
LEMMA MostIn ==
  ASSUME NEW S, NEW b \in Nat, S \subseteq 0..b, S # {}
  PROVE  /\ Views!Max(S) \in S
         /\ \A j \in S : j <= Views!Max(S)
<1>1. PICK k \in {b - x : x \in S} : \A j \in {b - x : x \in S} : k <= j
  <2>1. \A x \in S : b - x \in Nat
    OBVIOUS
  <2>2. {b - x : x \in S} \subseteq Nat /\ {b - x : x \in S} # {}
    BY <2>1
  <2>. QED BY <2>2, LeastIn
<1>2. PICK x \in S : k = b - x
  BY <1>1
<1>3. ASSUME NEW y \in S PROVE x >= y
  <2>1. b - x <= b - y
    BY <1>1, <1>2
  <2>2. x \in Int /\ y \in Int
    OBVIOUS
  <2>. QED BY <2>1, <2>2
<1>4. \E z \in S : \A y \in S : z >= y
  BY <1>3
<1>5. Views!Max(S) \in S /\ \A y \in S : Views!Max(S) >= y
  BY <1>4 DEF Views!Max
<1>6. \A y \in S : y \in Int
  OBVIOUS
<1>. QED BY <1>5, <1>6

Adding(t, s, k) == IF k = 0 THEN 0 ELSE s[k - 1] + t[k]
AddsUp(t, s, m) == s = [k \in 0..m |-> Adding(t, s, k)]

LEMMA OneTermMore ==
  ASSUME NEW t, NEW s, NEW m \in Nat \ {0}, AddsUp(t, s, m - 1)
  PROVE  \E r : AddsUp(t, r, m)
<1>. DEFINE more == [k \in 0..m |-> IF k = m THEN s[m - 1] + t[m] ELSE s[k]]
<1>1. /\ \A k \in 0..m : more[k] = IF k = m THEN s[m - 1] + t[m] ELSE s[k]
      /\ DOMAIN more = 0..m /\ more = [k \in 0..m |-> more[k]]
  OBVIOUS
<1>. HIDE DEF more
<1>2. more[m] = Adding(t, more, m)
  BY <1>1 DEF Adding
<1>3. ASSUME NEW k \in 0..(m - 1) PROVE more[k] = Adding(t, more, k)
  <2>1. s[k] = Adding(t, s, k)
    BY DEF AddsUp
  <2>2. more[k] = s[k] /\ k \in 0..m
    BY <1>1
  <2>3. k # 0 => k - 1 \in 0..m /\ more[k - 1] = s[k - 1]
    BY <1>1
  <2>. QED BY <2>1, <2>2, <2>3 DEF Adding
<1>4. \A k \in 0..m : more[k] = Adding(t, more, k)
  BY <1>2, <1>3
<1>. QED BY <1>1, <1>4 DEF AddsUp

LEMMA SumsAddUp ==
  ASSUME NEW t, Len(t) \in Nat
  PROVE  AddsUp(t, Views!Sums(t), Len(t))
<1>. DEFINE open == {m \in 0..Len(t) : ~\E s : AddsUp(t, s, m)}
<1>1. open = {}
  <2>. SUFFICES ASSUME open # {} PROVE FALSE
    OBVIOUS
  <2>1. PICK m \in open : \A j \in open : m <= j
    <3>1. open \subseteq Nat
      OBVIOUS
    <3>. HIDE DEF open
    <3>. QED BY <3>1, LeastIn
  <2>2. m # 0
    <3>1. AddsUp(t, [k \in 0..0 |-> 0], 0)
      BY DEF AddsUp, Adding
    <3>. QED BY <2>1, <3>1
  <2>3. m \in Nat \ {0} /\ m - 1 \in 0..Len(t)
    BY <2>1, <2>2
  <2>4. m - 1 \notin open
    <3>. HIDE DEF open
    <3>. QED BY <2>1, <2>3
  <2>. QED BY <2>1, <2>3, <2>4, OneTermMore
<1>2. \E s : AddsUp(t, s, Len(t))
  BY <1>1
<1>3. Views!Sums(t) = CHOOSE s : AddsUp(t, s, Len(t))
  BY DEF Views!Sums, AddsUp, Adding
<1>. QED BY <1>2, <1>3

LEMMA EachSum ==
  ASSUME NEW t \in Seq(Nat)
  PROVE  /\ Len(t) \in Nat /\ DOMAIN t = 1..Len(t)
         /\ Views!Sums(t)[0] = 0
         /\ \A k \in 1..Len(t) : t[k] \in Nat
         /\ \A k \in 1..Len(t) :
              k - 1 \in 0..Len(t) /\ Views!Sums(t)[k] = Views!Sums(t)[k - 1] + t[k]
         /\ \A k \in 0..Len(t) : Views!Sums(t)[k] \in Nat
<1>. DEFINE s == Views!Sums(t)
            bad == {k \in 0..Len(t) : s[k] \notin Nat}
<1>1. Len(t) \in Nat /\ DOMAIN t = 1..Len(t) /\ \A k \in 1..Len(t) : t[k] \in Nat
  OBVIOUS
<1>2. \A k \in 0..Len(t) : s[k] = Adding(t, s, k)
  <2>1. AddsUp(t, s, Len(t))
    BY <1>1, SumsAddUp
  <2>. HIDE DEF s
  <2>. QED BY <2>1 DEF AddsUp
<1>. HIDE DEF s
<1>3. s[0] = 0
  BY <1>1, <1>2 DEF Adding
<1>4. \A k \in 1..Len(t) : k - 1 \in 0..Len(t) /\ s[k] = s[k - 1] + t[k]
  BY <1>1, <1>2 DEF Adding
<1>5. bad = {}
  <2>. SUFFICES ASSUME bad # {} PROVE FALSE
    OBVIOUS
  <2>1. PICK k \in bad : \A j \in bad : k <= j
    <3>1. bad \subseteq Nat
      OBVIOUS
    <3>. HIDE DEF bad
    <3>. QED BY <3>1, LeastIn
  <2>2. k \in 1..Len(t) /\ k - 1 \notin bad
    BY <1>3, <2>1
  <2>. QED BY <1>1, <1>4, <2>1, <2>2
<1>. QED BY <1>1, <1>3, <1>4, <1>5 DEF s

(* The sums never fall. *)
LEMMA SumsRise ==
  ASSUME NEW t \in Seq(Nat), NEW a \in 0..Len(t), NEW b \in 0..Len(t), a <= b
  PROVE  Views!Sums(t)[a] <= Views!Sums(t)[b]
<1>. DEFINE s == Views!Sums(t)
            n == Len(t)
            bad == {k \in 0..n : a <= k /\ ~(s[a] <= s[k])}
<1>1. /\ n \in Nat
      /\ \A k \in 1..n : k - 1 \in 0..n /\ s[k] = s[k - 1] + t[k] /\ t[k] \in Nat
      /\ \A k \in 0..n : s[k] \in Nat
  BY EachSum
<1>2. a \in 0..n /\ b \in 0..n
  OBVIOUS
<1>. HIDE DEF s, n
<1>3. bad = {}
  <2>. SUFFICES ASSUME bad # {} PROVE FALSE
    OBVIOUS
  <2>1. PICK k \in bad : \A j \in bad : k <= j
    <3>1. bad \subseteq Nat
      BY <1>1
    <3>. HIDE DEF bad
    <3>. QED BY <3>1, LeastIn
  <2>2. k # a
    BY <1>1, <1>2, <2>1
  <2>3. k \in 1..n /\ a <= k - 1 /\ k - 1 \in 0..n
    BY <1>1, <1>2, <2>1, <2>2
  <2>4. k - 1 \notin bad
    <3>1. k - 1 < k
      BY <2>3
    <3>. HIDE DEF bad
    <3>. QED BY <2>1, <2>3, <3>1, <1>1
  <2>5. s[a] <= s[k - 1]
    BY <2>3, <2>4
  <2>6. s[k] = s[k - 1] + t[k] /\ t[k] \in Nat /\ s[k - 1] \in Nat /\ s[a] \in Nat
    BY <1>1, <1>2, <2>3
  <2>7. s[a] <= s[k]
    BY <2>5, <2>6
  <2>. QED BY <2>1, <2>7
<1>. QED BY <1>2, <1>3 DEF s

(* Over terms that are 0 they stay. *)
LEMMA SumsStay ==
  ASSUME NEW t \in Seq(Nat), NEW a \in 0..Len(t), NEW b \in 0..Len(t), a <= b,
         \A k \in (a + 1)..b : t[k] = 0
  PROVE  Views!Sums(t)[b] = Views!Sums(t)[a]
<1>. DEFINE s == Views!Sums(t)
            n == Len(t)
            bad == {k \in a..b : s[k] # s[a]}
<1>1. /\ n \in Nat
      /\ \A k \in 1..n : k - 1 \in 0..n /\ s[k] = s[k - 1] + t[k]
      /\ \A k \in 0..n : s[k] \in Nat
  BY EachSum
<1>2. a \in 0..n /\ b \in 0..n
  OBVIOUS
<1>. HIDE DEF s, n
<1>3. bad = {}
  <2>. SUFFICES ASSUME bad # {} PROVE FALSE
    OBVIOUS
  <2>1. PICK k \in bad : \A j \in bad : k <= j
    <3>1. bad \subseteq Nat
      BY <1>1, <1>2
    <3>. HIDE DEF bad
    <3>. QED BY <3>1, LeastIn
  <2>2. k # a
    BY <2>1
  <2>3. k \in (a + 1)..b /\ k - 1 \in a..b /\ k \in 1..n
    BY <1>1, <1>2, <2>1, <2>2
  <2>4. k - 1 \notin bad
    <3>1. k - 1 < k
      BY <2>3
    <3>. HIDE DEF bad
    <3>. QED BY <2>1, <2>3, <3>1, <1>1, <1>2
  <2>5. s[k - 1] = s[a] /\ t[k] = 0
    BY <2>3, <2>4
  <2>6. s[k] = s[k - 1] + t[k] /\ s[a] \in Nat
    BY <1>1, <1>2, <2>3
  <2>. QED BY <2>1, <2>5, <2>6
<1>4. b \in a..b
  BY <1>1, <1>2
<1>. QED BY <1>3, <1>4 DEF s

-----------------------------------------------------------------------------
Shaped(d) ==
  /\ Len(d) \in Nat /\ DOMAIN d = 1..Len(d)
  /\ \A k \in 1..Len(d) : d[k].level \in Nat /\ d[k].size \in Nat /\ d[k].name # NoName

(* The group of an item is the nearest line above it of a lower level. *)
LEMMA ParentIs ==
  ASSUME NEW d, Shaped(d), NEW k \in 1..Len(d)
  PROVE  /\ Views!Parent(d, k) \in 0..(k - 1)
         /\ Views!Parent(d, k) # 0 => d[Views!Parent(d, k)].level < d[k].level
         /\ \A j \in 1..(k - 1) : Views!Parent(d, k) < j => d[k].level <= d[j].level
<1>. DEFINE above == Views!Above(d, k)
            p == Views!Parent(d, k)
<1>1. k \in Nat /\ k - 1 \in Nat /\ above \subseteq 0..(k - 1) /\ above \subseteq 1..(k - 1)
  BY DEF Shaped, Views!Above
<1>2. \A j \in 1..(k - 1) : j \notin above => d[k].level <= d[j].level
  <2>1. \A j \in 1..(k - 1) : d[j].level \in Nat /\ d[k].level \in Nat
    BY DEF Shaped
  <2>. QED BY <2>1 DEF Views!Above
<1>3. CASE above = {}
  <2>1. p = 0
    BY <1>3 DEF Views!Parent
  <2>. QED BY <1>1, <1>2, <1>3, <2>1
<1>4. CASE above # {}
  <2>1. p = Views!Max(above)
    BY <1>4 DEF Views!Parent
  <2>2. p \in above /\ \A j \in above : j <= p
    BY <1>1, <1>4, <2>1, MostIn
  <2>3. d[p].level < d[k].level
    BY <2>2 DEF Views!Above
  <2>4. \A j \in 1..(k - 1) : p < j => j \notin above
    BY <1>1, <2>2
  <2>. QED BY <1>1, <1>2, <2>2, <2>3, <2>4
<1>. QED BY <1>3, <1>4

SizedBy(d, s, k) ==
  IF Views!Elementary(d[k]) THEN d[k].size ELSE Views!Total(Views!OwnSizes(d, s, k))

(* A table that is right below place m, where items under an item are. *)
SizedFrom(d, s, m) ==
  /\ s = [k \in 1..Len(d) |-> s[k]]
  /\ \A k \in 1..Len(d) : m < k => s[k] = SizedBy(d, s, k)

LEMMA SizedAlike ==
  ASSUME NEW d, NEW s, NEW t, NEW k,
         \A j \in 1..Len(d) : Views!Parent(d, j) = k => s[j] = t[j]
  PROVE  SizedBy(d, s, k) = SizedBy(d, t, k)
<1>1. Views!OwnSizes(d, s, k) = Views!OwnSizes(d, t, k)
  BY DEF Views!OwnSizes
<1>. QED BY <1>1 DEF SizedBy

LEMMA OneMoreSized ==
  ASSUME NEW d, Shaped(d), NEW s, NEW m \in 1..Len(d), SizedFrom(d, s, m)
  PROVE  \E t : SizedFrom(d, t, m - 1)
<1>. DEFINE t == [k \in 1..Len(d) |-> IF k = m THEN SizedBy(d, s, m) ELSE s[k]]
<1>1. /\ t = [k \in 1..Len(d) |-> t[k]]
      /\ \A k \in 1..Len(d) : t[k] = IF k = m THEN SizedBy(d, s, m) ELSE s[k]
  OBVIOUS
<1>. HIDE DEF t
<1>2. ASSUME NEW k \in 1..Len(d), m - 1 < k PROVE t[k] = SizedBy(d, t, k)
  <2>1. m <= k /\ m \in Nat /\ k \in Nat /\ Len(d) \in Nat
    BY <1>2 DEF Shaped
  <2>2. ASSUME NEW j \in 1..Len(d), Views!Parent(d, j) = k PROVE s[j] = t[j]
    <3>1. k \in 0..(j - 1)
      BY <2>2, ParentIs
    <3>2. j # m
      BY <2>1, <3>1
    <3>. QED BY <1>1, <3>2
  <2>3. SizedBy(d, s, k) = SizedBy(d, t, k)
    BY <2>2, SizedAlike
  <2>4. CASE k = m
    BY <1>1, <2>3, <2>4
  <2>5. CASE k # m
    <3>1. m < k
      BY <2>1, <2>5
    <3>. QED BY <1>1, <2>3, <2>5, <3>1 DEF SizedFrom
  <2>. QED BY <2>4, <2>5
<1>. QED BY <1>1, <1>2 DEF SizedFrom

LEMMA SizesAre ==
  ASSUME NEW d, Shaped(d)
  PROVE  \A k \in 1..Len(d) : Views!Sizes(d)[k] = SizedBy(d, Views!Sizes(d), k)
<1>. DEFINE n == Len(d)
            open == {m \in 0..n : ~\E s : SizedFrom(d, s, n - m)}
<1>0. n \in Nat
  BY DEF Shaped
<1>1. open = {}
  <2>. SUFFICES ASSUME open # {} PROVE FALSE
    OBVIOUS
  <2>1. PICK m \in open : \A j \in open : m <= j
    <3>1. open \subseteq Nat
      OBVIOUS
    <3>. HIDE DEF open
    <3>. QED BY <3>1, LeastIn
  <2>2. m # 0
    <3>1. SizedFrom(d, [k \in 1..n |-> 0], n - 0)
      BY <1>0 DEF SizedFrom
    <3>. QED BY <2>1, <3>1
  <2>3. m \in 0..n /\ m - 1 \in 0..n /\ m - 1 < m /\ n - (m - 1) \in 1..n /\ (n - (m - 1)) - 1 = n - m
    BY <1>0, <2>1, <2>2
  <2>4. m - 1 \notin open
    <3>. HIDE DEF open, n
    <3>. QED BY <1>0, <2>1, <2>3
  <2>5. PICK s : SizedFrom(d, s, n - (m - 1))
    BY <2>3, <2>4
  <2>6. \E t : SizedFrom(d, t, n - m)
    <3>. HIDE DEF open
    <3>1. n - (m - 1) \in 1..Len(d)
      BY <2>3
    <3>. HIDE DEF n
    <3>2. \E t : SizedFrom(d, t, (n - (m - 1)) - 1)
      BY <2>5, <3>1, OneMoreSized
    <3>. QED BY <2>3, <3>2
  <2>. QED BY <2>1, <2>6
<1>2. \E s : SizedFrom(d, s, 0)
  <2>1. n \in 0..n /\ n \notin open /\ n - n = 0
    BY <1>0, <1>1
  <2>. QED BY <2>1
<1>3. \E s : s = [k \in 1..n |-> SizedBy(d, s, k)]
  <2>1. PICK s : SizedFrom(d, s, 0)
    BY <1>2
  <2>2. \A k \in 1..n : s[k] = SizedBy(d, s, k)
    BY <2>1, <1>0 DEF SizedFrom
  <2>3. s = [k \in 1..n |-> s[k]]
    BY <2>1 DEF SizedFrom
  <2>. QED BY <2>2, <2>3
<1>4. Views!Sizes(d) = CHOOSE s : s = [k \in 1..n |-> SizedBy(d, s, k)]
  BY DEF Views!Sizes, SizedBy
<1>5. Views!Sizes(d) = [k \in 1..n |-> SizedBy(d, Views!Sizes(d), k)]
  BY <1>3, <1>4
<1>. QED BY <1>5

-----------------------------------------------------------------------------
(* What an item redefines stands before it in the same group. *)
LEMMA ElderIs ==
  ASSUME NEW d, Shaped(d), Views!Lawful(d), NEW k \in 1..Len(d), d[k].redefines # NoName,
         NEW m, m = Views!Max(Views!Redefined(d, k))
  PROVE  /\ m \in Views!Redefined(d, k)
         /\ m \in 1..(k - 1) /\ Views!Parent(d, m) = Views!Parent(d, k)
         /\ Views!Upper(d[m].name) = Views!Upper(d[k].redefines)
<1>1. k \in DOMAIN d /\ k - 1 \in Nat
  BY DEF Shaped
<1>2. Views!Redefined(d, k) # {}
  BY <1>1 DEF Views!Lawful
<1>3. /\ Views!Redefined(d, k) \subseteq 1..(k - 1)
      /\ Views!Redefined(d, k) \subseteq 0..(k - 1)
  BY DEF Views!Redefined, Views!Children, Shaped
<1>4. m \in Views!Redefined(d, k)
  BY <1>1, <1>2, <1>3, MostIn
<1>. QED BY <1>3, <1>4 DEF Views!Redefined, Views!Children

OffsetBy(d, o, k) ==
  IF k = 0 THEN 0
  ELSE IF d[k].redefines # NoName THEN o[Views!Max(Views!Redefined(d, k))]
  ELSE o[Views!Parent(d, k)]
         + Views!Sums(Views!OwnSizes(d, Views!Sizes(d), Views!Parent(d, k)))[k - 1]

(* A table of offsets that is right up to place m. *)
OffsetUpTo(d, o, m) ==
  /\ o = [k \in 0..Len(d) |-> o[k]]
  /\ \A k \in 0..m : o[k] = OffsetBy(d, o, k)

LEMMA OffsetAlike ==
  ASSUME NEW d, Shaped(d), Views!Lawful(d), NEW s, NEW t, NEW k \in 0..Len(d),
         \A j \in 0..(k - 1) : s[j] = t[j]
  PROVE  OffsetBy(d, s, k) = OffsetBy(d, t, k)
<1>1. CASE k = 0
  BY <1>1 DEF OffsetBy
<1>2. CASE k # 0 /\ d[k].redefines # NoName
  <2>1. k \in 1..Len(d)
    BY <1>2 DEF Shaped
  <2>2. Views!Max(Views!Redefined(d, k)) \in 1..(k - 1)
    BY <1>2, <2>1, ElderIs
  <2>3. s[Views!Max(Views!Redefined(d, k))] = t[Views!Max(Views!Redefined(d, k))]
    BY <2>1, <2>2
  <2>. QED BY <1>2, <2>3 DEF OffsetBy
<1>3. CASE k # 0 /\ d[k].redefines = NoName
  <2>1. k \in 1..Len(d)
    BY <1>3 DEF Shaped
  <2>2. s[Views!Parent(d, k)] = t[Views!Parent(d, k)]
    BY <2>1, ParentIs
  <2>. QED BY <1>3, <2>2 DEF OffsetBy
<1>. QED BY <1>1, <1>2, <1>3

LEMMA OneMoreOffset ==
  ASSUME NEW d, Shaped(d), Views!Lawful(d), NEW o, NEW m \in 1..Len(d), OffsetUpTo(d, o, m - 1)
  PROVE  \E t : OffsetUpTo(d, t, m)
<1>. DEFINE t == [k \in 0..Len(d) |-> IF k = m THEN OffsetBy(d, o, m) ELSE o[k]]
<1>1. /\ t = [k \in 0..Len(d) |-> t[k]]
      /\ \A k \in 0..Len(d) : t[k] = IF k = m THEN OffsetBy(d, o, m) ELSE o[k]
  OBVIOUS
<1>. HIDE DEF t
<1>2. ASSUME NEW k \in 0..m PROVE t[k] = OffsetBy(d, t, k)
  <2>1. m \in Nat /\ k \in Nat /\ Len(d) \in Nat /\ k \in 0..Len(d)
    BY DEF Shaped
  <2>2. \A j \in 0..(k - 1) : o[j] = t[j]
    BY <1>1, <2>1
  <2>3. OffsetBy(d, o, k) = OffsetBy(d, t, k)
    BY <2>1, <2>2, OffsetAlike
  <2>4. CASE k = m
    BY <1>1, <2>1, <2>3, <2>4
  <2>5. CASE k # m
    <3>1. k \in 0..(m - 1)
      BY <2>1, <2>5
    <3>. QED BY <1>1, <2>1, <2>3, <2>5, <3>1 DEF OffsetUpTo
  <2>. QED BY <2>4, <2>5
<1>. QED BY <1>1, <1>2 DEF OffsetUpTo

LEMMA OffsetsAre ==
  ASSUME NEW d, Shaped(d), Views!Lawful(d)
  PROVE  \A k \in 0..Len(d) : Views!Offsets(d)[k] = OffsetBy(d, Views!Offsets(d), k)
<1>. DEFINE n == Len(d)
            open == {m \in 0..n : ~\E s : OffsetUpTo(d, s, m)}
<1>0. n \in Nat
  BY DEF Shaped
<1>1. open = {}
  <2>. SUFFICES ASSUME open # {} PROVE FALSE
    OBVIOUS
  <2>1. PICK m \in open : \A j \in open : m <= j
    <3>1. open \subseteq Nat
      OBVIOUS
    <3>. HIDE DEF open
    <3>. QED BY <3>1, LeastIn
  <2>2. m # 0
    <3>1. OffsetUpTo(d, [k \in 0..n |-> 0], 0)
      BY <1>0 DEF OffsetUpTo, OffsetBy
    <3>. QED BY <2>1, <3>1
  <2>3. m \in 1..n /\ m - 1 \in 0..n /\ m - 1 < m
    BY <1>0, <2>1, <2>2
  <2>4. m - 1 \notin open
    <3>. HIDE DEF open, n
    <3>. QED BY <1>0, <2>1, <2>3
  <2>. QED BY <2>1, <2>3, <2>4, OneMoreOffset
<1>2. PICK o : OffsetUpTo(d, o, n)
  <2>1. n \in 0..n
    BY <1>0
  <2>. QED BY <1>1, <2>1
<1>3. o = [k \in 0..n |-> o[k]] /\ \A k \in 0..n : o[k] = OffsetBy(d, o, k)
  BY <1>2 DEF OffsetUpTo
<1>4. \E s : s = [k \in 0..n |-> OffsetBy(d, s, k)]
  BY <1>3
<1>5. Views!Offsets(d) = CHOOSE s : s = [k \in 0..n |-> OffsetBy(d, s, k)]
  BY DEF Views!Offsets, OffsetBy
<1>6. Views!Offsets(d) = [k \in 0..n |-> OffsetBy(d, Views!Offsets(d), k)]
  BY <1>4, <1>5
<1>. QED BY <1>6

-----------------------------------------------------------------------------
LEMMA OwnTyped ==
  ASSUME NEW d, Shaped(d), NEW s, NEW k,
         \A j \in 1..Len(d) : Views!Parent(d, j) = k => s[j] \in Nat
  PROVE  /\ Views!OwnSizes(d, s, k) \in Seq(Nat)
         /\ Len(Views!OwnSizes(d, s, k)) = Len(d)
         /\ \A j \in 1..Len(d) : Views!OwnSizes(d, s, k)[j] =
              IF d[j].redefines = NoName /\ Views!Parent(d, j) = k THEN s[j] ELSE 0
<1>. DEFINE own == Views!OwnSizes(d, s, k)
            n == Len(d)
<1>1. n \in Nat
  BY DEF Shaped
<1>2. \A j \in 1..n : own[j] =
        IF d[j].redefines = NoName /\ Views!Parent(d, j) = k THEN s[j] ELSE 0
  BY DEF Views!OwnSizes
<1>3. DOMAIN own = 1..n /\ own = [j \in 1..n |-> own[j]]
  BY DEF Views!OwnSizes
<1>. HIDE DEF own, n
<1>4. \A j \in 1..n : own[j] \in Nat
  BY <1>2 DEF n
<1>5. own \in [1..n -> Nat]
  BY <1>3, <1>4
<1>6. own \in Seq(Nat)
  BY <1>1, <1>5, SeqDef
<1>7. Len(own) \in Nat /\ DOMAIN own = 1..Len(own)
  BY <1>6
<1>8. Len(own) = n
  BY <1>1, <1>3, <1>7
<1>. QED BY <1>2, <1>6, <1>8 DEF own, n

Sized(d, k) == Views!Sizes(d)[k]
Starts(d, k) == Views!Offsets(d)[k]
Ends(d, k) == Starts(d, k) + Sized(d, k)

(* The sizes of the items that take room in group k, and their sums. *)
Own(d, k) == Views!OwnSizes(d, Views!Sizes(d), k)
Filled(d, k, j) == Views!Sums(Own(d, k))[j]

LEMMA SizesTyped ==
  ASSUME NEW d, Shaped(d)
  PROVE  \A k \in 1..Len(d) : Sized(d, k) \in Nat
<1>. DEFINE bad == {k \in 1..Len(d) : Sized(d, k) \notin Nat}
            k == Views!Max(bad)
<1>. SUFFICES ASSUME bad # {} PROVE FALSE
  OBVIOUS
<1>1. Len(d) \in Nat /\ bad \subseteq 0..Len(d)
  BY DEF Shaped
<1>2. k \in bad /\ \A j \in bad : j <= k
  <2>. HIDE DEF bad
  <2>. QED BY <1>1, MostIn
<1>. HIDE DEF k
<1>3. k \in 1..Len(d)
  BY <1>2
<1>4. ASSUME NEW j \in 1..Len(d), Views!Parent(d, j) = k PROVE Views!Sizes(d)[j] \in Nat
  <2>1. k \in 0..(j - 1)
    BY <1>4, ParentIs
  <2>2. j \notin bad
    <3>1. ~(j <= k)
      BY <2>1
    <3>. HIDE DEF bad
    <3>. QED BY <1>2, <3>1
  <2>. QED BY <2>2 DEF Sized
<1>5. Views!OwnSizes(d, Views!Sizes(d), k) \in Seq(Nat)
  BY <1>4, OwnTyped
<1>6. Views!Total(Views!OwnSizes(d, Views!Sizes(d), k)) \in Nat
  <2>. DEFINE own == Views!OwnSizes(d, Views!Sizes(d), k)
  <2>. HIDE DEF own
  <2>1. own \in Seq(Nat)
    BY <1>5 DEF own
  <2>2. Len(own) \in 0..Len(own)
    BY <2>1
  <2>3. Views!Total(own) \in Nat
    BY <2>1, <2>2, EachSum DEF Views!Total
  <2>. QED BY <2>3 DEF own
<1>7. d[k].size \in Nat
  BY <1>3 DEF Shaped
<1>8. Sized(d, k) \in Nat
  BY <1>3, <1>6, <1>7, SizesAre DEF SizedBy, Sized
<1>. QED BY <1>2, <1>8

(* What is filled of a group up to each item. *)
LEMMA FilledIs ==
  ASSUME NEW d, Shaped(d), NEW k
  PROVE  /\ Own(d, k) \in Seq(Nat) /\ Len(Own(d, k)) = Len(d)
         /\ \A j \in 1..Len(d) : Own(d, k)[j] =
              IF d[j].redefines = NoName /\ Views!Parent(d, j) = k THEN Sized(d, j) ELSE 0
         /\ Filled(d, k, 0) = 0
         /\ \A j \in 1..Len(d) : Filled(d, k, j) = Filled(d, k, j - 1) + Own(d, k)[j]
         /\ \A j \in 0..Len(d) : Filled(d, k, j) \in Nat
<1>1. \A j \in 1..Len(d) : Views!Sizes(d)[j] \in Nat
  BY SizesTyped DEF Sized
<1>2. /\ Own(d, k) \in Seq(Nat) /\ Len(Own(d, k)) = Len(d)
      /\ \A j \in 1..Len(d) : Own(d, k)[j] =
           IF d[j].redefines = NoName /\ Views!Parent(d, j) = k THEN Sized(d, j) ELSE 0
  BY <1>1, OwnTyped DEF Own, Sized
<1>3. /\ Filled(d, k, 0) = 0
      /\ \A j \in 1..Len(Own(d, k)) : Filled(d, k, j) = Filled(d, k, j - 1) + Own(d, k)[j]
      /\ \A j \in 0..Len(Own(d, k)) : Filled(d, k, j) \in Nat
  BY <1>2, EachSum DEF Filled
<1>. QED BY <1>2, <1>3

LEMMA SizeIs ==
  ASSUME NEW d, Shaped(d), NEW k \in 1..Len(d)
  PROVE  Sized(d, k) = IF Views!Elementary(d[k]) THEN d[k].size ELSE Filled(d, k, Len(d))
<1>1. Len(Own(d, k)) = Len(d)
  BY FilledIs
<1>. QED BY <1>1, SizesAre DEF SizedBy, Sized, Filled, Own, Views!Total

LEMMA StartIs ==
  ASSUME NEW d, Shaped(d), Views!Lawful(d), NEW k \in 1..Len(d)
  PROVE  /\ d[k].redefines # NoName => Starts(d, k) = Starts(d, Views!Max(Views!Redefined(d, k)))
         /\ d[k].redefines = NoName =>
              Starts(d, k) = Starts(d, Views!Parent(d, k)) + Filled(d, Views!Parent(d, k), k - 1)
<1>1. k \in 0..Len(d) /\ k # 0
  OBVIOUS
<1>2. Views!Offsets(d)[k] = OffsetBy(d, Views!Offsets(d), k)
  BY <1>1, OffsetsAre
<1>. QED BY <1>1, <1>2 DEF OffsetBy, Starts, Filled, Own

LEMMA StartsTyped ==
  ASSUME NEW d, Shaped(d), Views!Lawful(d)
  PROVE  \A k \in 0..Len(d) : Starts(d, k) \in Nat
<1>. DEFINE bad == {k \in 0..Len(d) : Starts(d, k) \notin Nat}
<1>. SUFFICES ASSUME bad # {} PROVE FALSE
  OBVIOUS
<1>0. Len(d) \in Nat
  BY DEF Shaped
<1>1. PICK k \in bad : \A j \in bad : k <= j
  <2>1. bad \subseteq Nat
    BY <1>0
  <2>. HIDE DEF bad
  <2>. QED BY <2>1, LeastIn
<1>2. k \in 0..Len(d) /\ k \in Nat
  BY <1>0, <1>1
<1>3. ASSUME NEW j \in 0..(k - 1) PROVE Starts(d, j) \in Nat
  <2>1. j \in 0..Len(d) /\ j < k /\ ~(k <= j)
    BY <1>0, <1>2
  <2>2. j \notin bad
    <3>. HIDE DEF bad
    <3>. QED BY <1>1, <2>1
  <2>. QED BY <2>1, <2>2
<1>4. CASE k = 0
  <2>1. Starts(d, 0) = 0
    BY <1>2, <1>4, OffsetsAre DEF OffsetBy, Starts
  <2>. QED BY <1>1, <1>4, <2>1
<1>5. CASE k # 0 /\ d[k].redefines # NoName
  <2>1. k \in 1..Len(d)
    BY <1>2, <1>5
  <2>2. Views!Max(Views!Redefined(d, k)) \in 1..(k - 1)
    BY <1>5, <2>1, ElderIs
  <2>3. Starts(d, Views!Max(Views!Redefined(d, k))) \in Nat
    BY <1>2, <1>3, <2>2
  <2>. QED BY <1>1, <1>5, <2>1, <2>3, StartIs
<1>6. CASE k # 0 /\ d[k].redefines = NoName
  <2>1. k \in 1..Len(d) /\ k - 1 \in 0..Len(d)
    BY <1>0, <1>2, <1>6
  <2>2. Starts(d, Views!Parent(d, k)) \in Nat
    BY <1>3, <2>1, ParentIs
  <2>3. Filled(d, Views!Parent(d, k), k - 1) \in Nat
    BY <2>1, FilledIs
  <2>4. Starts(d, k) = Starts(d, Views!Parent(d, k)) + Filled(d, Views!Parent(d, k), k - 1)
    BY <1>6, <2>1, StartIs
  <2>5. Starts(d, k) \in Nat
    BY <2>2, <2>3, <2>4
  <2>. QED BY <1>1, <2>5
<1>. QED BY <1>4, <1>5, <1>6

-----------------------------------------------------------------------------
(* No two items have one name.                                             *)
Distinct(d) ==
  \A j, k \in 1..Len(d) : Views!Upper(d[j].name) = Views!Upper(d[k].name) => j = k

Laying(d) == Shaped(d) /\ Views!Lawful(d) /\ Distinct(d)

Inside(d, j, i) == Starts(d, i) <= Starts(d, j) /\ Ends(d, j) <= Ends(d, i)

LEMMA PlacesTyped ==
  ASSUME NEW d, Laying(d)
  PROVE  /\ Len(d) \in Nat
         /\ \A k \in 1..Len(d) : Starts(d, k) \in Nat /\ Sized(d, k) \in Nat /\ Ends(d, k) \in Nat
<1>1. Len(d) \in Nat /\ \A k \in 1..Len(d) : Sized(d, k) \in Nat
  BY SizesTyped DEF Laying, Shaped
<1>2. \A k \in 0..Len(d) : Starts(d, k) \in Nat
  BY StartsTyped DEF Laying
<1>3. \A k \in 1..Len(d) : k \in 0..Len(d)
  BY <1>1
<1>4. \A k \in 1..Len(d) : Starts(d, k) \in Nat
  BY <1>2, <1>3
<1>5. ASSUME NEW k \in 1..Len(d) PROVE Ends(d, k) \in Nat
  <2>1. Starts(d, k) \in Nat /\ Sized(d, k) \in Nat
    BY <1>1, <1>4
  <2>. HIDE DEF Starts, Sized
  <2>. QED BY <2>1 DEF Ends
<1>. QED BY <1>1, <1>4, <1>5

(* What has items under it has no picture, and the room that they take.    *)
LEMMA GroupOf ==
  ASSUME NEW d, Laying(d), NEW j \in 1..Len(d), NEW i \in 1..Len(d), Views!Parent(d, j) = i
  PROVE  i < j /\ ~Views!Elementary(d[i]) /\ Sized(d, i) = Filled(d, i, Len(d))
<1>1. i < j
  BY ParentIs DEF Laying, Shaped
<1>2. j \in Views!Children(d, i) /\ i \in DOMAIN d
  BY DEF Laying, Shaped, Views!Children
<1>3. ~Views!Elementary(d[i])
  BY <1>2 DEF Laying, Views!Lawful
<1>. QED BY <1>1, <1>3, SizeIs DEF Laying

(* What redefines another fits into that. *)
LEMMA WithinElder ==
  ASSUME NEW d, Laying(d), NEW j \in 1..Len(d), d[j].redefines # NoName,
         NEW m, m = Views!Max(Views!Redefined(d, j))
  PROVE  /\ m \in 1..Len(d) /\ m < j /\ Views!Parent(d, m) = Views!Parent(d, j)
         /\ Views!Upper(d[m].name) = Views!Upper(d[j].redefines)
         /\ Starts(d, j) = Starts(d, m) /\ Sized(d, j) <= Sized(d, m)
<1>1. Shaped(d) /\ Views!Lawful(d) /\ Len(d) \in Nat /\ j \in DOMAIN d
  BY DEF Laying, Shaped
<1>2. /\ m \in Views!Redefined(d, j) /\ m \in 1..(j - 1)
      /\ Views!Parent(d, m) = Views!Parent(d, j)
      /\ Views!Upper(d[m].name) = Views!Upper(d[j].redefines)
  BY <1>1, ElderIs
<1>3. m \in 1..Len(d) /\ m < j
  BY <1>1, <1>2
<1>4. PICK x \in Views!Redefined(d, j) : Views!Sizes(d)[j] <= Views!Sizes(d)[x]
  BY <1>1 DEF Views!Lawful
<1>5. x \in 1..Len(d) /\ Views!Upper(d[x].name) = Views!Upper(d[j].redefines)
  BY <1>4 DEF Views!Redefined, Views!Children
<1>6. x = m
  BY <1>2, <1>3, <1>5 DEF Laying, Distinct
<1>7. Starts(d, j) = Starts(d, m)
  BY <1>1, StartIs
<1>. QED BY <1>2, <1>3, <1>4, <1>6, <1>7 DEF Sized

LEMMA ChildInside ==
  ASSUME NEW d, Laying(d), NEW i \in 1..Len(d)
  PROVE  \A j \in 1..Len(d) : Views!Parent(d, j) = i => Inside(d, j, i)
<1>. DEFINE bad == {j \in 1..Len(d) : Views!Parent(d, j) = i /\ ~Inside(d, j, i)}
<1>. SUFFICES ASSUME bad # {} PROVE FALSE
  OBVIOUS
<1>0. Shaped(d) /\ Views!Lawful(d) /\ Len(d) \in Nat
  BY DEF Laying, Shaped
<1>1. PICK j \in bad : \A k \in bad : j <= k
  <2>1. bad \subseteq Nat
    BY <1>0
  <2>. HIDE DEF bad
  <2>. QED BY <2>1, LeastIn
<1>2. j \in 1..Len(d) /\ Views!Parent(d, j) = i /\ ~Inside(d, j, i)
  BY <1>1
<1>3. CASE d[j].redefines # NoName
  <2>. DEFINE m == Views!Max(Views!Redefined(d, j))
  <2>1. m \in 1..Len(d) /\ m < j /\ Views!Parent(d, m) = i /\ Starts(d, j) = Starts(d, m)
        /\ Sized(d, j) <= Sized(d, m)
    BY <1>2, <1>3, WithinElder
  <2>2. ~(j <= m)
    BY <1>0, <1>2, <2>1
  <2>. HIDE DEF m
  <2>3. m \notin bad
    <3>. HIDE DEF bad
    <3>. QED BY <1>1, <2>2
  <2>4. Inside(d, m, i)
    BY <2>1, <2>3
  <2>5. /\ Starts(d, j) \in Nat /\ Starts(d, m) \in Nat /\ Starts(d, i) \in Nat
        /\ Sized(d, j) \in Nat /\ Sized(d, m) \in Nat /\ Sized(d, i) \in Nat
    BY <1>2, <2>1, PlacesTyped
  <2>6. Inside(d, j, i)
    <3>. HIDE DEF Starts, Sized
    <3>. QED BY <2>1, <2>4, <2>5 DEF Inside, Ends
  <2>. QED BY <1>2, <2>6
<1>4. CASE d[j].redefines = NoName
  <2>. DEFINE a == Filled(d, i, j - 1)
              b == Filled(d, i, j)
              z == Filled(d, i, Len(d))
  <2>1. Starts(d, j) = Starts(d, i) + a
    BY <1>0, <1>2, <1>4, StartIs
  <2>2. Own(d, i)[j] = Sized(d, j)
    BY <1>0, <1>2, <1>4, FilledIs
  <2>3. b = a + Sized(d, j)
    BY <1>0, <1>2, <2>2, FilledIs
  <2>4. j - 1 \in 0..Len(d) /\ j \in 0..Len(d) /\ Len(d) \in 0..Len(d) /\ j <= Len(d)
    BY <1>0, <1>2
  <2>5. a \in Nat /\ b \in Nat /\ z \in Nat
    BY <1>0, <2>4, FilledIs
  <2>6. b <= z
    <3>1. Own(d, i) \in Seq(Nat) /\ Len(Own(d, i)) = Len(d)
      BY <1>0, FilledIs
    <3>. QED BY <2>4, <3>1, SumsRise DEF Filled
  <2>7. Sized(d, i) = z
    BY <1>2, GroupOf
  <2>8. Starts(d, j) \in Nat /\ Starts(d, i) \in Nat /\ Sized(d, j) \in Nat
    BY <1>2, PlacesTyped
  <2>9. Inside(d, j, i)
    <3>. HIDE DEF Starts, Sized, a, b, z
    <3>. QED BY <2>1, <2>3, <2>5, <2>6, <2>7, <2>8 DEF Inside, Ends
  <2>. QED BY <1>2, <2>9
<1>. QED BY <1>3, <1>4

(* A group starts with its first item, *)
LEMMA EldestStarts ==
  ASSUME NEW d, Laying(d), NEW i \in 1..Len(d), ~Views!Elementary(d[i])
  PROVE  \E j \in 1..Len(d) : /\ Views!Parent(d, j) = i /\ i < j
                              /\ d[j].redefines = NoName /\ Starts(d, j) = Starts(d, i)
<1>. DEFINE kids == Views!Children(d, i)
<1>0. Shaped(d) /\ Views!Lawful(d) /\ Len(d) \in Nat /\ i \in DOMAIN d
  BY DEF Laying, Shaped
<1>1. kids # {} /\ kids \subseteq Nat
  BY <1>0 DEF Views!Lawful, Views!Children
<1>2. PICK j \in kids : \A k \in kids : j <= k
  <2>. HIDE DEF kids
  <2>. QED BY <1>1, LeastIn
<1>3. j \in 1..Len(d) /\ Views!Parent(d, j) = i
  BY <1>2 DEF Views!Children
<1>4. i < j
  BY <1>3, GroupOf
<1>5. d[j].redefines = NoName
  <2>. SUFFICES ASSUME d[j].redefines # NoName PROVE FALSE
    OBVIOUS
  <2>. DEFINE m == Views!Max(Views!Redefined(d, j))
  <2>1. m \in 1..Len(d) /\ m < j /\ Views!Parent(d, m) = i
    BY <1>3, WithinElder
  <2>. HIDE DEF m
  <2>2. m \in kids
    BY <2>1 DEF Views!Children
  <2>. QED BY <1>0, <1>2, <1>3, <2>1, <2>2
<1>6. \A k \in (0 + 1)..(j - 1) : Own(d, i)[k] = 0
  <2>. SUFFICES ASSUME NEW k \in (0 + 1)..(j - 1) PROVE Own(d, i)[k] = 0
    OBVIOUS
  <2>1. k \in 1..Len(d) /\ ~(j <= k)
    BY <1>0, <1>3
  <2>2. k \notin kids
    <3>. HIDE DEF kids
    <3>. QED BY <1>2, <2>1
  <2>3. Views!Parent(d, k) # i
    BY <2>1, <2>2 DEF Views!Children
  <2>. QED BY <1>0, <2>1, <2>3, FilledIs
<1>7. Filled(d, i, j - 1) = Filled(d, i, 0)
  <2>1. Own(d, i) \in Seq(Nat) /\ Len(Own(d, i)) = Len(d)
    BY <1>0, FilledIs
  <2>2. j - 1 \in 0..Len(d) /\ 0 \in 0..Len(d) /\ 0 <= j - 1
    BY <1>0, <1>3
  <2>. HIDE DEF Own
  <2>. QED BY <1>6, <2>1, <2>2, SumsStay DEF Filled
<1>8. Starts(d, j) = Starts(d, i) + 0
  BY <1>0, <1>3, <1>5, <1>7, StartIs, FilledIs, SMTT(20)
<1>9. Starts(d, i) \in Nat
  BY PlacesTyped
<1>10. Starts(d, j) = Starts(d, i)
  BY <1>8, <1>9
<1>. QED BY <1>3, <1>4, <1>5, <1>10

(* and ends with the last of those that take room.                         *)
LEMMA YoungestEnds ==
  ASSUME NEW d, Laying(d), NEW i \in 1..Len(d), ~Views!Elementary(d[i])
  PROVE  \E j \in 1..Len(d) : Views!Parent(d, j) = i /\ i < j /\ Ends(d, j) = Ends(d, i)
<1>. DEFINE kids == {j \in 1..Len(d) : Views!Parent(d, j) = i /\ d[j].redefines = NoName}
            j == Views!Max(kids)
<1>0. Shaped(d) /\ Views!Lawful(d) /\ Len(d) \in Nat
  BY DEF Laying, Shaped
<1>1. kids # {} /\ kids \subseteq 0..Len(d)
  BY EldestStarts
<1>2. j \in kids /\ \A k \in kids : k <= j
  <2>. HIDE DEF kids
  <2>. QED BY <1>0, <1>1, MostIn
<1>. HIDE DEF j
<1>3. j \in 1..Len(d) /\ Views!Parent(d, j) = i /\ d[j].redefines = NoName
  BY <1>2
<1>4. i < j /\ Sized(d, i) = Filled(d, i, Len(d))
  BY <1>3, GroupOf
<1>5. \A k \in (j + 1)..Len(d) : Own(d, i)[k] = 0
  <2>. SUFFICES ASSUME NEW k \in (j + 1)..Len(d) PROVE Own(d, i)[k] = 0
    OBVIOUS
  <2>1. k \in 1..Len(d) /\ ~(k <= j)
    BY <1>0, <1>3
  <2>2. k \notin kids
    <3>. HIDE DEF kids
    <3>. QED BY <1>2, <2>1
  <2>. QED BY <1>0, <2>1, <2>2, FilledIs
<1>. DEFINE a == Filled(d, i, j - 1)
            z == Filled(d, i, Len(d))
<1>6. z = Filled(d, i, j)
  <2>1. Own(d, i) \in Seq(Nat) /\ Len(Own(d, i)) = Len(d)
    BY <1>0, FilledIs
  <2>2. j \in 0..Len(d) /\ Len(d) \in 0..Len(d) /\ j <= Len(d)
    BY <1>0, <1>3
  <2>. HIDE DEF Own
  <2>. QED BY <1>5, <2>1, <2>2, SumsStay DEF Filled
<1>7. Own(d, i)[j] = Sized(d, j)
  BY <1>0, <1>3, FilledIs
<1>8. z = a + Sized(d, j)
  BY <1>0, <1>3, <1>6, <1>7, FilledIs
<1>9. Starts(d, j) = Starts(d, i) + a
  BY <1>0, <1>3, StartIs
<1>10. a \in Nat
  <2>1. j - 1 \in 0..Len(d)
    BY <1>0, <1>3
  <2>. QED BY <1>0, <2>1, FilledIs
<1>11. Starts(d, j) \in Nat /\ Starts(d, i) \in Nat /\ Sized(d, j) \in Nat
  BY <1>3, PlacesTyped
<1>12. Ends(d, j) = Ends(d, i)
  <2>1. Sized(d, i) = z
    BY <1>4
  <2>. HIDE DEF Starts, Sized, a, z
  <2>. QED BY <1>8, <1>9, <1>10, <1>11, <2>1 DEF Ends
<1>. QED BY <1>3, <1>4, <1>12

-----------------------------------------------------------------------------
(* The items under item i, at any depth, and those of them, or i itself,    *)
(* that have a picture.                                                    *)
Under(d, i) ==
  {k \in (i + 1)..Len(d) : \A j \in (i + 1)..k : d[j].level > d[i].level}

Leaves(d, i) ==
  IF Views!Elementary(d[i]) THEN {i} ELSE {k \in Under(d, i) : Views!Elementary(d[k])}

LEMMA UnderIsUnderParent ==
  ASSUME NEW d, Laying(d), NEW i \in 1..Len(d), NEW k \in Under(d, i)
  PROVE  /\ k \in 1..Len(d) /\ i < k
         /\ Views!Parent(d, k) = i
            \/ (Views!Parent(d, k) \in Under(d, i) /\ Views!Parent(d, k) < k)
<1>. DEFINE p == Views!Parent(d, k)
<1>0. Shaped(d) /\ Len(d) \in Nat /\ i \in Nat /\ i <= Len(d)
  BY DEF Laying, Shaped
<1>1. k \in (i + 1)..Len(d) /\ \A j \in (i + 1)..k : d[j].level > d[i].level
  BY DEF Under
<1>2. k \in 1..Len(d) /\ i < k /\ i \in 1..(k - 1) /\ k \in (i + 1)..k
  BY <1>0, <1>1
<1>3. p \in 0..(k - 1) /\ \A j \in 1..(k - 1) : p < j => d[k].level <= d[j].level
  BY <1>0, <1>2, ParentIs
<1>4. d[k].level > d[i].level /\ d[k].level \in Nat /\ d[i].level \in Nat
  BY <1>0, <1>1, <1>2 DEF Shaped
<1>. HIDE DEF p
<1>5. ~(p < i)
  BY <1>2, <1>3, <1>4, SMTT(20)
<1>6. CASE p = i
  BY <1>2, <1>6 DEF p
<1>7. CASE p # i
  <2>1. p \in (i + 1)..Len(d) /\ p < k /\ \A j \in (i + 1)..p : j \in (i + 1)..k
    BY <1>0, <1>2, <1>3, <1>5, <1>7
  <2>2. p \in Under(d, i)
    BY <1>1, <2>1 DEF Under
  <2>. QED BY <1>2, <2>1, <2>2 DEF p
<1>. QED BY <1>6, <1>7

LEMMA ChildIsUnder ==
  ASSUME NEW d, Laying(d), NEW i \in 1..Len(d), NEW j \in 1..Len(d), Views!Parent(d, j) = i
  PROVE  /\ j \in Under(d, i)
         /\ \A k \in Under(d, j) : k \in Under(d, i)
<1>0. Shaped(d) /\ Len(d) \in Nat /\ i \in Nat /\ j \in Nat /\ j <= Len(d) /\ i # 0
  BY DEF Laying, Shaped
<1>1. i \in 0..(j - 1) /\ d[i].level < d[j].level
      /\ \A x \in 1..(j - 1) : i < x => d[j].level <= d[x].level
  BY <1>0, ParentIs
<1>2. ASSUME NEW x \in (i + 1)..j PROVE d[x].level > d[i].level
  <2>1. CASE x = j
    BY <1>0, <1>1, <2>1 DEF Shaped
  <2>2. CASE x # j
    <3>1. x \in 1..(j - 1) /\ i < x /\ x \in 1..Len(d)
      BY <1>0, <2>2
    <3>2. d[j].level <= d[x].level /\ d[i].level < d[j].level
      BY <1>1, <3>1
    <3>3. d[j].level \in Nat /\ d[x].level \in Nat /\ d[i].level \in Nat
      BY <1>0, <3>1 DEF Shaped
    <3>. QED BY <3>2, <3>3
  <2>. QED BY <2>1, <2>2
<1>3. j \in Under(d, i)
  <2>1. j \in (i + 1)..Len(d)
    BY <1>0, <1>1
  <2>. QED BY <1>2, <2>1 DEF Under
<1>4. ASSUME NEW k \in Under(d, j) PROVE k \in Under(d, i)
  <2>1. k \in (j + 1)..Len(d) /\ \A x \in (j + 1)..k : d[x].level > d[j].level
    BY DEF Under
  <2>2. k \in (i + 1)..Len(d)
    BY <1>0, <1>1, <2>1
  <2>3. ASSUME NEW x \in (i + 1)..k PROVE d[x].level > d[i].level
    <3>1. CASE x <= j
      <4>1. x \in (i + 1)..j
        BY <1>0, <3>1
      <4>. QED BY <1>2, <4>1
    <3>2. CASE ~(x <= j)
      <4>1. x \in (j + 1)..k /\ x \in 1..Len(d)
        BY <1>0, <2>1, <3>2
      <4>2. d[x].level > d[j].level /\ d[i].level < d[j].level
        BY <1>1, <2>1, <4>1
      <4>3. d[x].level \in Nat /\ d[i].level \in Nat /\ d[j].level \in Nat
        BY <1>0, <4>1 DEF Shaped
      <4>. QED BY <4>2, <4>3
    <3>. QED BY <3>1, <3>2
  <2>. QED BY <2>2, <2>3 DEF Under
<1>. QED BY <1>3, <1>4

(* Whatever is under an item lies within it.                               *)
LEMMA UnderInside ==
  ASSUME NEW d, Laying(d), NEW i \in 1..Len(d)
  PROVE  \A k \in Under(d, i) : Inside(d, k, i)
<1>. DEFINE bad == {k \in Under(d, i) : ~Inside(d, k, i)}
<1>. SUFFICES ASSUME bad # {} PROVE FALSE
  OBVIOUS
<1>0. Len(d) \in Nat /\ \A k \in Under(d, i) : k \in Nat
  BY DEF Laying, Shaped, Under
<1>1. PICK k \in bad : \A j \in bad : k <= j
  <2>1. bad \subseteq Nat
    BY <1>0
  <2>. HIDE DEF bad
  <2>. QED BY <2>1, LeastIn
<1>2. k \in Under(d, i) /\ ~Inside(d, k, i)
  BY <1>1
<1>. DEFINE p == Views!Parent(d, k)
<1>3. k \in 1..Len(d) /\ (p = i \/ (p \in Under(d, i) /\ p < k))
  BY <1>2, UnderIsUnderParent
<1>. HIDE DEF p
<1>4. CASE p = i
  BY <1>2, <1>3, <1>4, ChildInside DEF p
<1>5. CASE p # i
  <2>1. p \in Under(d, i) /\ p < k /\ p \in Nat
    BY <1>0, <1>3, <1>5
  <2>2. p \notin bad
    <3>1. ~(k <= p)
      BY <1>3, <2>1
    <3>. HIDE DEF bad
    <3>. QED BY <1>1, <3>1
  <2>3. Inside(d, p, i)
    BY <2>1, <2>2
  <2>4. p \in 1..Len(d)
    BY <2>1, UnderIsUnderParent
  <2>5. Inside(d, k, p)
    BY <1>3, <2>4, ChildInside DEF p
  <2>6. /\ Starts(d, k) \in Nat /\ Starts(d, p) \in Nat /\ Starts(d, i) \in Nat
        /\ Ends(d, k) \in Nat /\ Ends(d, p) \in Nat /\ Ends(d, i) \in Nat
    BY <1>3, <2>4, PlacesTyped
  <2>7. Inside(d, k, i)
    <3>. HIDE DEF Starts, Ends
    <3>. QED BY <2>3, <2>5, <2>6 DEF Inside
  <2>. QED BY <1>2, <2>7
<1>. QED BY <1>4, <1>5

LEMMA LeavesInside ==
  ASSUME NEW d, Laying(d), NEW i \in 1..Len(d), NEW k \in Leaves(d, i)
  PROVE  k \in 1..Len(d) /\ Inside(d, k, i)
<1>1. CASE k = i
  <2>1. Starts(d, i) \in Nat /\ Ends(d, i) \in Nat
    BY PlacesTyped
  <2>. HIDE DEF Starts, Ends
  <2>. QED BY <1>1, <2>1 DEF Inside
<1>2. CASE k # i
  <2>1. k \in Under(d, i)
    BY <1>2 DEF Leaves
  <2>. QED BY <2>1, UnderInside, UnderIsUnderParent
<1>. QED BY <1>1, <1>2

(* The leaves of what is under item i are leaves of item i.                *)
LEMMA LeavesOfChild ==
  ASSUME NEW d, Laying(d), NEW i \in 1..Len(d), NEW j \in 1..Len(d), Views!Parent(d, j) = i,
         NEW k \in Leaves(d, j)
  PROVE  k \in Leaves(d, i)
<1>1. ~Views!Elementary(d[i])
  BY GroupOf
<1>2. CASE Views!Elementary(d[j])
  <2>1. k = j
    BY <1>2 DEF Leaves
  <2>. QED BY <1>1, <1>2, <2>1, ChildIsUnder DEF Leaves
<1>3. CASE ~Views!Elementary(d[j])
  <2>1. k \in Under(d, j) /\ Views!Elementary(d[k])
    BY <1>3 DEF Leaves
  <2>. QED BY <1>1, <2>1, ChildIsUnder DEF Leaves
<1>. QED BY <1>2, <1>3

(* Of every item some leaf starts where it starts, and some leaf ends       *)
(* where it ends.                                                          *)
LEMMA LeafStarts ==
  ASSUME NEW d, Laying(d)
  PROVE  \A i \in 1..Len(d) : \E k \in Leaves(d, i) : Starts(d, k) = Starts(d, i)
<1>. DEFINE bad == {i \in 1..Len(d) : ~\E k \in Leaves(d, i) : Starts(d, k) = Starts(d, i)}
            i == Views!Max(bad)
<1>. SUFFICES ASSUME bad # {} PROVE FALSE
  OBVIOUS
<1>0. Len(d) \in Nat /\ bad \subseteq 0..Len(d)
  BY DEF Laying, Shaped
<1>1. i \in bad /\ \A j \in bad : j <= i
  <2>. HIDE DEF bad
  <2>. QED BY <1>0, MostIn
<1>. HIDE DEF i
<1>2. i \in 1..Len(d)
  BY <1>1
<1>3. CASE Views!Elementary(d[i])
  BY <1>1, <1>3 DEF Leaves
<1>4. CASE ~Views!Elementary(d[i])
  <2>1. PICK j \in 1..Len(d) : Views!Parent(d, j) = i /\ i < j /\ Starts(d, j) = Starts(d, i)
    BY <1>2, <1>4, EldestStarts
  <2>2. j \notin bad
    <3>1. ~(j <= i)
      BY <1>0, <1>2, <2>1
    <3>. HIDE DEF bad
    <3>. QED BY <1>1, <3>1
  <2>3. PICK k \in Leaves(d, j) : Starts(d, k) = Starts(d, j)
    BY <2>2
  <2>4. k \in Leaves(d, i)
    BY <1>2, <2>1, LeavesOfChild
  <2>. QED BY <1>1, <2>1, <2>3, <2>4
<1>. QED BY <1>3, <1>4

LEMMA LeafEnds ==
  ASSUME NEW d, Laying(d)
  PROVE  \A i \in 1..Len(d) : \E k \in Leaves(d, i) : Ends(d, k) = Ends(d, i)
<1>. DEFINE bad == {i \in 1..Len(d) : ~\E k \in Leaves(d, i) : Ends(d, k) = Ends(d, i)}
            i == Views!Max(bad)
<1>. SUFFICES ASSUME bad # {} PROVE FALSE
  OBVIOUS
<1>0. Len(d) \in Nat /\ bad \subseteq 0..Len(d)
  BY DEF Laying, Shaped
<1>1. i \in bad /\ \A j \in bad : j <= i
  <2>. HIDE DEF bad
  <2>. QED BY <1>0, MostIn
<1>. HIDE DEF i
<1>2. i \in 1..Len(d)
  BY <1>1
<1>3. CASE Views!Elementary(d[i])
  BY <1>1, <1>3 DEF Leaves
<1>4. CASE ~Views!Elementary(d[i])
  <2>1. PICK j \in 1..Len(d) : Views!Parent(d, j) = i /\ i < j /\ Ends(d, j) = Ends(d, i)
    BY <1>2, <1>4, YoungestEnds
  <2>2. j \notin bad
    <3>1. ~(j <= i)
      BY <1>0, <1>2, <2>1
    <3>. HIDE DEF bad
    <3>. QED BY <1>1, <3>1
  <2>3. PICK k \in Leaves(d, j) : Ends(d, k) = Ends(d, j)
    BY <2>2
  <2>4. k \in Leaves(d, i)
    BY <1>2, <2>1, LeavesOfChild
  <2>. QED BY <1>1, <2>1, <2>3, <2>4
<1>. QED BY <1>3, <1>4

-----------------------------------------------------------------------------
(* The items among the first lines of a copybook. *)
Gathering(l, s, n) ==
  IF n = 0 THEN <<>> ELSE IF l[n].level = 88 THEN s[n - 1] ELSE Append(s[n - 1], l[n])
Gathers(l, s, m) == s = [n \in 0..m |-> Gathering(l, s, n)]

LEMMA OneMoreGathered ==
  ASSUME NEW l, NEW s, NEW m \in Nat \ {0}, Gathers(l, s, m - 1)
  PROVE  \E r : Gathers(l, r, m)
<1>. DEFINE more == [k \in 0..m |-> IF k = m THEN Gathering(l, s, m) ELSE s[k]]
<1>1. /\ \A k \in 0..m : more[k] = IF k = m THEN Gathering(l, s, m) ELSE s[k]
      /\ DOMAIN more = 0..m /\ more = [k \in 0..m |-> more[k]]
  OBVIOUS
<1>. HIDE DEF more
<1>2. more[m] = Gathering(l, more, m)
  <2>1. m \in 0..m /\ m - 1 \in 0..m /\ m - 1 # m
    OBVIOUS
  <2>2. more[m - 1] = s[m - 1] /\ more[m] = Gathering(l, s, m)
    BY <1>1, <2>1
  <2>. QED BY <2>2 DEF Gathering
<1>3. ASSUME NEW k \in 0..(m - 1) PROVE more[k] = Gathering(l, more, k)
  <2>1. s[k] = Gathering(l, s, k)
    BY DEF Gathers
  <2>2. more[k] = s[k] /\ k \in 0..m
    BY <1>1
  <2>3. k # 0 => k - 1 \in 0..m /\ more[k - 1] = s[k - 1]
    BY <1>1
  <2>. QED BY <2>1, <2>2, <2>3 DEF Gathering
<1>4. \A k \in 0..m : more[k] = Gathering(l, more, k)
  BY <1>2, <1>3
<1>. QED BY <1>1, <1>4 DEF Gathers

LEMMA Gathered ==
  ASSUME NEW l, Len(l) \in Nat
  PROVE  \A n \in 0..Len(l) : Views!ItemsAmong(l)[n] = Gathering(l, Views!ItemsAmong(l), n)
<1>. DEFINE open == {m \in 0..Len(l) : ~\E s : Gathers(l, s, m)}
<1>1. open = {}
  <2>. SUFFICES ASSUME open # {} PROVE FALSE
    OBVIOUS
  <2>1. PICK m \in open : \A j \in open : m <= j
    <3>1. open \subseteq Nat
      OBVIOUS
    <3>. HIDE DEF open
    <3>. QED BY <3>1, LeastIn
  <2>2. m # 0
    <3>1. Gathers(l, [k \in 0..0 |-> <<>>], 0)
      BY DEF Gathers, Gathering
    <3>. QED BY <2>1, <3>1
  <2>3. m \in Nat \ {0} /\ m - 1 \in 0..Len(l)
    BY <2>1, <2>2
  <2>4. m - 1 \notin open
    <3>. HIDE DEF open
    <3>. QED BY <2>1, <2>3
  <2>. QED BY <2>1, <2>3, <2>4, OneMoreGathered
<1>2. \E s : Gathers(l, s, Len(l))
  BY <1>1
<1>3. Views!ItemsAmong(l) = CHOOSE s : Gathers(l, s, Len(l))
  BY DEF Views!ItemsAmong, Gathers, Gathering
<1>4. Gathers(l, Views!ItemsAmong(l), Len(l))
  BY <1>2, <1>3
<1>. QED BY <1>4 DEF Gathers

LEMMA ViewLines ==
  ASSUME NEW c \in ViewCalls, c.laysOut
  PROVE  /\ Len(c.lines) \in Nat /\ DOMAIN c.lines = 1..Len(c.lines)
         /\ \A n \in 1..Len(c.lines) : c.lines[n] \in Views!ToSet(c.lines)
         /\ \A x \in Views!ToSet(c.lines) : x.level \in Nat /\ x.size \in Nat /\ x.name # NoName
<1>1. /\ c.lines \in Seq(Views!ToSet(c.lines))
      /\ \A x \in Views!ToSet(c.lines) : x.level \in Nat /\ x.size \in Nat /\ x.name # NoName
  BY ViewCallsTyped DEF Views!CallsTyped
<1>2. Len(c.lines) \in Nat /\ DOMAIN c.lines = 1..Len(c.lines)
  BY <1>1
<1>3. \A n \in 1..Len(c.lines) : c.lines[n] \in Views!ToSet(c.lines)
  BY <1>2 DEF Views!ToSet
<1>. QED BY <1>1, <1>2, <1>3

LEMMA LaidShaped ==
  ASSUME NEW c \in ViewCalls, c.laysOut
  PROVE  /\ Views!ItemsAmong(c.lines)[0] = <<>>
         /\ \A n \in 1..Len(c.lines) : Views!ItemsAmong(c.lines)[n] =
              IF c.lines[n].level = 88 THEN Views!ItemsAmong(c.lines)[n - 1]
              ELSE Append(Views!ItemsAmong(c.lines)[n - 1], c.lines[n])
         /\ Shaped(Views!Laid(c.lines))
<1>. DEFINE T == Views!ToSet(c.lines)
            s == Views!ItemsAmong(c.lines)
            z == Len(c.lines)
            bad == {n \in 0..z : s[n] \notin Seq(T)}
<1>1. /\ z \in Nat /\ \A n \in 1..z : c.lines[n] \in T
      /\ \A x \in T : x.level \in Nat /\ x.size \in Nat /\ x.name # NoName
  BY ViewLines
<1>2. \A n \in 0..z : s[n] = Gathering(c.lines, s, n)
  BY <1>1, Gathered
<1>. HIDE DEF s, T
<1>3. s[0] = <<>>
  BY <1>1, <1>2 DEF Gathering
<1>4. \A n \in 1..z : s[n] = IF c.lines[n].level = 88 THEN s[n - 1] ELSE Append(s[n - 1], c.lines[n])
  BY <1>1, <1>2 DEF Gathering
<1>5. bad = {}
  <2>. SUFFICES ASSUME bad # {} PROVE FALSE
    OBVIOUS
  <2>1. PICK n \in bad : \A j \in bad : n <= j
    <3>1. bad \subseteq Nat
      BY <1>1
    <3>. HIDE DEF bad
    <3>. QED BY <3>1, LeastIn
  <2>2. n # 0
    <3>1. <<>> \in Seq(T)
      OBVIOUS
    <3>. QED BY <1>3, <2>1, <3>1
  <2>3. n \in 1..z /\ n - 1 \in 0..z /\ ~(n <= n - 1)
    BY <1>1, <2>1, <2>2
  <2>4. n - 1 \notin bad
    <3>. HIDE DEF bad
    <3>. QED BY <2>1, <2>3
  <2>5. s[n - 1] \in Seq(T) /\ c.lines[n] \in T
    BY <1>1, <2>3, <2>4
  <2>6. s[n] \in Seq(T)
    <3>1. Append(s[n - 1], c.lines[n]) \in Seq(T)
      BY <2>5
    <3>. QED BY <1>4, <2>3, <2>5, <3>1
  <2>. QED BY <2>1, <2>6
<1>6. Views!Laid(c.lines) = s[z]
  BY DEF Views!Laid, s
<1>7. s[z] \in Seq(T)
  BY <1>1, <1>5
<1>8. Shaped(s[z])
  <2>. DEFINE d == s[z]
  <2>1. d \in Seq(T)
    BY <1>7
  <2>. HIDE DEF d
  <2>2. Len(d) \in Nat /\ DOMAIN d = 1..Len(d) /\ \A k \in 1..Len(d) : d[k] \in T
    BY <2>1
  <2>3. Shaped(d)
    BY <1>1, <2>2 DEF Shaped
  <2>. QED BY <2>3 DEF d
<1>. QED BY <1>3, <1>4, <1>6, <1>8 DEF s

(* A copybook that both readers agree on and the language allows.          *)
BothRead == Views!Plain /\ Views!Lawful(Views!Laid(call.lines))

LEMMA BothReadIs ==
  ASSUME call \in ViewCalls, call.laysOut, BothRead, NEW d, d = Views!Laid(call.lines)
  PROVE  /\ Laying(d)
         /\ \A k \in 1..Len(d) : Views!Upper(d[k].name) = d[k].name
                                  /\ Views!Upper(d[k].redefines) = d[k].redefines
<1>1. Shaped(d)
  BY LaidShaped
<1>2. \A k \in 1..Len(d) :
        /\ d[k].name \notin DOMAIN UpperOf /\ d[k].redefines \notin DOMAIN UpperOf
        /\ \A j \in 1..Len(d) : d[j].name = d[k].name => j = k
  BY <1>1 DEF BothRead, Views!Plain, Shaped
<1>3. \A k \in 1..Len(d) : Views!Upper(d[k].name) = d[k].name
                           /\ Views!Upper(d[k].redefines) = d[k].redefines
  BY <1>2 DEF Views!Upper
<1>4. Distinct(d)
  BY <1>2, <1>3 DEF Distinct
<1>. QED BY <1>1, <1>3, <1>4 DEF Laying, BothRead

(* What item k redefines is the one item of that name.                      *)
LEMMA BaseIs ==
  ASSUME call \in ViewCalls, call.laysOut, BothRead, NEW d, d = Views!Laid(call.lines),
         NEW k \in 1..Len(d), d[k].redefines # NoName
  PROVE  \E x \in 1..Len(d) :
           /\ d[x].name = d[k].redefines
           /\ \A y \in 1..Len(d) : d[y].name = d[k].redefines => y = x
           /\ Starts(d, k) = Starts(d, x) /\ Sized(d, k) <= Sized(d, x)
<1>. DEFINE x == Views!Max(Views!Redefined(d, k))
<1>1. /\ Laying(d)
      /\ \A j \in 1..Len(d) : Views!Upper(d[j].name) = d[j].name
                               /\ Views!Upper(d[j].redefines) = d[j].redefines
  BY BothReadIs
<1>2. /\ x \in 1..Len(d) /\ Views!Upper(d[x].name) = Views!Upper(d[k].redefines)
      /\ Starts(d, k) = Starts(d, x) /\ Sized(d, k) <= Sized(d, x)
  BY <1>1, WithinElder
<1>. HIDE DEF x
<1>3. d[x].name = d[k].redefines
  BY <1>1, <1>2
<1>4. \A y \in 1..Len(d) : d[y].name = d[k].redefines => y = x
  BY <1>1, <1>2, <1>3 DEF Laying, Distinct
<1>. QED BY <1>2, <1>3, <1>4

-----------------------------------------------------------------------------
Naming(d, t, m) == {j \in 1..m : d[j].redefines = t}

(* g is the item named t, then in order those of the first m items that     *)
(* redefine it.                                                            *)
ViewsOf(d, g, t, m) ==
  /\ g \in Seq(1..Len(d))
  /\ Len(g) = 1 + Cardinality(Naming(d, t, m))
  /\ d[g[1]].name = t
  /\ \A v \in 2..Len(g) : d[g[v]].redefines = t
  /\ \A j \in Naming(d, t, m) :
       g[1 + Cardinality({i \in Naming(d, t, m) : i <= j})] = j

Targets(d, m) == {d[j].redefines : j \in {j \in 1..m : d[j].redefines # NoName}}

(* Of the first m items, each target of REDEFINES has its views, and order   *)
(* lists each target once.                                                 *)
Grouped(d, m) ==
  /\ DOMAIN groups = Targets(d, m)
  /\ order \in Seq(DOMAIN groups)
  /\ \A t \in DOMAIN groups : \E r \in DOMAIN order : order[r] = t
  /\ \A q, r \in DOMAIN order : order[q] = order[r] => q = r
  /\ \A t \in DOMAIN groups : ViewsOf(d, groups[t], t, m)

(* A region has been built of each of the first m targets.                  *)
Built(m) ==
  /\ regions \in Seq({Views!Region(order[r]) : r \in DOMAIN order})
  /\ Len(regions) = m
  /\ \A r \in 1..m : regions[r] = Views!Region(order[r])

ViewsSeen(d) ==
  /\ pc = "items" => items = Views!ItemsAmong(call.lines)[at] /\ order = <<>> /\ groups = <<>>
  /\ pc \in {"groups", "regions", "done"} => items = d
  /\ pc = "groups" => at \in 0..Len(d) /\ Grouped(d, at)
  /\ pc \in {"regions", "done"} => at \in 0..Len(order) /\ Grouped(d, Len(d)) /\ Built(at)
  /\ pc = "done" => at = Len(order)

ViewsInv ==
  /\ call \in ViewCalls
  /\ pc \in {"start", "items", "groups", "regions", "done", "error"}
  /\ pc \in {"items", "groups", "regions", "done"} => call.laysOut
  /\ pc = "start" => at = 0 /\ items = <<>> /\ order = <<>> /\ groups = <<>>
  /\ pc = "items" => at \in 0..Len(call.lines)
  /\ pc \in {"start", "items", "groups"} => regions = <<>>
  /\ BothRead => ViewsSeen(Views!Laid(call.lines))

-----------------------------------------------------------------------------
LEMMA SameCount == \A S : Views!Cardinality(S) = Cardinality(S)
BY DEF Views!Cardinality, Cardinality

LEMMA NamingFinite ==
  ASSUME NEW d, NEW t, NEW m \in Nat
  PROVE  /\ IsFiniteSet(Naming(d, t, m)) /\ Cardinality(Naming(d, t, m)) \in Nat
         /\ \A j \in Nat : /\ IsFiniteSet({i \in Naming(d, t, m) : i <= j})
                           /\ Cardinality({i \in Naming(d, t, m) : i <= j}) \in Nat
<1>1. IsFiniteSet(1..m)
  BY FS_Interval
<1>2. Naming(d, t, m) \subseteq 1..m
  BY DEF Naming
<1>3. IsFiniteSet(Naming(d, t, m))
  BY <1>1, <1>2, FS_Subset
<1>4. \A j \in Nat : IsFiniteSet({i \in Naming(d, t, m) : i <= j})
  <2>. TAKE j \in Nat
  <2>1. {i \in Naming(d, t, m) : i <= j} \subseteq Naming(d, t, m)
    OBVIOUS
  <2>. QED BY <1>3, <2>1, FS_Subset
<1>. QED BY <1>3, <1>4, FS_CardinalityType

LEMMA FirstView ==
  ASSUME NEW d, NEW t, NEW m \in Nat, NEW x \in 1..Len(d), d[x].name = t, Naming(d, t, m) = {}
  PROVE  ViewsOf(d, <<x>>, t, m)
<1>1. Cardinality(Naming(d, t, m)) = 0
  BY FS_EmptySet
<1>2. <<x>> \in Seq(1..Len(d)) /\ Len(<<x>>) = 1 /\ <<x>>[1] = x
  OBVIOUS
<1>. QED BY <1>1, <1>2 DEF ViewsOf

LEMMA OneMoreView ==
  ASSUME NEW d, Shaped(d), NEW g, NEW t, NEW m \in 0..(Len(d) - 1), ViewsOf(d, g, t, m),
         d[m + 1].redefines = t
  PROVE  ViewsOf(d, Append(g, m + 1), t, m + 1)
<1>. DEFINE old == Naming(d, t, m)
            new == Naming(d, t, m + 1)
            h == Append(g, m + 1)
<1>0. Len(d) \in Nat /\ m \in Nat /\ m + 1 \in 1..Len(d) /\ m + 1 \in 1..(m + 1)
      /\ \A j \in 1..(m + 1) : j \in 1..m \/ j = m + 1
  BY DEF Shaped
<1>1. new = old \cup {m + 1} /\ m + 1 \notin old
  <2>1. \A j \in 1..m : j \in 1..(m + 1) /\ j # m + 1
    BY <1>0
  <2>. QED BY <1>0, <2>1 DEF Naming
<1>2. IsFiniteSet(old) /\ Cardinality(old) \in Nat
  BY <1>0, NamingFinite
<1>3. Cardinality(new) = Cardinality(old) + 1
  BY <1>1, <1>2, FS_AddElement
<1>4. /\ g \in Seq(1..Len(d)) /\ Len(g) = 1 + Cardinality(old) /\ d[g[1]].name = t
      /\ \A v \in 2..Len(g) : d[g[v]].redefines = t
      /\ \A j \in old : g[1 + Cardinality({i \in old : i <= j})] = j
  BY DEF ViewsOf
<1>. DEFINE n == Len(g)
<1>5. /\ h \in Seq(1..Len(d)) /\ n \in Nat /\ n \in Nat \ {0}
      /\ Len(h) = n + 1 /\ h[n + 1] = m + 1 /\ \A v \in 1..n : h[v] = g[v]
  BY <1>0, <1>2, <1>4
<1>. HIDE DEF h, n
<1>6. Len(h) = 1 + Cardinality(new)
  BY <1>2, <1>3, <1>4, <1>5 DEF n
<1>7. d[h[1]].name = t
  <2>1. 1 \in 1..n
    BY <1>5
  <2>. QED BY <1>4, <1>5, <2>1
<1>8. \A v \in 2..Len(h) : d[h[v]].redefines = t
  <2>. SUFFICES ASSUME NEW v \in 2..Len(h) PROVE d[h[v]].redefines = t
    OBVIOUS
  <2>1. CASE v = n + 1
    BY <1>5, <2>1
  <2>2. CASE v # n + 1
    <3>1. v \in 2..n /\ v \in 1..n
      BY <1>5, <2>2
    <3>. QED BY <1>4, <1>5, <3>1 DEF n
  <2>. QED BY <2>1, <2>2
<1>9. \A j \in new : h[1 + Cardinality({i \in new : i <= j})] = j
  <2>. SUFFICES ASSUME NEW j \in new PROVE h[1 + Cardinality({i \in new : i <= j})] = j
    OBVIOUS
  <2>0. \A i \in new : i \in 1..(m + 1)
    BY DEF Naming
  <2>1. CASE j = m + 1
    <3>0. \A i \in new : i <= j
      BY <1>0, <2>0, <2>1
    <3>1. {i \in new : i <= j} = new
      <4>. HIDE DEF new
      <4>. QED BY <3>0
    <3>2. 1 + Cardinality(new) = n + 1
      BY <1>5, <1>6
    <3>. HIDE DEF new
    <3>. QED BY <1>5, <2>1, <3>1, <3>2
  <2>2. CASE j # m + 1
    <3>1. j \in old /\ j \in 1..m
      BY <1>1, <2>0, <1>0, <2>2
    <3>2. {i \in new : i <= j} = {i \in old : i <= j}
      BY <1>0, <1>1, <3>1
    <3>. DEFINE r == Cardinality({i \in old : i <= j})
    <3>3. r \in Nat /\ r <= Cardinality(old)
      <4>1. {i \in old : i <= j} \subseteq old
        OBVIOUS
      <4>. QED BY <1>0, <1>2, <3>1, <4>1, FS_Subset, NamingFinite
    <3>4. g[1 + r] = j
      BY <1>4, <3>1
    <3>. HIDE DEF r
    <3>5. 1 + r \in 1..n
      BY <1>2, <1>4, <1>5, <3>3 DEF n
    <3>6. h[1 + r] = j
      BY <1>5, <3>4, <3>5
    <3>. QED BY <3>2, <3>6 DEF r
  <2>. QED BY <2>1, <2>2
<1>. QED BY <1>5, <1>6, <1>7, <1>8, <1>9 DEF ViewsOf, h

LEMMA SameNaming ==
  ASSUME NEW d, NEW t, NEW m \in Nat, d[m + 1].redefines # t
  PROVE  Naming(d, t, m + 1) = Naming(d, t, m)
<1>1. \A j \in 1..(m + 1) : j \in 1..m \/ j = m + 1
  OBVIOUS
<1>2. \A j \in 1..m : j \in 1..(m + 1)
  OBVIOUS
<1>. QED BY <1>1, <1>2 DEF Naming

LEMMA ViewsAlike ==
  ASSUME NEW d, NEW g, NEW t, NEW m, NEW n, Naming(d, t, n) = Naming(d, t, m), ViewsOf(d, g, t, m)
  PROVE  ViewsOf(d, g, t, n)
BY DEF ViewsOf

(* The targets among one more item. *)
LEMMA TargetsGrow ==
  ASSUME NEW d, NEW m \in Nat
  PROVE  Targets(d, m + 1) =
           Targets(d, m) \cup (IF d[m + 1].redefines = NoName THEN {} ELSE {d[m + 1].redefines})
<1>1. \A j \in 1..(m + 1) : j \in 1..m \/ j = m + 1
  OBVIOUS
<1>2. \A j \in 1..m : j \in 1..(m + 1)
  OBVIOUS
<1>3. m + 1 \in 1..(m + 1)
  OBVIOUS
<1>. QED BY <1>1, <1>2, <1>3 DEF Targets

LEMMA ViewAdded ==
  ASSUME call \in ViewCalls, call.laysOut, BothRead, NEW d, d = Views!Laid(call.lines),
         items = d, at \in 0..Len(d), Grouped(d, at), Views!AddView
  PROVE  at' \in 0..Len(d) /\ Grouped(d, at)'
<1>. DEFINE m == at
            t == items[at + 1].redefines
<1>0. Laying(d) /\ Shaped(d) /\ Len(d) \in Nat
  BY BothReadIs DEF Laying, Shaped
<1>1. /\ m \in 0..(Len(d) - 1) /\ m \in Nat /\ m + 1 \in 1..Len(d) /\ at' = m + 1
      /\ t # NoName /\ t = d[m + 1].redefines
  BY <1>0 DEF Views!AddView, Views!Grouping
<1>2. /\ groups' = [u \in DOMAIN groups \cup {t} |->
                     IF u = t THEN Append(Views!ViewsSoFar(u), at + 1) ELSE groups[u]]
      /\ order' = IF t \in DOMAIN groups THEN order ELSE Append(order, t)
  BY DEF Views!AddView
<1>. HIDE DEF t, m
<1>3. /\ DOMAIN groups' = DOMAIN groups \cup {t}
      /\ groups'[t] = Append(Views!ViewsSoFar(t), m + 1)
      /\ \A u \in DOMAIN groups : u # t => groups'[u] = groups[u]
  BY <1>2 DEF m
<1>4. /\ DOMAIN groups = Targets(d, m)
      /\ order \in Seq(DOMAIN groups)
      /\ \A u \in DOMAIN groups : \E r \in DOMAIN order : order[r] = u
      /\ \A q, r \in DOMAIN order : order[q] = order[r] => q = r
      /\ \A u \in DOMAIN groups : ViewsOf(d, groups[u], u, m)
  BY DEF Grouped, m
<1>5. DOMAIN groups' = Targets(d, m + 1)
  <2>1. Targets(d, m + 1) = Targets(d, m) \cup {t}
    BY <1>1, TargetsGrow
  <2>. QED BY <1>3, <1>4, <2>1, Zenon
<1>6. ViewsOf(d, Views!ViewsSoFar(t), t, m)
  <2>1. CASE t \in DOMAIN groups
    BY <1>4, <2>1 DEF Views!ViewsSoFar
  <2>2. CASE t \notin DOMAIN groups
    <3>1. Naming(d, t, m) = {}
      BY <1>1, <1>4, <2>2 DEF Naming, Targets
    <3>2. PICK x \in 1..Len(d) :
            d[x].name = t /\ \A y \in 1..Len(d) : d[y].name = t => y = x
      BY <1>1, BaseIs
    <3>3. {k \in DOMAIN items : items[k].name = t} = {x}
      BY <1>0, <3>2 DEF Shaped
    <3>4. Views!Min({x}) = x
      <4>1. x <= x
        BY <1>0, <3>2
      <4>. QED BY <4>1 DEF Views!Min
    <3>5. Views!ViewsSoFar(t) = <<x>>
      BY <2>2, <3>3, <3>4 DEF Views!ViewsSoFar, Views!BaseView
    <3>. QED BY <1>1, <3>1, <3>2, <3>5, FirstView
  <2>. QED BY <2>1, <2>2
<1>7. ViewsOf(d, groups'[t], t, m + 1)
  BY <1>0, <1>1, <1>3, <1>6, OneMoreView
<1>8. \A u \in DOMAIN groups' : ViewsOf(d, groups'[u], u, m + 1)
  <2>. SUFFICES ASSUME NEW u \in DOMAIN groups' PROVE ViewsOf(d, groups'[u], u, m + 1)
    OBVIOUS
  <2>1. CASE u = t
    BY <1>7, <2>1
  <2>2. CASE u # t
    <3>1. u \in DOMAIN groups /\ groups'[u] = groups[u]
      BY <1>3, <2>2
    <3>2. Naming(d, u, m + 1) = Naming(d, u, m)
      BY <1>1, <2>2, SameNaming
    <3>3. ViewsOf(d, groups[u], u, m)
      BY <1>4, <3>1
    <3>. QED BY <3>1, <3>2, <3>3, ViewsAlike
  <2>. QED BY <2>1, <2>2
<1>9. /\ order' \in Seq(DOMAIN groups')
      /\ \A u \in DOMAIN groups' : \E r \in DOMAIN order' : order'[r] = u
      /\ \A q, r \in DOMAIN order' : order'[q] = order'[r] => q = r
  <2>1. CASE t \in DOMAIN groups
    <3>1. DOMAIN groups' = DOMAIN groups /\ order' = order
      BY <1>2, <1>3, <2>1
    <3>. QED BY <1>4, <3>1
  <2>2. CASE t \notin DOMAIN groups
    <3>. DEFINE G == DOMAIN groups
    <3>1. order' = Append(order, t) /\ order \in Seq(G) /\ DOMAIN groups' = G \cup {t}
      BY <1>2, <1>3, <1>4, <2>2
    <3>. HIDE DEF G
    <3>2. /\ Append(order, t) \in Seq(G \cup {t}) /\ Len(order) \in Nat
          /\ DOMAIN order = 1..Len(order) /\ DOMAIN Append(order, t) = 1..(Len(order) + 1)
          /\ Append(order, t)[Len(order) + 1] = t
          /\ \A r \in 1..Len(order) : Append(order, t)[r] = order[r] /\ order[r] \in G
      <4>1. order \in Seq(G \cup {t})
        BY <3>1
      <4>. QED BY <3>1, <4>1
    <3>3. \A u \in DOMAIN groups' : \E r \in DOMAIN order' : order'[r] = u
      <4>. SUFFICES ASSUME NEW u \in DOMAIN groups' PROVE \E r \in DOMAIN order' : order'[r] = u
        OBVIOUS
      <4>1. CASE u = t
        BY <3>1, <3>2, <4>1
      <4>2. CASE u # t
        <5>1. PICK r \in DOMAIN order : order[r] = u
          BY <1>4, <3>1, <4>2 DEF G
        <5>2. r \in DOMAIN order' /\ order'[r] = u
          BY <3>1, <3>2, <5>1
        <5>. QED BY <5>2
      <4>. QED BY <4>1, <4>2
    <3>4. \A q, r \in DOMAIN order' : order'[q] = order'[r] => q = r
      <4>. SUFFICES ASSUME NEW q \in DOMAIN order', NEW r \in DOMAIN order', order'[q] = order'[r]
                    PROVE  q = r
        OBVIOUS
      <4>1. \A k \in DOMAIN order' : k = Len(order) + 1 \/ k \in 1..Len(order)
        BY <3>1, <3>2
      <4>2. \A k \in 1..Len(order) : order'[k] # t /\ order'[k] = order[k]
        BY <2>2, <3>1, <3>2, SMTT(20) DEF G
      <4>. QED BY <1>4, <3>1, <3>2, <4>1, <4>2
    <3>. QED BY <3>1, <3>2, <3>3, <3>4
  <2>. QED BY <2>1, <2>2
<1>10. Grouped(d, at)'
  BY <1>1, <1>5, <1>8, <1>9 DEF Grouped
<1>. QED BY <1>0, <1>1, <1>10

LEMMA NoViewAdded ==
  ASSUME call \in ViewCalls, call.laysOut, BothRead, NEW d, d = Views!Laid(call.lines),
         items = d, at \in 0..Len(d), Grouped(d, at), Views!NoView
  PROVE  at' \in 0..Len(d) /\ Grouped(d, at)'
<1>0. Shaped(d) /\ Len(d) \in Nat
  BY BothReadIs DEF Laying, Shaped
<1>1. /\ at \in Nat /\ at + 1 \in 0..Len(d) /\ at' = at + 1 /\ d[at + 1].redefines = NoName
      /\ groups' = groups /\ order' = order
  BY <1>0 DEF Views!NoView, Views!Grouping
<1>2. DOMAIN groups = Targets(d, at + 1)
  BY <1>1, TargetsGrow DEF Grouped
<1>3. ASSUME NEW u \in DOMAIN groups PROVE ViewsOf(d, groups[u], u, at + 1)
  <2>1. u # NoName
    BY <1>2 DEF Targets
  <2>2. Naming(d, u, at + 1) = Naming(d, u, at)
    BY <1>1, <2>1, SameNaming
  <2>3. ViewsOf(d, groups[u], u, at)
    BY DEF Grouped
  <2>. QED BY <2>2, <2>3, ViewsAlike
<1>. QED BY <1>1, <1>2, <1>3 DEF Grouped

-----------------------------------------------------------------------------
LEMMA BothReadStays ==
  ASSUME call' = call
  PROVE  BothRead' <=> BothRead
BY DEF BothRead, Views!Plain

LEMMA RegionStays ==
  ASSUME call' = call, items' = items, groups' = groups, NEW t
  PROVE  Views!Region(t)' = Views!Region(t)
BY DEF Views!Region, Views!Members, Views!Below

LEMMA ViewStart == Views!Init => ViewsInv
<1>. SUFFICES ASSUME Views!Init PROVE ViewsInv
  OBVIOUS
<1>. QED BY DEF Views!Init, ViewsInv, ViewsSeen

LEMMA LineSeen ==
  ASSUME ViewsInv, BothRead, NEW d, d = Views!Laid(call.lines),
         Views!SkipLine \/ Views!ReadItem \/ Views!EndOfText
  PROVE  ViewsSeen(d)'
<1>. DEFINE l == call.lines
            s == Views!ItemsAmong(call.lines)
<1>0. /\ pc = "items" /\ call \in ViewCalls /\ call.laysOut /\ at \in 0..Len(l) /\ call' = call
      /\ items = s[at] /\ order = <<>> /\ groups = <<>>
      /\ order' = order /\ groups' = groups
  BY DEF ViewsInv, ViewsSeen, Views!SkipLine, Views!ReadItem, Views!EndOfText, Views!Reading
<1>1. /\ Len(l) \in Nat /\ DOMAIN l = 1..Len(l)
      /\ \A n \in 1..Len(l) : s[n] = IF l[n].level = 88 THEN s[n - 1] ELSE Append(s[n - 1], l[n])
  BY <1>0, ViewLines, LaidShaped
<1>2. \A n \in 1..Len(l) : l[n].level # 88 => ~l[n].copied
  BY <1>1 DEF BothRead, Views!Plain
<1>3. CASE Views!SkipLine \/ Views!ReadItem
  <2>1. /\ at + 1 \in 1..Len(l) /\ at' = at + 1 /\ pc' = "items"
        /\ items' = IF l[at + 1].level = 88 THEN items ELSE Append(items, l[at + 1])
    <3>1. at < Len(l) /\ at' = at + 1 /\ pc' = "items"
      BY <1>0, <1>3 DEF Views!SkipLine, Views!ReadItem, Views!Reading
    <3>2. at + 1 \in 1..Len(l)
      BY <1>0, <1>1, <3>1
    <3>3. items' = IF l[at + 1].level = 88 THEN items ELSE Append(items, l[at + 1])
      BY <1>2, <1>3, <3>2 DEF Views!SkipLine, Views!ReadItem, Views!Line
    <3>. QED BY <3>1, <3>2, <3>3
  <2>2. (at + 1) - 1 = at
    BY <1>0, <1>1
  <2>3. items' = s[at + 1]
    BY <1>0, <1>1, <2>1, <2>2
  <2>4. items' = Views!ItemsAmong(call'.lines)[at']
    BY <1>0, <2>1, <2>3
  <2>. QED BY <1>0, <2>1, <2>4 DEF ViewsSeen
<1>4. CASE Views!EndOfText
  <2>1. at = Len(l) /\ pc' = "groups" /\ at' = 0 /\ items' = items
    BY <1>4 DEF Views!EndOfText
  <2>2. items' = d
    BY <1>0, <2>1 DEF Views!Laid
  <2>3. Shaped(d)
    BY <1>0, LaidShaped
  <2>4. at' \in 0..Len(d)
    BY <2>1, <2>3 DEF Shaped
  <2>5. Grouped(d, at)'
    <3>1. order' = <<>> /\ groups' = <<>> /\ DOMAIN groups' = {} /\ DOMAIN order' = {}
          /\ order' \in Seq(DOMAIN groups')
      BY <1>0
    <3>2. Targets(d, 0) = {}
      BY DEF Targets
    <3>. QED BY <2>1, <3>1, <3>2 DEF Grouped
  <2>. QED BY <2>1, <2>2, <2>4, <2>5 DEF ViewsSeen
<1>. QED BY <1>3, <1>4

LEMMA GroupSeen ==
  ASSUME ViewsInv, BothRead, NEW d, d = Views!Laid(call.lines),
         Views!AddView \/ Views!NoView
  PROVE  ViewsSeen(d)'
<1>1. /\ pc = "groups" /\ call \in ViewCalls /\ call.laysOut
      /\ items = d /\ at \in 0..Len(d) /\ Grouped(d, at)
  BY DEF ViewsInv, ViewsSeen, Views!AddView, Views!NoView, Views!Grouping
<1>2. pc' = "groups" /\ items' = items
  BY <1>1 DEF Views!AddView, Views!NoView
<1>3. at' \in 0..Len(d) /\ Grouped(d, at)'
  BY <1>1, ViewAdded, NoViewAdded
<1>. QED BY <1>1, <1>2, <1>3 DEF ViewsSeen

LEMMA RegionSeen ==
  ASSUME ViewsInv, BothRead, NEW d, d = Views!Laid(call.lines),
         Views!Discriminate \/ Views!BuildRegion \/ Views!Return
  PROVE  ViewsSeen(d)'
<1>0. /\ call' = call /\ items' = items /\ groups' = groups /\ order' = order
      /\ call \in ViewCalls /\ call.laysOut
  BY DEF ViewsInv, Views!Discriminate, Views!BuildRegion, Views!Return
<1>1. items = d
  BY DEF ViewsSeen, ViewsInv, Views!Discriminate, Views!BuildRegion, Views!Return
<1>2. \A r \in DOMAIN order : Views!Region(order[r])' = Views!Region(order[r])
  BY <1>0, RegionStays
<1>3. Shaped(d) /\ Len(d) \in Nat
  BY <1>0, LaidShaped DEF Shaped
<1>4. Grouped(d, Len(d)) => Grouped(d, Len(d))'
  BY <1>0 DEF Grouped
<1>5. Grouped(d, Len(d)) => Len(order) \in Nat /\ DOMAIN order = 1..Len(order)
  BY DEF Grouped
<1>6. CASE Views!Discriminate
  <2>1. pc = "groups" /\ pc' = "regions" /\ at' = 0 /\ regions' = regions
    BY <1>6 DEF Views!Discriminate
  <2>2. at = Len(d) /\ Grouped(d, at) /\ regions = <<>>
    BY <1>1, <1>6, <2>1 DEF Views!Discriminate, ViewsInv, ViewsSeen
  <2>3. at' \in 0..Len(order)
    BY <1>5, <2>1, <2>2
  <2>4. Built(at)'
    <3>1. regions' = <<>> /\ Len(regions') = 0 /\ regions' \in Seq({Views!Region(order[r])' : r \in DOMAIN order'})
      BY <2>1, <2>2
    <3>2. \A r \in 1..0 : FALSE
      OBVIOUS
    <3>. QED BY <2>1, <3>1, <3>2 DEF Built
  <2>. QED BY <1>0, <1>1, <1>4, <2>1, <2>2, <2>3, <2>4 DEF ViewsSeen
<1>7. CASE Views!Return
  <2>1. pc = "regions" /\ pc' = "done" /\ at' = at /\ regions' = regions /\ at = Len(order)
    BY <1>7 DEF Views!Return
  <2>2. at \in 0..Len(order) /\ Grouped(d, Len(d)) /\ Built(at)
    BY <2>1 DEF ViewsInv, ViewsSeen
  <2>3. Built(at)'
    BY <1>0, <1>5, <2>1, <2>2, RegionStays DEF Built
  <2>. QED BY <1>0, <1>1, <1>4, <2>1, <2>2, <2>3 DEF ViewsSeen
<1>8. CASE Views!BuildRegion
  <2>1. /\ pc = "regions" /\ pc' = "regions" /\ at' = at + 1 /\ at < Len(order)
        /\ regions' = Append(regions, Views!Region(order[at + 1]))
    BY <1>8 DEF Views!BuildRegion
  <2>2. at \in 0..Len(order) /\ Grouped(d, Len(d)) /\ Built(at)
    BY <2>1 DEF ViewsInv, ViewsSeen
  <2>3. at' \in 0..Len(order) /\ at + 1 \in DOMAIN order /\ at \in Nat
    BY <1>5, <2>1, <2>2
  <2>. DEFINE R == {Views!Region(order[r]) : r \in DOMAIN order}
              x == Views!Region(order[at + 1])
  <2>4. x \in R
    BY <2>3
  <2>5. regions \in Seq(R) /\ Len(regions) = at /\ \A r \in 1..at : regions[r] = Views!Region(order[r])
    BY <2>2 DEF Built
  <2>6. /\ Append(regions, x) \in Seq(R) /\ Len(Append(regions, x)) = at + 1
        /\ Append(regions, x)[at + 1] = x
        /\ \A r \in 1..at : Append(regions, x)[r] = regions[r]
    <3>1. regions \in Seq(R) /\ x \in R /\ Len(regions) = at
      BY <2>4, <2>5
    <3>. HIDE DEF R, x
    <3>. QED BY <3>1
  <2>7. \A r \in 1..(at + 1) : Append(regions, x)[r] = Views!Region(order[r])
    <3>1. \A r \in 1..(at + 1) : r \in 1..at \/ r = at + 1
      BY <2>3
    <3>. QED BY <2>5, <2>6, <3>1
  <2>8. Built(at)'
    <3>1. \A r \in 1..(at + 1) : Views!Region(order[r])' = Views!Region(order[r])
      BY <1>0, RegionStays
    <3>2. {Views!Region(order[r])' : r \in DOMAIN order'} = R
      BY <1>0, <1>2
    <3>. HIDE DEF R, x
    <3>. QED BY <1>0, <2>1, <2>6, <2>7, <3>1, <3>2 DEF Built, x
  <2>. QED BY <1>0, <1>1, <1>4, <2>1, <2>2, <2>3, <2>8 DEF ViewsSeen
<1>. QED BY <1>6, <1>7, <1>8

LEMMA ViewStutter ==
  ASSUME ViewsInv, call' = call, pc' = pc, at' = at, items' = items,
         order' = order, groups' = groups, regions' = regions
  PROVE  ViewsInv'
<1>1. BothRead' <=> BothRead
  BY BothReadStays
<1>2. ASSUME BothRead, NEW d, d = Views!Laid(call.lines) PROVE ViewsSeen(d)'
  <2>1. ViewsSeen(d)
    BY <1>2 DEF ViewsInv
  <2>2. \A r \in DOMAIN order : Views!Region(order[r])' = Views!Region(order[r])
    BY RegionStays
  <2>3. Grouped(d, at)' <=> Grouped(d, at)
    BY DEF Grouped
  <2>4. Grouped(d, Len(d))' <=> Grouped(d, Len(d))
    BY DEF Grouped
  <2>5. Grouped(d, Len(d)) => Len(order) \in Nat /\ DOMAIN order = 1..Len(order)
    BY DEF Grouped
  <2>6. Grouped(d, Len(d)) /\ at \in 0..Len(order) /\ Built(at) => Built(at)'
    <3>. SUFFICES ASSUME Grouped(d, Len(d)), at \in 0..Len(order), Built(at) PROVE Built(at)'
      OBVIOUS
    <3>1. \A r \in 1..at : r \in DOMAIN order
      BY <2>5
    <3>2. {Views!Region(order[r])' : r \in DOMAIN order'} = {Views!Region(order[r]) : r \in DOMAIN order}
      BY <2>2
    <3>. QED BY <2>2, <3>1, <3>2 DEF Built
  <2>. QED BY <2>1, <2>3, <2>4, <2>6 DEF ViewsSeen
<1>. QED BY <1>1, <1>2 DEF ViewsInv

LEMMA ViewStep == ViewsInv /\ Views!Next => ViewsInv'
<1>. SUFFICES ASSUME ViewsInv, Views!Next PROVE ViewsInv'
  OBVIOUS
<1>1. CASE Views!Terminated
  BY <1>1, ViewStutter DEF Views!Terminated, Views!vars
<1>2. CASE Views!FailDecode \/ Views!Decode
  <2>1. /\ pc = "start" /\ pc' \in {"items", "error"} /\ (pc' = "items" => call.laysOut)
        /\ call' = call /\ at' = at /\ items' = items /\ order' = order /\ groups' = groups
        /\ regions' = regions
    BY <1>2 DEF Views!FailDecode, Views!Decode
  <2>2. at = 0 /\ items = <<>> /\ order = <<>> /\ groups = <<>> /\ regions = <<>> /\ call \in ViewCalls
    BY <2>1 DEF ViewsInv
  <2>3. pc' = "items" => Len(call.lines) \in Nat /\ Views!ItemsAmong(call.lines)[0] = <<>>
    BY <2>1, <2>2, ViewLines, LaidShaped
  <2>. QED BY <2>1, <2>2, <2>3 DEF ViewsInv, ViewsSeen
<1>3. CASE Views!SkipLine \/ Views!ReadItem \/ Views!EndOfText
  <2>1. /\ pc = "items" /\ pc' \in {"items", "groups"} /\ call' = call
        /\ regions' = regions
    BY <1>3 DEF Views!SkipLine, Views!ReadItem, Views!EndOfText, Views!Reading
  <2>2. call \in ViewCalls /\ call.laysOut /\ regions = <<>> /\ at \in 0..Len(call.lines)
    BY <2>1 DEF ViewsInv
  <2>3. pc' = "items" => at' = at + 1 /\ at < Len(call.lines)
    BY <1>3 DEF Views!SkipLine, Views!ReadItem, Views!EndOfText, Views!Reading
  <2>4. pc' = "items" => at' \in 0..Len(call.lines)
    BY <2>2, <2>3, ViewLines
  <2>5. BothRead' => ViewsSeen(Views!Laid(call.lines))'
    BY <1>3, <2>1, BothReadStays, LineSeen
  <2>. QED BY <2>1, <2>2, <2>4, <2>5 DEF ViewsInv
<1>4. CASE Views!AddView \/ Views!NoView
  <2>1. /\ pc = "groups" /\ pc' = "groups" /\ call' = call /\ regions' = regions
    BY <1>4 DEF Views!AddView, Views!NoView, Views!Grouping
  <2>2. call \in ViewCalls /\ call.laysOut /\ regions = <<>>
    BY <2>1 DEF ViewsInv
  <2>3. BothRead' => ViewsSeen(Views!Laid(call.lines))'
    BY <1>4, <2>1, BothReadStays, GroupSeen
  <2>. QED BY <2>1, <2>2, <2>3 DEF ViewsInv
<1>5. CASE Views!Discriminate \/ Views!BuildRegion \/ Views!Return
  <2>1. /\ pc \in {"groups", "regions"} /\ pc' \in {"regions", "done"} /\ call' = call
    BY <1>5 DEF Views!Discriminate, Views!BuildRegion, Views!Return
  <2>2. call \in ViewCalls /\ call.laysOut
    BY <2>1 DEF ViewsInv
  <2>3. BothRead' => ViewsSeen(Views!Laid(call.lines))'
    BY <1>5, <2>1, BothReadStays, RegionSeen
  <2>. QED BY <2>1, <2>2, <2>3 DEF ViewsInv
<1>. QED BY <1>1, <1>2, <1>3, <1>4, <1>5 DEF Views!Next

-----------------------------------------------------------------------------
LEMMA LeastIs ==
  ASSUME NEW S, NEW x \in S, \A y \in S : y \in Int /\ x <= y
  PROVE  Views!Min(S) = x
<1>. DEFINE m == Views!Min(S)
<1>1. m \in S /\ \A y \in S : m <= y
  BY DEF Views!Min
<1>. HIDE DEF m
<1>2. m <= x /\ x <= m /\ m \in Int /\ x \in Int
  BY <1>1
<1>. QED BY <1>2 DEF m

LEMMA MostIs ==
  ASSUME NEW S, NEW x \in S, \A y \in S : y \in Int /\ y <= x
  PROVE  Views!Max(S) = x
<1>. DEFINE m == Views!Max(S)
<1>0. \A y \in S : x >= y
  OBVIOUS
<1>1. m \in S /\ \A y \in S : m >= y
  BY <1>0 DEF Views!Max
<1>. HIDE DEF m
<1>2. m >= x /\ m <= x /\ m \in Int /\ x \in Int
  BY <1>1
<1>. QED BY <1>2 DEF m

LEMMA FunctionIsSeq ==
  ASSUME NEW n \in Nat, NEW f, f = [k \in 1..n |-> f[k]]
  PROVE  Len(f) = n /\ DOMAIN f = 1..n
<1>. DEFINE S == {f[k] : k \in 1..n}
<1>1. DOMAIN f = 1..n /\ \A k \in 1..n : f[k] \in S
  OBVIOUS
<1>. HIDE DEF S
<1>2. f \in [1..n -> S]
  BY <1>1
<1>3. f \in Seq(S)
  BY <1>2, SeqDef
<1>4. Len(f) \in Nat /\ DOMAIN f = 1..Len(f)
  BY <1>3
<1>. QED BY <1>1, <1>4

(* The decoded fields are the items by name, each with its storage. *)
LEMMA FieldsAre ==
  ASSUME call \in ViewCalls, call.laysOut, BothRead, NEW d, d = Views!Laid(call.lines)
  PROVE  \A k \in 1..Len(d) :
           /\ d[k].name \in DOMAIN Views!FieldMap(call.lines)
           /\ Views!FieldMap(call.lines)[d[k].name].offset = Starts(d, k)
           /\ Views!FieldMap(call.lines)[d[k].name].size = Sized(d, k)
<1>. DEFINE f == Views!FieldMap(call.lines)
<1>1. /\ Laying(d) /\ DOMAIN d = 1..Len(d) /\ Len(d) \in Nat
      /\ \A k \in 1..Len(d) : Views!Upper(d[k].name) = d[k].name
  BY BothReadIs DEF Laying, Shaped
<1>2. f = [n \in {Views!Upper(d[k].name) : k \in DOMAIN d} |->
             Views!Storage(d, Views!Max({k \in DOMAIN d : Views!Upper(d[k].name) = n}))]
  BY DEF Views!FieldMap
<1>. HIDE DEF f
<1>3. \A k \in 1..Len(d) : d[k].name \in DOMAIN f
  BY <1>1, <1>2
<1>4. ASSUME NEW k \in 1..Len(d)
      PROVE  f[d[k].name].offset = Starts(d, k) /\ f[d[k].name].size = Sized(d, k)
  <2>1. {j \in DOMAIN d : Views!Upper(d[j].name) = d[k].name} = {k}
    BY <1>1 DEF Laying, Distinct
  <2>2. Views!Max({k}) = k
    <3>1. k \in {k} /\ \A y \in {k} : y \in Int /\ y <= k
      BY <1>1
    <3>. QED BY <3>1, MostIs
  <2>3. f[d[k].name] = Views!Storage(d, k)
    <3>1. d[k].name \in {Views!Upper(d[j].name) : j \in DOMAIN d}
      BY <1>1
    <3>2. f[d[k].name] =
            Views!Storage(d, Views!Max({j \in DOMAIN d : Views!Upper(d[j].name) = d[k].name}))
      BY <1>2, <3>1
    <3>. QED BY <2>1, <2>2, <3>2
  <2>. QED BY <2>3 DEF Views!Storage, Starts, Sized
<1>. QED BY <1>3, <1>4 DEF f

LEMMA MembersAre ==
  ASSUME NEW d, items = d, NEW i
  PROVE  Views!Members(i) = {d[k].name : k \in Leaves(d, i)}
BY DEF Views!Members, Views!Below, Leaves, Under

LEMMA TargetIs == \A t : Views!Region(t).target = t
BY DEF Views!Region

LEMMA RegionIs ==
  ASSUME call \in ViewCalls, call.laysOut, BothRead, NEW d, d = Views!Laid(call.lines),
         items = d, NEW t \in DOMAIN groups, ViewsOf(d, groups[t], t, Len(d)),
         NEW rg, rg = Views!Region(t)
  PROVE  \E x \in 1..Len(d) :
           /\ d[x].name = t /\ groups[t][1] = x
           /\ rg.target = t /\ rg.offset = Starts(d, x) /\ rg.length = Sized(d, x)
           /\ Len(rg.views) = Len(groups[t]) /\ DOMAIN rg.views = 1..Len(groups[t])
           /\ \A v \in 1..Len(groups[t]) :
                /\ rg.views[v].id = d[groups[t][v]].name /\ rg.views[v].fields # {}
<1>. DEFINE g == groups[t]
            f == Views!FieldMap(call.lines)
            n == Len(g)
            x == g[1]
            views == [v \in DOMAIN g |->
                        [id |-> d[g[v]].name, fields |-> Views!Members(g[v]) \cap DOMAIN f]]
            seen == UNION {views[v].fields : v \in DOMAIN views}
            lo == Views!Min({f[y].offset : y \in seen})
            hi == Views!Max({f[y].offset + f[y].size : y \in seen})
<1>0. Laying(d) /\ Len(d) \in Nat
  BY BothReadIs DEF Laying, Shaped
<1>1. rg = [target |-> t, views |-> views,
            offset |-> IF seen = {} THEN 0 ELSE lo,
            length |-> IF seen = {} THEN 0 ELSE hi - lo]
  BY DEF Views!Region
<1>2. /\ g \in Seq(1..Len(d)) /\ n = 1 + Cardinality(Naming(d, t, Len(d))) /\ d[x].name = t
      /\ \A v \in 2..n : d[g[v]].redefines = t
  BY DEF ViewsOf
<1>3. n \in Nat /\ 1 \in 1..n /\ DOMAIN g = 1..n /\ \A v \in 1..n : g[v] \in 1..Len(d)
  <2>1. n \in Nat /\ DOMAIN g = 1..n /\ \A v \in 1..n : g[v] \in 1..Len(d)
    BY <1>2
  <2>2. Cardinality(Naming(d, t, Len(d))) \in Nat
    BY <1>0, NamingFinite
  <2>3. 1 \in 1..n
    <3>. HIDE DEF n
    <3>. QED BY <1>2, <2>1, <2>2
  <2>. QED BY <2>1, <2>3
<1>4. x \in 1..Len(d)
  BY <1>3
<1>5. t # NoName
  BY <1>0, <1>2, <1>4 DEF Laying, Shaped
<1>6. \A k \in 1..Len(d) : /\ d[k].name \in DOMAIN f
                           /\ f[d[k].name].offset = Starts(d, k) /\ f[d[k].name].size = Sized(d, k)
  BY FieldsAre
<1>7. Len(views) = n /\ DOMAIN views = 1..n
  <2>1. views = [v \in 1..n |-> views[v]]
    BY <1>3
  <2>. HIDE DEF views, n
  <2>. QED BY <1>3, <2>1, FunctionIsSeq
<1>8. \A v \in 1..n : views[v].id = d[g[v]].name /\ views[v].fields = {d[k].name : k \in Leaves(d, g[v])}
  <2>. SUFFICES ASSUME NEW v \in 1..n
                PROVE  views[v].id = d[g[v]].name /\ views[v].fields = {d[k].name : k \in Leaves(d, g[v])}
    OBVIOUS
  <2>1. views[v] = [id |-> d[g[v]].name, fields |-> Views!Members(g[v]) \cap DOMAIN f]
    BY <1>3
  <2>2. g[v] \in 1..Len(d)
    BY <1>3
  <2>3. Views!Members(g[v]) = {d[k].name : k \in Leaves(d, g[v])}
    BY MembersAre
  <2>4. \A k \in Leaves(d, g[v]) : d[k].name \in DOMAIN f
    BY <1>0, <1>6, <2>2, LeavesInside
  <2>. HIDE DEF views, f, g
  <2>. QED BY <2>1, <2>3, <2>4
<1>9. \A v \in 1..n : Starts(d, g[v]) = Starts(d, x) /\ Sized(d, g[v]) <= Sized(d, x)
  <2>. SUFFICES ASSUME NEW v \in 1..n
                PROVE  Starts(d, g[v]) = Starts(d, x) /\ Sized(d, g[v]) <= Sized(d, x)
    OBVIOUS
  <2>1. CASE v = 1
    <3>1. Sized(d, x) \in Nat
      BY <1>0, <1>4, PlacesTyped
    <3>. HIDE DEF Sized, Starts
    <3>. QED BY <2>1, <3>1
  <2>2. CASE v # 1
    <3>1. v \in 2..n
      BY <1>3, <2>2
    <3>2. g[v] \in 1..Len(d) /\ d[g[v]].redefines = t
      BY <1>2, <1>3, <3>1
    <3>3. PICK y \in 1..Len(d) :
            /\ d[y].name = t /\ \A z \in 1..Len(d) : d[z].name = t => z = y
            /\ Starts(d, g[v]) = Starts(d, y) /\ Sized(d, g[v]) <= Sized(d, y)
      BY <1>5, <3>2, BaseIs
    <3>4. x = y
      BY <1>2, <1>4, <3>3
    <3>. QED BY <3>3, <3>4
  <2>. QED BY <2>1, <2>2
<1>. HIDE DEF g, f, n, x, views
(* Every field seen is a leaf within the item; of the item's own leaves one *)
(* starts where it starts and one ends where it ends.                       *)
<1>10. \A y \in seen : \E k \in 1..Len(d) :
         y = d[k].name /\ Starts(d, x) <= Starts(d, k) /\ Ends(d, k) <= Ends(d, x)
  <2>. SUFFICES ASSUME NEW y \in seen
                PROVE  \E k \in 1..Len(d) :
                         y = d[k].name /\ Starts(d, x) <= Starts(d, k) /\ Ends(d, k) <= Ends(d, x)
    OBVIOUS
  <2>1. PICK v \in 1..n : y \in views[v].fields
    BY <1>7
  <2>2. PICK k \in Leaves(d, g[v]) : y = d[k].name
    BY <1>8, <2>1
  <2>3. g[v] \in 1..Len(d)
    BY <1>3 DEF n, g
  <2>4. k \in 1..Len(d) /\ Inside(d, k, g[v])
    BY <1>0, <2>2, <2>3, LeavesInside
  <2>5. /\ Starts(d, x) \in Nat /\ Starts(d, g[v]) \in Nat /\ Starts(d, k) \in Nat
        /\ Sized(d, x) \in Nat /\ Sized(d, g[v]) \in Nat /\ Sized(d, k) \in Nat
    BY <1>0, <1>4, <2>3, <2>4, PlacesTyped
  <2>6. Starts(d, g[v]) = Starts(d, x) /\ Sized(d, g[v]) <= Sized(d, x)
    BY <1>9
  <2>7. Starts(d, x) <= Starts(d, k) /\ Ends(d, k) <= Ends(d, x)
    <3>. HIDE DEF Starts, Sized
    <3>. QED BY <2>4, <2>5, <2>6 DEF Inside, Ends
  <2>. QED BY <2>2, <2>4, <2>7
<1>11. \A k \in Leaves(d, x) : k \in 1..Len(d) /\ d[k].name \in seen
  <2>1. \A k \in Leaves(d, x) : d[k].name \in views[1].fields
    BY <1>3, <1>8 DEF x
  <2>2. 1 \in DOMAIN views
    BY <1>3, <1>7
  <2>. QED BY <1>0, <1>4, <2>1, <2>2, LeavesInside
<1>12. \A k \in 1..Len(d) : /\ f[d[k].name].offset = Starts(d, k)
                            /\ f[d[k].name].offset + f[d[k].name].size = Ends(d, k)
                            /\ Starts(d, k) \in Nat /\ Ends(d, k) \in Nat
  BY <1>0, <1>6, PlacesTyped DEF Ends
<1>13. PICK a \in Leaves(d, x) : Starts(d, a) = Starts(d, x)
  BY <1>0, <1>4, LeafStarts
<1>14. PICK b \in Leaves(d, x) : Ends(d, b) = Ends(d, x)
  BY <1>0, <1>4, LeafEnds
<1>. HIDE DEF seen
<1>15. lo = Starts(d, x)
  <2>. DEFINE S == {f[y].offset : y \in seen}
  <2>1. Starts(d, x) \in S
    BY <1>11, <1>12, <1>13
  <2>2. \A s \in S : s \in Int /\ Starts(d, x) <= s
    BY <1>10, <1>12
  <2>. HIDE DEF S
  <2>3. Views!Min(S) = Starts(d, x)
    BY <2>1, <2>2, LeastIs
  <2>. QED BY <2>3 DEF S
<1>16. hi = Ends(d, x)
  <2>. DEFINE S == {f[y].offset + f[y].size : y \in seen}
  <2>1. Ends(d, x) \in S
    BY <1>11, <1>12, <1>14
  <2>2. \A s \in S : s \in Int /\ s <= Ends(d, x)
    BY <1>10, <1>12
  <2>. HIDE DEF S
  <2>3. Views!Max(S) = Ends(d, x)
    BY <2>1, <2>2, MostIs
  <2>. QED BY <2>3 DEF S
<1>17. hi - lo = Sized(d, x)
  <2>1. Starts(d, x) \in Nat /\ Sized(d, x) \in Nat
    BY <1>0, <1>4, PlacesTyped
  <2>. HIDE DEF lo, hi, Starts, Sized
  <2>. QED BY <1>15, <1>16, <2>1 DEF Ends
<1>18. seen # {}
  BY <1>11, <1>13
<1>. HIDE DEF lo, hi
<1>19. rg.target = t /\ rg.views = views /\ rg.offset = Starts(d, x) /\ rg.length = Sized(d, x)
  BY <1>1, <1>15, <1>17, <1>18
<1>20. \A v \in 1..n : views[v].fields # {}
  <2>. SUFFICES ASSUME NEW v \in 1..n PROVE views[v].fields # {}
    OBVIOUS
  <2>1. g[v] \in 1..Len(d)
    BY <1>3 DEF n, g
  <2>2. PICK k \in Leaves(d, g[v]) : Starts(d, k) = Starts(d, g[v])
    BY <1>0, <2>1, LeafStarts
  <2>3. d[k].name \in views[v].fields
    BY <1>8
  <2>. QED BY <2>3
<1>. QED BY <1>2, <1>4, <1>7, <1>8, <1>19, <1>20 DEF g, n, x

(* Every target has its region and every region its target.                *)
LEMMA RegionsStand == ViewsInv => Views!RegionsAreStorage
<1>. SUFFICES ASSUME ViewsInv, pc = "done", BothRead, NEW d, d = Views!Laid(call.lines)
              PROVE  LET targets == {k \in DOMAIN d : Views!Redefiners(d, k) # {}}
                     IN  /\ \A k \in targets : \E r \in DOMAIN regions :
                              /\ Views!IsRegionOf(r, d, k)
                              /\ \A q \in DOMAIN regions : regions[q].target = d[k].name => q = r
                         /\ \A r \in DOMAIN regions : \E k \in targets :
                              regions[r].target = d[k].name
  BY DEF Views!RegionsAreStorage, BothRead
<1>1. /\ call \in ViewCalls /\ call.laysOut /\ items = d /\ at = Len(order)
      /\ Grouped(d, Len(d)) /\ Built(at)
  BY DEF ViewsInv, ViewsSeen
<1>2. Laying(d) /\ Len(d) \in Nat /\ DOMAIN d = 1..Len(d) /\ \A k \in 1..Len(d) : d[k].name # NoName
  BY <1>1, BothReadIs DEF Laying, Shaped
<1>3. /\ DOMAIN groups = Targets(d, Len(d))
      /\ \A t \in DOMAIN groups : \E r \in DOMAIN order : order[r] = t
      /\ \A q, r \in DOMAIN order : order[q] = order[r] => q = r
      /\ \A t \in DOMAIN groups : ViewsOf(d, groups[t], t, Len(d))
      /\ order \in Seq(DOMAIN groups)
  BY <1>1 DEF Grouped
<1>4. /\ DOMAIN order = 1..Len(order) /\ DOMAIN regions = DOMAIN order
      /\ \A r \in DOMAIN order : order[r] \in DOMAIN groups /\ regions[r] = Views!Region(order[r])
  <2>1. Len(order) \in Nat /\ DOMAIN order = 1..Len(order) /\ \A r \in DOMAIN order : order[r] \in DOMAIN groups
    BY <1>3
  <2>2. DOMAIN regions = 1..Len(regions) /\ Len(regions) = Len(order)
    BY <1>1 DEF Built
  <2>3. \A r \in 1..Len(order) : regions[r] = Views!Region(order[r])
    BY <1>1 DEF Built
  <2>. QED BY <2>1, <2>2, <2>3
<1>5. \A k \in 1..Len(d) : Views!Redefiners(d, k) = Naming(d, d[k].name, Len(d))
  BY <1>2 DEF Views!Redefiners, Naming
<1>6. ASSUME NEW r \in DOMAIN regions, NEW k \in 1..Len(d), order[r] = d[k].name
      PROVE  Views!IsRegionOf(r, d, k)
  <2>. DEFINE t == order[r]
              R == Naming(d, t, Len(d))
  <2>1. t \in DOMAIN groups /\ regions[r] = Views!Region(t)
    BY <1>4
  <2>2. ViewsOf(d, groups[t], t, Len(d))
    BY <1>3, <2>1
  <2>. HIDE DEF t
  <2>3. PICK x \in 1..Len(d) :
           /\ d[x].name = t /\ groups[t][1] = x
           /\ regions[r].target = t /\ regions[r].offset = Starts(d, x) /\ regions[r].length = Sized(d, x)
           /\ Len(regions[r].views) = Len(groups[t]) /\ DOMAIN regions[r].views = 1..Len(groups[t])
           /\ \A v \in 1..Len(groups[t]) :
                /\ regions[r].views[v].id = d[groups[t][v]].name /\ regions[r].views[v].fields # {}
    BY <1>1, <2>1, <2>2, RegionIs, SMTT(20)
  <2>4. x = k
    BY <1>1, <1>6, <2>3, BothReadIs DEF Laying, Distinct, t
  <2>5. /\ Len(groups[t]) = 1 + Cardinality(R)
        /\ \A j \in R : groups[t][1 + Cardinality({i \in R : i <= j})] = j
    BY <2>2 DEF ViewsOf
  <2>6. Cardinality(R) \in Nat /\ 1 \in 1..(1 + Cardinality(R))
    BY <1>2, NamingFinite
  <2>7. \A j \in R : 1 + Cardinality({i \in R : i <= j}) \in 1..(1 + Cardinality(R))
    <3>. TAKE j \in R
    <3>0. j \in 1..Len(d)
      BY DEF Naming
    <3>1. j \in Nat /\ IsFiniteSet(R)
      BY <1>2, <3>0, NamingFinite
    <3>2. {i \in R : i <= j} \subseteq R
      OBVIOUS
    <3>. DEFINE c == Cardinality({i \in R : i <= j})
    <3>3. c <= Cardinality(R) /\ c \in Nat
      BY <1>2, <3>1, <3>2, FS_Subset, NamingFinite
    <3>. HIDE DEF c, R
    <3>4. 1 + c \in 1..(1 + Cardinality(R))
      BY <2>6, <3>3
    <3>. QED BY <3>4 DEF c
  <2>. DEFINE Q == Views!Redefiners(d, k)
              views == regions[r].views
  <2>8. Q = R
    BY <1>5, <1>6 DEF t
  <2>. HIDE DEF R, Q
  <2>9. views[1].id = d[k].name
    BY <2>3, <2>4, <2>5, <2>6
  <2>10. \A j \in Q : views[1 + Cardinality({i \in Q : i <= j})].id = d[j].name
    BY <2>3, <2>5, <2>7, <2>8, SMTT(20)
  <2>11. \A v \in DOMAIN views : views[v].fields # {}
    BY <2>3
  <2>12. /\ regions[r].target = d[k].name /\ regions[r].offset = Views!Offsets(d)[k]
         /\ regions[r].length = Views!Sizes(d)[k] /\ Len(views) = 1 + Cardinality(Q)
    BY <2>3, <2>4, <2>5, <2>8 DEF Starts, Sized
  <2>. HIDE DEF views
  <2>. QED BY <2>9, <2>10, <2>11, <2>12, SameCount DEF Views!IsRegionOf, Q, views
<1>7. ASSUME NEW k \in DOMAIN d, Views!Redefiners(d, k) # {}
      PROVE  \E r \in DOMAIN regions :
               /\ Views!IsRegionOf(r, d, k)
               /\ \A q \in DOMAIN regions : regions[q].target = d[k].name => q = r
  <2>1. PICK j \in 1..Len(d) : d[j].redefines = d[k].name
    BY <1>2, <1>7 DEF Views!Redefiners
  <2>2. k \in 1..Len(d) /\ d[k].name \in DOMAIN groups
    BY <1>2, <1>3, <1>7, <2>1 DEF Targets
  <2>3. PICK r \in DOMAIN order : order[r] = d[k].name
    BY <1>3, <2>2
  <2>4. Views!IsRegionOf(r, d, k)
    BY <1>4, <1>6, <2>2, <2>3
  <2>5. ASSUME NEW q \in DOMAIN regions, regions[q].target = d[k].name PROVE q = r
    <3>1. regions[q].target = order[q]
      BY <1>4, TargetIs
    <3>. QED BY <1>3, <1>4, <2>3, <2>5, <3>1
  <2>. QED BY <1>4, <2>3, <2>4, <2>5
<1>8. ASSUME NEW r \in DOMAIN regions
      PROVE  \E k \in DOMAIN d : Views!Redefiners(d, k) # {} /\ regions[r].target = d[k].name
  <2>1. order[r] \in DOMAIN groups /\ regions[r].target = order[r]
    BY <1>4, TargetIs
  <2>2. PICK j \in 1..Len(d) : d[j].redefines = order[r] /\ d[j].redefines # NoName
    BY <1>3, <2>1 DEF Targets
  <2>3. PICK x \in 1..Len(d) : d[x].name = order[r]
    BY <1>1, <2>2, BaseIs
  <2>4. j \in Views!Redefiners(d, x)
    BY <1>2, <2>2, <2>3 DEF Views!Redefiners
  <2>. QED BY <1>2, <2>1, <2>3, <2>4
<1>. QED BY <1>7, <1>8

(* The manifest of a copybook that both readers agree on and the language   *)
(* allows is the overlapping storage: each item that is redefined has one   *)
(* region, of its own offset and length whatever the depth of its views,    *)
(* with it and its redefiners as the views in the order of the text, and    *)
(* there is no other region.                                               *)
THEOREM ViewsAreStorage == Spec => []RegionsAreStorage
<1>. DEFINE IInv == level = "views" => ViewsInv
<1>1. Init => IInv
  BY ViewStart DEF Init
<1>2. IInv /\ [Next]_vars => IInv'
  <2>. SUFFICES ASSUME IInv, [Next]_vars PROVE IInv'
    OBVIOUS
  <2>1. CASE UNCHANGED vars
    BY <2>1, ViewStutter DEF vars, textVars, viewVars
  <2>2. CASE level = "views" /\ Views!Next /\ level' = level
    BY <2>2, ViewStep
  <2>3. CASE level # "views" /\ level' = level
    BY <2>3
  <2>. QED BY <2>1, <2>2, <2>3 DEF Next
<1>3. IInv => RegionsAreStorage
  BY RegionsStand DEF RegionsAreStorage
<1>. QED BY <1>1, <1>2, <1>3, PTL DEF Spec
================================================================================
