-------------------------------- MODULE DataItem --------------------------------
(***************************************************************************)
(* parse_item (src/src/lib.rs): the words of one declaration, after its    *)
(* level and name, are read from left to right. A keyword takes the words  *)
(* that belong to it when they are there, any other word is passed over.   *)
(***************************************************************************)
EXTENDS Integers, Sequences, SequencesExt, FiniteSets

CONSTANTS Declarations, None

(* A declaration is a sequence of clauses, a clause a sequence of words. *)
VARIABLES decl, at, pic, usage, occurs, redefines, odo, separate, leading

DeclarationsTyped == \A d \in Declarations : d \in Seq(Seq(STRING))

vars == <<decl, at, pic, usage, occurs, redefines, odo, separate, leading>>

Words == FlattenSeq(decl)

UsageOf ==
  LET packed == {"COMP-3", "PACKED-DECIMAL", "COMPUTATIONAL-3"}
      binary == {"COMP", "BINARY", "COMPUTATIONAL"}
      unsigned == {"COMP-6", "COMPUTATIONAL-6"}
  IN  [w \in packed \cup binary \cup unsigned \cup {"COMP-5", "COMP-X", "DISPLAY"} |->
         CASE w \in packed -> "COMP-3"
           [] w \in binary -> "COMP"
           [] w \in unsigned -> "COMP-6"
           [] OTHER -> w]

Init ==
  /\ decl \in Declarations
  /\ at = 1
  /\ pic = None
  /\ usage = "DISPLAY"
  /\ occurs = None
  /\ redefines = None
  /\ odo = None
  /\ separate = FALSE
  /\ leading = FALSE

Word == Words[at]
More == at <= Len(Words)
Has(n) == at + n <= Len(Words)

ReadPicture ==
  /\ More /\ Word \in {"PIC", "PICTURE"} /\ Has(1)
  /\ pic' = Words[at + 1]
  /\ at' = at + 2
  /\ UNCHANGED <<decl, usage, occurs, redefines, odo, separate, leading>>

ReadUsage ==
  /\ More /\ Word \in DOMAIN UsageOf
  /\ usage' = UsageOf[Word]
  /\ at' = at + 1
  /\ UNCHANGED <<decl, pic, occurs, redefines, odo, separate, leading>>

(* OCCURS min TO max ... DEPENDING ON name: the name is looked for in the  *)
(* rest of the line, "" when it is not there.                              *)
Depending ==
  LET found == {k \in (at + 4)..(Len(Words) - 2) :
                  Words[k] = "DEPENDING" /\ Words[k + 1] = "ON"}
  IN  IF found = {} THEN "" ELSE Words[(CHOOSE k \in found : \A j \in found : k <= j) + 2]

(* Mutant of IsOdo: the word TO is looked for one word too far. *)
IsOdoLate == Has(3) /\ Words[at + 3] = "TO"

IsOdo == Has(3) /\ Words[at + 2] = "TO"

ReadDepending ==
  /\ More /\ Word = "OCCURS" /\ IsOdo
  /\ odo' = [min |-> Words[at + 1], max |-> Words[at + 3], on |-> Depending]
  /\ at' = at + 4
  /\ UNCHANGED <<decl, pic, usage, occurs, redefines, separate, leading>>

ReadOccurs ==
  /\ More /\ Word = "OCCURS" /\ ~IsOdo /\ Has(1)
  /\ occurs' = Words[at + 1]
  /\ at' = at + 2
  /\ UNCHANGED <<decl, pic, usage, redefines, odo, separate, leading>>

ReadRedefines ==
  /\ More /\ Word = "REDEFINES" /\ Has(1)
  /\ redefines' = Words[at + 1]
  /\ at' = at + 2
  /\ UNCHANGED <<decl, pic, usage, occurs, odo, separate, leading>>

ReadSign ==
  /\ More /\ Word \in {"SEPARATE", "LEADING"}
  /\ separate' = (separate \/ Word = "SEPARATE")
  /\ leading' = (leading \/ Word = "LEADING")
  /\ at' = at + 1
  /\ UNCHANGED <<decl, pic, usage, occurs, redefines, odo>>

PassOver ==
  /\ More
  /\ Word \notin DOMAIN UsageOf \cup {"SEPARATE", "LEADING"}
  /\ Word \in {"PIC", "PICTURE", "OCCURS", "REDEFINES"} => ~Has(1)
  /\ at' = at + 1
  /\ UNCHANGED <<decl, pic, usage, occurs, redefines, odo, separate, leading>>

Terminated == ~More /\ UNCHANGED vars

Next ==
  \/ ReadPicture \/ ReadUsage \/ ReadDepending \/ ReadOccurs \/ ReadRedefines \/ ReadSign
  \/ PassOver
  \/ Terminated

Spec == Init /\ [][Next]_vars
-----------------------------------------------------------------------------
TypeOK ==
  /\ decl \in Declarations
  /\ at \in 1..(Len(Words) + 1)
  /\ {pic, occurs, redefines} \subseteq ToSet(Words) \cup {None}
  /\ usage \in {"DISPLAY", "COMP", "COMP-3", "COMP-5", "COMP-6", "COMP-X"}

(* The clauses that are understood, each of its own words; no keyword is in *)
(* one of them but where it belongs.                                        *)
Keywords == DOMAIN UsageOf \cup {"PIC", "PICTURE", "OCCURS", "REDEFINES", "SEPARATE", "LEADING"}

NoKeyword(c, first, last) == \A n \in first..last : c[n] \notin Keywords

IsPicture(c) == c[1] \in {"PIC", "PICTURE"} /\ Len(c) = 2
IsRedefines(c) == c[1] = "REDEFINES" /\ Len(c) = 2
IsUsage(c) == Last(c) \in DOMAIN UsageOf /\ \A n \in 1..(Len(c) - 1) : c[n] \in {"USAGE", "IS"}
IsSign(c) ==
  ToSet(c) \subseteq {"SIGN", "IS", "LEADING", "TRAILING", "SEPARATE", "CHARACTER"}
IsTable(c) ==
  /\ c[1] = "OCCURS" /\ Len(c) >= 2 /\ NoKeyword(c, 3, Len(c))
  /\ Len(c) >= 3 => c[3] # "TO"
IsDepending(c) ==
  /\ c[1] = "OCCURS" /\ Len(c) >= 7 /\ c[3] = "TO" /\ NoKeyword(c, 5, Len(c))
  /\ c[Len(c) - 2] = "DEPENDING" /\ c[Len(c) - 1] = "ON"
  /\ \A n \in 5..(Len(c) - 3) : c[n] # "DEPENDING"
IsOther(c) == NoKeyword(c, 1, Len(c)) /\ c[1] # "TO"

(* A declaration of such clauses, at most one of a kind but the sign's. *)
WellFormed ==
  \A k \in DOMAIN decl :
    LET c == decl[k]
        Only(Is(_)) == Is(c) /\ \A j \in DOMAIN decl : Is(decl[j]) => j = k
    IN  /\ Len(c) >= 1
        /\ \/ Only(IsPicture) \/ Only(IsRedefines) \/ Only(IsUsage)
           \/ Only(IsTable) \/ Only(IsDepending)
           \/ IsSign(c) \/ IsOther(c)

(* What is read of the one clause of a kind, when there is one. *)
ReadOf(Is(_), Argument(_), none) ==
  IF \E c \in ToSet(decl) : Is(c) THEN Argument(CHOOSE c \in ToSet(decl) : Is(c)) ELSE none

(* However the clauses of a declaration are ordered, each is read, from    *)
(* its own words and from no other's: what is read is what the clauses     *)
(* say one by one.                                                         *)
ReadsEachClause ==
  ~More /\ WellFormed =>
    LET Second(c) == c[2]
        Use(c) == UsageOf[Last(c)]
        Table(c) == [min |-> c[2], max |-> c[4], on |-> Last(c)]
        Sign(word) == \E c \in ToSet(decl) : IsSign(c) /\ word \in ToSet(c)
    IN  /\ pic = ReadOf(IsPicture, Second, None)
        /\ redefines = ReadOf(IsRedefines, Second, None)
        /\ usage = ReadOf(IsUsage, Use, "DISPLAY")
        /\ occurs = ReadOf(IsTable, Second, None)
        /\ odo = ReadOf(IsDepending, Table, None)
        /\ separate = Sign("SEPARATE") /\ leading = Sign("LEADING")
================================================================================
