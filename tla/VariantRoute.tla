------------------------------ MODULE VariantRoute ------------------------------
(***************************************************************************)
(* variant_route (src/src/variant.rs): each record of a file is routed to  *)
(* the first declared type whose discriminator value it carries and is     *)
(* decoded under that type's copybook; one that carries none is refused.   *)
(***************************************************************************)
EXTENDS Integers, Sequences, SequencesExt, FiniteSetsExt

CONSTANTS Calls, NoType, NoOutput

(* Every declared value has bytes: an empty one would claim each record    *)
(* that is too short for the discriminator.                                *)
CallsTyped ==
  \A c \in Calls :
    /\ c.offset \in Nat /\ c.length \in Nat
    /\ c.records \in Seq(ToSet(c.records))
    /\ \A rec \in ToSet(c.records) : rec \in Seq(ToSet(rec))
    /\ c.types \in Seq(ToSet(c.types))
    /\ \A t \in ToSet(c.types) : t.value \in Seq(ToSet(t.value)) /\ t.value # <<>>
    /\ NoType \notin DOMAIN c.types

VARIABLES
  call,     \* records, offset and length of the discriminator, types
  pc,       \* "routing", "done" or "error"
  entries,  \* the type of each record seen, NoType for one refused
  byType,   \* one counter per declared type, in their order
  routed, unmatched,
  output    \* the manifest, NoOutput until it is made

vars == <<call, pc, entries, byType, routed, unmatched, output>>

Init ==
  /\ call \in Calls
  /\ pc = "routing"
  /\ entries = <<>>
  /\ byType = [k \in DOMAIN call.types |-> 0]
  /\ routed = 0
  /\ unmatched = 0
  /\ output = NoOutput

More == Len(entries) < Len(call.records)
Rec == call.records[Len(entries) + 1]

(* A record too short for the discriminator has the empty one. *)
Discriminator(rec) ==
  IF call.offset + call.length <= Len(rec)
  THEN SubSeq(rec, call.offset + 1, call.offset + call.length) ELSE <<>>

Matching(rec) == {k \in DOMAIN call.types : call.types[k].value = Discriminator(rec)}

(* Mutant of Route: the last type declared for a value is taken. *)
RouteLast(rec) == Max(Matching(rec))

Route(rec) == Min(Matching(rec))

(* A counter is found by the name of the type. *)
Slot(k) == Min({j \in DOMAIN call.types : call.types[j].name = call.types[k].name})

RouteRecord ==
  /\ pc = "routing" /\ More
  /\ Matching(Rec) # {}
  /\ call.types[Route(Rec)].parses
  /\ entries' = Append(entries, Route(Rec))
  /\ routed' = routed + 1
  /\ byType' = [byType EXCEPT ![Slot(Route(Rec))] = @ + 1]
  /\ UNCHANGED <<call, pc, unmatched, output>>

(* The counters were already moved when the copybook turns out not to parse. *)
FailRecord ==
  /\ pc = "routing" /\ More
  /\ Matching(Rec) # {}
  /\ ~call.types[Route(Rec)].parses
  /\ routed' = routed + 1
  /\ byType' = [byType EXCEPT ![Slot(Route(Rec))] = @ + 1]
  /\ pc' = "error"
  /\ UNCHANGED <<call, entries, unmatched, output>>

RefuseRecord ==
  /\ pc = "routing" /\ More
  /\ Matching(Rec) = {}
  /\ entries' = Append(entries, NoType)
  /\ unmatched' = unmatched + 1
  /\ UNCHANGED <<call, pc, byType, routed, output>>

Finish ==
  /\ pc = "routing" /\ ~More
  /\ output' = [routed |-> routed, unmatched |-> unmatched, entries |-> entries,
                byType |-> [k \in DOMAIN byType |-> <<call.types[k].name, byType[k]>>]]
  /\ pc' = "done"
  /\ UNCHANGED <<call, entries, byType, routed, unmatched>>

Terminated == pc \in {"done", "error"} /\ UNCHANGED vars

Next == RouteRecord \/ FailRecord \/ RefuseRecord \/ Finish \/ Terminated

Spec == Init /\ [][Next]_vars
-----------------------------------------------------------------------------
TypeOK ==
  /\ pc \in {"routing", "done", "error"}
  /\ Len(entries) <= Len(call.records)
  /\ ToSet(entries) \subseteq DOMAIN call.types \cup {NoType}
  /\ byType \in [DOMAIN call.types -> 0..Len(call.records)]
  /\ {routed, unmatched} \subseteq 0..Len(call.records)
  /\ output # NoOutput => pc = "done"

NameOf(k) == call.types[k].name
Named(name) == {k \in DOMAIN entries : entries[k] # NoType /\ NameOf(entries[k]) = name}

(* The bytes of a record at the discriminator's place are a type's value.  *)
Claims(t, rec) ==
  /\ call.offset + call.length <= Len(rec)
  /\ Len(t.value) = call.length
  /\ \A j \in 1..call.length : t.value[j] = rec[call.offset + j]

(* The type a record is decoded under claims it and no type declared       *)
(* before does; one that is refused is claimed by none.                    *)
EntriesClaimed ==
  \A k \in DOMAIN entries :
    \A j \in (IF entries[k] = NoType THEN DOMAIN call.types ELSE 1..entries[k]) :
      Claims(call.types[j], call.records[k]) <=> j = entries[k]

(* No record is guessed onto a layout. The manifest accounts for every     *)
(* record that way, and however many types share a name, the first counter *)
(* of the name has all the records decoded under it and the others none.   *)
NeverGuessed ==
  /\ EntriesClaimed
  /\ pc = "done" =>
       /\ output.entries = entries /\ Len(entries) = Len(call.records)
       /\ output.unmatched = Cardinality({k \in DOMAIN entries : entries[k] = NoType})
       /\ output.routed + output.unmatched = Len(call.records)
       /\ \A k \in DOMAIN call.types :
            output.byType[k] =
              <<NameOf(k), IF \E j \in DOMAIN call.types : j < k /\ NameOf(j) = NameOf(k) THEN 0
                           ELSE Cardinality(Named(NameOf(k)))>>
================================================================================
