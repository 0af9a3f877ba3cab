--------------------------------- MODULE Recon ---------------------------------
(***************************************************************************)
(* reconcile_impl (src/src/recon.rs), scalar and parallel. The records are *)
(* cut once; each is turned into an object on its own, by the calling      *)
(* thread in order or by the workers of a rayon pool in any order; the     *)
(* objects are then assembled by one thread in record order.               *)
(***************************************************************************)
EXTENDS Decode

CONSTANTS Calls, Workers, Caller, Pending, Empty, Idle

ASSUME CallerIsWorker == Caller \in Workers

ASSUME ReconCallsTyped ==
  \A c \in Calls :
    /\ c.recordLen \in Nat
    /\ c.data \in Seq(ToSet(c.data))
    /\ c.prog.laid \in Seq(ToSet(c.prog.laid))
    /\ c.prog.conditions \in Seq(ToSet(c.prog.conditions))
    /\ \A n \in DOMAIN c.prog.attrs : c.prog.attrs[n] \in Attrs

VARIABLES
  call,     \* the arguments, never written
  pc,       \* "start", "mapping", "done"
  chunks,   \* the records
  slots,    \* the object of each record, Empty until it is built
  busy,     \* the record each worker is at, or Idle
  outcome   \* what is returned, Pending until then

vars == <<call, pc, chunks, slots, busy, outcome>>

Init ==
  /\ call \in Calls
  /\ pc = "start"
  /\ chunks = <<>>
  /\ slots = <<>>
  /\ busy = [w \in Workers |-> Idle]
  /\ outcome = Pending

Return(value) ==
  /\ outcome' = value
  /\ pc' = "done"
  /\ UNCHANGED <<call, chunks, slots, busy>>

RefuseZeroLength ==
  /\ pc = "start"
  /\ call.recordLen = 0
  /\ Return(Refusal("zero-length"))

(* The collision check parses the copybook, so a copybook that does not    *)
(* parse is refused before its collisions are known.                       *)
RefuseCopybook ==
  /\ pc = "start"
  /\ call.recordLen > 0
  /\ ~call.parses
  /\ Return(Refusal("copybook"))

RefuseCollision ==
  /\ pc = "start"
  /\ call.recordLen > 0
  /\ call.parses /\ call.collides
  /\ Return(Refusal("collision"))

(* Mutant of Prepare: a trailing partial record is left out. *)
PrepareWholeOnly ==
  /\ pc = "start"
  /\ call.recordLen > 0
  /\ call.parses /\ ~call.collides
  /\ chunks' = SelectSeq(Chunks(call.data, call.recordLen),
                         LAMBDA rec : Len(rec) = call.recordLen)
  /\ slots' = [k \in DOMAIN chunks' |-> Empty]
  /\ pc' = "mapping"
  /\ UNCHANGED <<call, busy, outcome>>

Prepare ==
  /\ pc = "start"
  /\ call.recordLen > 0
  /\ call.parses /\ ~call.collides
  /\ chunks' = Chunks(call.data, call.recordLen)
  /\ slots' = [k \in DOMAIN chunks' |-> Empty]
  /\ pc' = "mapping"
  /\ UNCHANGED <<call, busy, outcome>>

Claimed(k) == \E w \in Workers : busy[w] = k

(* Rayon hands a record to an idle worker, in no particular order; the     *)
(* scalar path is the caller's own loop, in order.                         *)
Claim(w, k) ==
  /\ pc = "mapping"
  /\ busy[w] = Idle
  /\ slots[k] = Empty /\ ~Claimed(k)
  /\ ~call.parallel => w = Caller /\ \A j \in 1..(k - 1) : slots[j] # Empty
  /\ busy' = [busy EXCEPT ![w] = k]
  /\ UNCHANGED <<call, pc, chunks, slots, outcome>>

(* Mutant of Build: a short record is given back without an object. *)
BuildWholeOnly(w) ==
  /\ pc = "mapping"
  /\ busy[w] # Idle
  /\ IF Len(chunks[busy[w]]) = call.recordLen
     THEN slots' = [slots EXCEPT ![busy[w]] = RecordObject(call, busy[w] - 1, chunks[busy[w]])]
     ELSE slots' = slots
  /\ busy' = [busy EXCEPT ![w] = Idle]
  /\ UNCHANGED <<call, pc, chunks, outcome>>

(* The order-preserving collect: an object goes to its record's slot. *)
Build(w) ==
  /\ pc = "mapping"
  /\ busy[w] # Idle
  /\ slots' = [slots EXCEPT ![busy[w]] = RecordObject(call, busy[w] - 1, chunks[busy[w]])]
  /\ busy' = [busy EXCEPT ![w] = Idle]
  /\ UNCHANGED <<call, pc, chunks, outcome>>

(* Mutant of Assembled: the count is the first record's. *)
AssembledFirstCount ==
  [ok               |-> TRUE,
   objects          |-> slots,
   recordCount      |-> Len(chunks),
   unsupportedCount |-> IF slots = <<>> THEN 0 ELSE Cardinality(slots[1].unsupported),
   unsupportedItems |-> IF slots = <<>> THEN {} ELSE slots[1].unsupported]

(* The sum of the objects' counts of unsupported entries. *)
TotalUnsupported(objects) ==
  LET upTo[k \in 0..Len(objects)] ==
        IF k = 0 THEN 0 ELSE upTo[k - 1] + Cardinality(objects[k].unsupported)
  IN  upTo[Len(objects)]

(* The aggregation is serial: objects in record order, the count summed    *)
(* over all of them, the names those of the first record.                  *)
Assembled ==
  [ok               |-> TRUE,
   objects          |-> slots,
   recordCount      |-> Len(chunks),
   unsupportedCount |-> TotalUnsupported(slots),
   unsupportedItems |-> IF slots = <<>> THEN {} ELSE slots[1].unsupported]

AllBuilt == \A k \in DOMAIN slots : slots[k] # Empty

Assemble ==
  /\ pc = "mapping"
  /\ AllBuilt
  /\ Return(Assembled)

Terminated == pc = "done" /\ UNCHANGED vars

Work(w) == Build(w) \/ \E k \in DOMAIN slots : Claim(w, k)

Control ==
  \/ RefuseZeroLength
  \/ RefuseCopybook
  \/ RefuseCollision
  \/ Prepare
  \/ Assemble

Next == Control \/ (\E w \in Workers : Work(w)) \/ Terminated

(* Decoding a record always returns, and an idle pool thread takes work    *)
(* that is there: no record is left waiting for ever.                      *)
Fairness == WF_vars(Control) /\ \A w \in Workers : WF_vars(Work(w))

Spec == Init /\ [][Next]_vars /\ Fairness
-----------------------------------------------------------------------------
Succeeded == pc = "done" /\ outcome.ok

(* Byte p of the file is one of the bytes the object shows. *)
Shows(obj, p) == p - obj.rawOffset \in DOMAIN obj.raw

(* The written objects cover the input, a partial record at the end        *)
(* included: each byte of the file is shown by exactly one object, as it   *)
(* is, at its offset; no object shows anything else, and they come in the  *)
(* order of the file. Of each item with a picture an object says either    *)
(* the value or that it has none; a value only when all its bytes are      *)
(* there.                                                                  *)
ObjectsCoverInput ==
  Succeeded =>
    LET objects == outcome.objects IN
    /\ \A p \in DOMAIN call.data :
         \E k \in DOMAIN objects :
           /\ Shows(objects[k], p)
           /\ objects[k].raw[p - objects[k].rawOffset] = call.data[p]
           /\ \A j \in DOMAIN objects : Shows(objects[j], p) => j = k
    /\ \A k \in DOMAIN objects :
         LET obj == objects[k] IN
         /\ obj.raw # <<>>
         /\ \A i \in DOMAIN obj.raw : obj.rawOffset + i \in DOMAIN call.data
         /\ \A j \in 1..(k - 1) : objects[j].rawOffset < obj.rawOffset
         /\ \A f \in DOMAIN call.prog.laid :
              LET l == call.prog.laid[f] IN
              Attr(call.prog, l.name) # "none" =>
                /\ f \in obj.fields <=> <<"field", f>> \notin obj.unsupported
                /\ f \in obj.fields => l.offset + l.size <= Len(obj.raw)

(* Every call returns. *)
Returns == <>(pc = "done")

Evidence == INSTANCE ReconEvidence

(* Whatever the threads do, the outcome is the one the call determines.    *)
ImplementsEvidence == Evidence!Spec
===============================================================================
