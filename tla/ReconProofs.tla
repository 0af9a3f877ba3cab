------------------------------- MODULE ReconProofs -------------------------------
(***************************************************************************)
(* For any number of workers, records and calls: what a reconciliation     *)
(* returns is a function of its call. A slot only ever holds nothing or    *)
(* the object of its record, so that it does not matter which worker built *)
(* it, when, or that two workers were at it; and the assembly starts when  *)
(* none is left empty. In that outcome every byte of the file is in one    *)
(* object, which follows from how records are cut (CutOnce).               *)
(***************************************************************************)
EXTENDS Recon, TLAPS, SequenceTheorems, FiniteSetTheorems, NaturalsInduction

ObjectsOf(c) ==
  [k \in DOMAIN Chunks(c.data, c.recordLen) |->
     RecordObject(c, k - 1, Chunks(c.data, c.recordLen)[k])]

EvidenceOf(c) ==
  [ok               |-> TRUE,
   objects          |-> ObjectsOf(c),
   recordCount      |-> Len(Chunks(c.data, c.recordLen)),
   unsupportedCount |-> TotalUnsupported(ObjectsOf(c)),
   unsupportedItems |-> IF ObjectsOf(c) = <<>> THEN {} ELSE ObjectsOf(c)[1].unsupported]

Accepted(c) == c.recordLen > 0 /\ c.parses /\ ~c.collides

(* The first reason to refuse, in the order of the code, or the evidence.  *)
OutcomeOf(c) ==
  IF c.recordLen = 0 THEN Refusal("zero-length")
  ELSE IF ~c.parses THEN Refusal("copybook")
  ELSE IF c.collides THEN Refusal("collision")
  ELSE EvidenceOf(c)

(* Scalar or parallel, and however the workers are scheduled, the call      *)
(* returns what it alone determines.                                       *)
OutcomeIsOfCall == pc = "done" => outcome = OutcomeOf(call)

Mapping ==
  /\ Accepted(call)
  /\ chunks = Chunks(call.data, call.recordLen)
  /\ slots = [k \in DOMAIN chunks |-> slots[k]]
  /\ \A k \in DOMAIN chunks : slots[k] \in {Empty, RecordObject(call, k - 1, chunks[k])}
  /\ busy = [w \in Workers |-> busy[w]]
  /\ \A w \in Workers : busy[w] # Idle => busy[w] \in DOMAIN chunks

IInv ==
  /\ pc \in {"start", "mapping", "done"}
  /\ pc = "start" => busy = [w \in Workers |-> Idle]
  /\ pc = "mapping" => Mapping
  /\ OutcomeIsOfCall

CallKept == call \in Calls

LEMMA InitIInv == Init => IInv
  BY DEF Init, IInv, OutcomeIsOfCall

LEMMA StepIInv == IInv /\ [Next]_vars => IInv'
<1>. SUFFICES ASSUME IInv, [Next]_vars PROVE IInv'
  OBVIOUS
<1>1. CASE RefuseZeroLength
  BY <1>1 DEF RefuseZeroLength, Return, IInv, OutcomeIsOfCall, OutcomeOf
<1>2. CASE RefuseCopybook
  BY <1>2 DEF RefuseCopybook, Return, IInv, OutcomeIsOfCall, OutcomeOf
<1>3. CASE RefuseCollision
  BY <1>3 DEF RefuseCollision, Return, IInv, OutcomeIsOfCall, OutcomeOf
<1>4. CASE Prepare
  <2>1. /\ pc = "start" /\ pc' = "mapping" /\ call' = call /\ busy' = busy
        /\ Accepted(call)
        /\ chunks' = Chunks(call.data, call.recordLen)
        /\ slots' = [k \in DOMAIN chunks' |-> Empty]
    BY <1>4 DEF Prepare, Accepted
  <2>2. busy = [w \in Workers |-> Idle]
    BY <2>1 DEF IInv
  <2>3. Mapping'
    BY <2>1, <2>2 DEF Mapping
  <2>. QED BY <2>1, <2>3 DEF IInv, OutcomeIsOfCall
<1>5. CASE Assemble
  <2>1. /\ pc = "mapping" /\ AllBuilt /\ outcome' = Assembled /\ pc' = "done"
        /\ UNCHANGED <<call, chunks, slots, busy>>
    BY <1>5 DEF Assemble, Return
  <2>2. Mapping
    BY <2>1 DEF IInv
  <2>3. \A k \in DOMAIN chunks : slots[k] = RecordObject(call, k - 1, chunks[k])
    <3>1. DOMAIN slots = DOMAIN chunks
      BY <2>2 DEF Mapping
    <3>. QED BY <2>1, <2>2, <3>1 DEF Mapping, AllBuilt
  <2>4. slots = ObjectsOf(call) /\ chunks = Chunks(call.data, call.recordLen)
    <3>1. slots = [k \in DOMAIN chunks |-> RecordObject(call, k - 1, chunks[k])]
      BY <2>2, <2>3 DEF Mapping
    <3>. QED BY <2>2, <3>1 DEF Mapping, ObjectsOf
  <2>5. Assembled = EvidenceOf(call)
    BY <2>4 DEF Assembled, EvidenceOf
  <2>6. OutcomeOf(call) = EvidenceOf(call)
    BY <2>2 DEF Mapping, Accepted, OutcomeOf
  <2>. QED BY <2>1, <2>5, <2>6 DEF IInv, OutcomeIsOfCall
<1>6. ASSUME NEW w \in Workers, Work(w) PROVE IInv'
  <2>1. CASE Build(w)
    <3>. DEFINE n == busy[w]
                object == RecordObject(call, n - 1, chunks[n])
    <3>1. /\ pc = "mapping" /\ n # Idle /\ UNCHANGED <<call, pc, chunks, outcome>>
          /\ slots' = [slots EXCEPT ![n] = object]
          /\ busy' = [busy EXCEPT ![w] = Idle]
      BY <2>1 DEF Build
    <3>2. Mapping /\ n \in DOMAIN chunks
      BY <3>1, <1>6 DEF IInv, Mapping
    <3>3. /\ slots' = [k \in DOMAIN chunks |-> slots'[k]]
          /\ \A k \in DOMAIN chunks : slots'[k] \in {Empty, RecordObject(call, k - 1, chunks[k])}
      <4>. HIDE DEF n
      <4>1. \A k \in DOMAIN chunks : slots'[k] = IF k = n THEN object ELSE slots[k]
        BY <3>1, <3>2 DEF Mapping
      <4>2. slots' = [k \in DOMAIN chunks |-> slots'[k]]
        BY <3>1, <3>2 DEF Mapping
      <4>. QED BY <3>2, <4>1, <4>2 DEF Mapping
    <3>4. /\ busy' = [v \in Workers |-> busy'[v]]
          /\ \A v \in Workers : busy'[v] # Idle => busy'[v] \in DOMAIN chunks
      BY <3>1, <3>2 DEF Mapping
    <3>5. Mapping'
      BY <3>1, <3>2, <3>3, <3>4 DEF Mapping
    <3>. QED BY <3>1, <3>5 DEF IInv, OutcomeIsOfCall
  <2>2. CASE \E k \in DOMAIN slots : Claim(w, k)
    <3>1. PICK k \in DOMAIN slots : Claim(w, k)
      BY <2>2
    <3>2. /\ pc = "mapping" /\ busy' = [busy EXCEPT ![w] = k]
          /\ UNCHANGED <<call, pc, chunks, slots, outcome>>
      BY <3>1 DEF Claim
    <3>3. Mapping /\ k \in DOMAIN chunks
      BY <3>1, <3>2 DEF IInv, Mapping
    <3>4. /\ busy' = [v \in Workers |-> busy'[v]]
          /\ \A v \in Workers : busy'[v] # Idle => busy'[v] \in DOMAIN chunks
      BY <3>2, <3>3 DEF Mapping
    <3>5. Mapping'
      BY <3>2, <3>3, <3>4 DEF Mapping
    <3>. QED BY <3>2, <3>5 DEF IInv, OutcomeIsOfCall
  <2>. QED BY <1>6, <2>1, <2>2 DEF Work
<1>7. CASE UNCHANGED vars
  <2>1. Mapping' <=> Mapping
    BY <1>7 DEF vars, Mapping
  <2>. QED BY <1>7, <2>1 DEF vars, IInv, OutcomeIsOfCall
<1>. QED BY <1>1, <1>2, <1>3, <1>4, <1>5, <1>6, <1>7 DEF Next, Control, Terminated

(* Records are decoded by any number of threads that finish in any order:  *)
(* the evidence, and each refusal, is that of the call.                    *)
THEOREM SchedulingInvisible == Spec => []OutcomeIsOfCall
<1>1. IInv => OutcomeIsOfCall
  BY DEF IInv
<1>. QED BY <1>1, InitIInv, StepIInv, PTL DEF Spec

-----------------------------------------------------------------------------
LEMMA Division ==
  ASSUME NEW a \in Nat, NEW b \in Nat, b > 0
  PROVE  /\ a \div b \in Nat
         /\ (a \div b) * b <= a
         /\ a < (a \div b) * b + b
  BY SMT

LEMMA Multiples ==
  ASSUME NEW i \in Nat, NEW j \in Nat, NEW n \in Nat, i < j
  PROVE  i * n + n <= j * n
<1>1. PICK d \in Nat : j = i + 1 + d
  <2>1. j - i - 1 \in Nat
    OBVIOUS
  <2>. QED BY <2>1
<1>2. j * n = i * n + n + d * n
  BY <1>1, SMT
<1>3. d * n \in Nat
  BY SMT
<1>4. i * n \in Nat
  BY SMT
<1>. QED BY <1>2, <1>3, <1>4

(* The end of record k, which the last one may not reach.                  *)
EndOf(s, n, k) == IF k * n < Len(s) THEN k * n ELSE Len(s)

LEMMA ChunkIs ==
  ASSUME NEW S, NEW s \in Seq(S), NEW n \in Nat, n > 0, NEW k \in DOMAIN Chunks(s, n)
  PROVE  /\ k \in Nat \ {0}
         /\ (k - 1) * n \in Nat /\ EndOf(s, n, k) \in Nat
         /\ (k - 1) * n < EndOf(s, n, k) /\ EndOf(s, n, k) <= Len(s)
         /\ DOMAIN Chunks(s, n)[k] = 1..(EndOf(s, n, k) - (k - 1) * n)
         /\ \A i \in DOMAIN Chunks(s, n)[k] : Chunks(s, n)[k][i] = s[(k - 1) * n + i]
<1>. DEFINE c == (Len(s) + n - 1) \div n
            lo == (k - 1) * n + 1
            hi == EndOf(s, n, k)
<1>1. Len(s) \in Nat /\ Len(s) + n - 1 \in Nat
  OBVIOUS
<1>2. c \in Nat /\ k \in 1..c
  BY <1>1, Division DEF Chunks
<1>3. k \in Nat \ {0} /\ k - 1 \in Nat
  BY <1>2
<1>4. (k - 1) * n \in Nat /\ k * n \in Nat /\ lo \in Nat /\ hi \in Nat
  <2>1. (k - 1) * n \in Nat /\ k * n \in Nat
    BY <1>3, SMT
  <2>. QED BY <1>1, <2>1 DEF EndOf
<1>5. Chunks(s, n)[k] = SubSeq(s, lo, hi)
  BY <1>2 DEF Chunks, EndOf
<1>. HIDE DEF c
<1>6. (k - 1) * n < hi /\ hi <= Len(s)
  <2>1. c * n <= Len(s) + n - 1
    BY <1>1, Division DEF c
  <2>2. (k - 1) * n + n <= k * n /\ (k - 1) * n + n <= c * n
    <3>1. k - 1 < k /\ k - 1 < c
      BY <1>2
    <3>. QED BY <1>2, <1>3, <3>1, Multiples
  <2>3. c * n \in Int
    BY <1>2, SMT
  <2>. QED BY <1>1, <1>4, <2>1, <2>2, <2>3 DEF EndOf
<1>. HIDE DEF hi
<1>7. /\ DOMAIN SubSeq(s, lo, hi) = 1..(hi - lo + 1)
      /\ \A i \in 1..(hi - lo + 1) : SubSeq(s, lo, hi)[i] = s[lo + i - 1]
  BY <1>1, <1>4, <1>6, SubSeqProperties
<1>8. hi - lo + 1 = hi - (k - 1) * n
  BY <1>4
<1>9. \A i \in 1..(hi - (k - 1) * n) : lo + i - 1 = (k - 1) * n + i
  BY <1>4
<1>. QED BY <1>3, <1>4, <1>5, <1>6, <1>7, <1>8, <1>9 DEF hi

(* Cutting loses no byte and repeats none: byte p is in record k, where it  *)
(* is itself, and in no other.                                             *)
LEMMA CutOnce ==
  ASSUME NEW S, NEW s \in Seq(S), NEW n \in Nat, n > 0, NEW p \in 1..Len(s)
  PROVE  \E k \in DOMAIN Chunks(s, n) :
           /\ p - (k - 1) * n \in DOMAIN Chunks(s, n)[k]
           /\ Chunks(s, n)[k][p - (k - 1) * n] = s[p]
           /\ \A j \in DOMAIN Chunks(s, n) :
                p - (j - 1) * n \in DOMAIN Chunks(s, n)[j] => j = k
<1>. DEFINE q == (p - 1) \div n
            c == (Len(s) + n - 1) \div n
<1>1. Len(s) \in Nat /\ p \in Nat /\ p <= Len(s) /\ p - 1 \in Nat
  OBVIOUS
<1>2. q \in Nat /\ q * n <= p - 1 /\ p - 1 < q * n + n
  BY <1>1, Division
<1>3. c \in Nat /\ c * n <= Len(s) + n - 1 /\ Len(s) + n - 1 < c * n + n
  BY <1>1, Division
<1>4. DOMAIN Chunks(s, n) = 1..c
  BY DEF Chunks
<1>. HIDE DEF q, c
<1>5. q * n \in Nat /\ c * n \in Nat /\ (q + 1) * n = q * n + n
  BY <1>2, <1>3, SMT
<1>6. q + 1 \in 1..c
  <2>1. CASE c < q + 1
    <3>1. c <= q
      BY <1>2, <1>3, <2>1
    <3>2. c * n <= q * n
      <4>1. CASE c < q
        <5>1. c * n + n <= q * n
          BY <1>2, <1>3, <4>1, Multiples
        <5>. QED BY <1>5, <5>1
      <4>2. CASE c = q
        BY <1>5, <4>2
      <4>. QED BY <1>2, <1>3, <3>1, <4>1, <4>2
    <3>. QED BY <1>1, <1>2, <1>3, <1>5, <3>2
  <2>. QED BY <1>2, <1>3, <2>1
<1>7. \A j \in DOMAIN Chunks(s, n) :
        p - (j - 1) * n \in DOMAIN Chunks(s, n)[j] => j = q + 1
  <2>. SUFFICES ASSUME NEW j \in DOMAIN Chunks(s, n), p - (j - 1) * n \in DOMAIN Chunks(s, n)[j]
                PROVE  j = q + 1
    OBVIOUS
  <2>1. j \in Nat \ {0} /\ j - 1 \in Nat
    <3>1. j \in Nat \ {0}
      BY ChunkIs, Zenon
    <3>. QED BY <3>1
  <2>2. (j - 1) * n \in Nat /\ j * n \in Nat /\ j * n = (j - 1) * n + n
    BY <2>1, SMT
  <2>3. p - (j - 1) * n >= 1 /\ p - (j - 1) * n <= j * n - (j - 1) * n
    <3>1. p - (j - 1) * n \in 1..(EndOf(s, n, j) - (j - 1) * n)
      BY ChunkIs
    <3>. QED BY <1>1, <2>2, <3>1 DEF EndOf
  <2>4. CASE j - 1 < q
    <3>1. (j - 1) * n + n <= q * n
      BY <1>2, <2>1, <2>4, Multiples
    <3>. QED BY <1>1, <1>2, <1>5, <2>2, <2>3, <3>1
  <2>5. CASE q < j - 1
    <3>1. q * n + n <= (j - 1) * n
      BY <1>2, <2>1, <2>5, Multiples
    <3>. QED BY <1>1, <1>2, <1>5, <2>2, <2>3, <3>1
  <2>. QED BY <1>2, <2>1, <2>4, <2>5
<1>8. /\ p - q * n \in DOMAIN Chunks(s, n)[q + 1]
      /\ Chunks(s, n)[q + 1][p - q * n] = s[p]
  <2>1. q + 1 \in DOMAIN Chunks(s, n) /\ (q + 1) - 1 = q
    BY <1>2, <1>4, <1>6
  <2>2. p - q * n \in 1..(EndOf(s, n, q + 1) - q * n)
    BY <1>1, <1>2, <1>5 DEF EndOf
  <2>3. /\ DOMAIN Chunks(s, n)[q + 1] = 1..(EndOf(s, n, q + 1) - ((q + 1) - 1) * n)
        /\ \A i \in DOMAIN Chunks(s, n)[q + 1] :
             Chunks(s, n)[q + 1][i] = s[((q + 1) - 1) * n + i]
    BY <2>1, ChunkIs
  <2>4. q * n + (p - q * n) = p
    BY <1>1, <1>5
  <2>. QED BY <2>1, <2>2, <2>3, <2>4
<1>9. (q + 1) - 1 = q
  BY <1>2
<1>. QED BY <1>4, <1>6, <1>7, <1>8, <1>9

(* Of the items with a picture, an object says the value or that it has    *)
(* none, and a value only when its bytes are there.                        *)
LEMMA FieldsJudged ==
  ASSUME NEW c \in Calls, NEW n, NEW rec, NEW f \in DOMAIN c.prog.laid,
         Attr(c.prog, c.prog.laid[f].name) # "none"
  PROVE  LET obj == RecordObject(c, n, rec)
             l == c.prog.laid[f]
         IN  /\ f \in obj.fields <=> <<"field", f>> \notin obj.unsupported
             /\ f \in obj.fields => l.offset + l.size <= Len(rec)
<1>. DEFINE obj == RecordObject(c, n, rec)
            l == c.prog.laid[f]
            category == Category(c.prog, l, rec, c.encoding)
            values == {"numeric", "alphanumeric", "edited"}
<1>1. Attr(c.prog, l.name) \in Attrs
  BY ReconCallsTyped DEF Attr
<1>2. category \in values \cup {"unsupported"}
  BY <1>1 DEF Category, Attrs, NumericDomains
<1>3. category \in values => Slice(rec, l) # NoBytes
  BY <1>1 DEF Category, Attrs, NumericDomains
<1>4. Slice(rec, l) # NoBytes => l.offset + l.size <= Len(rec)
  BY DEF Slice
<1>5. f \in obj.fields <=> category \in values
  BY DEF RecordObject, FieldsIn
<1>6. <<"field", f>> \in obj.unsupported <=> category = "unsupported"
  BY DEF RecordObject, Unsupported, FieldsIn
<1>. HIDE DEF category
<1>7. category \in values <=> category # "unsupported"
  BY <1>2
<1>. QED BY <1>3, <1>4, <1>5, <1>6, <1>7

(* Each object shows bytes of the file only, and some.                     *)
LEMMA WithinFile ==
  ASSUME NEW S, NEW s \in Seq(S), NEW n \in Nat, n > 0, NEW k \in DOMAIN Chunks(s, n)
  PROVE  /\ Chunks(s, n)[k] # <<>>
         /\ \A i \in DOMAIN Chunks(s, n)[k] : (k - 1) * n + i \in DOMAIN s
<1>. DEFINE lo == (k - 1) * n
            hi == EndOf(s, n, k)
<1>1. /\ lo \in Nat /\ hi \in Nat /\ lo < hi /\ hi <= Len(s)
      /\ DOMAIN Chunks(s, n)[k] = 1..(hi - lo)
  BY ChunkIs
<1>2. DOMAIN s = 1..Len(s) /\ Len(s) \in Nat
  OBVIOUS
<1>. HIDE DEF lo, hi
<1>3. 1 \in DOMAIN Chunks(s, n)[k]
  BY <1>1
<1>4. \A i \in 1..(hi - lo) : lo + i \in 1..Len(s)
  BY <1>1, <1>2
<1>. QED BY <1>1, <1>2, <1>3, <1>4 DEF lo

LEMMA InOrder ==
  ASSUME NEW i \in Nat, NEW j \in Nat, NEW n \in Nat, n > 0, i < j
  PROVE  i * n < j * n
<1>1. i * n \in Nat /\ j * n \in Nat
  BY SMT
<1>. QED BY <1>1, Multiples

LEMMA StepKeepsCall == CallKept /\ [Next]_vars => CallKept'
<1>1. [Next]_vars => call' = call
  BY DEF Next, vars, Control, RefuseZeroLength, RefuseCopybook, RefuseCollision, Prepare,
         Assemble, Return, Terminated, Work, Build, Claim
<1>. QED BY <1>1 DEF CallKept

(* However the records are scheduled, a reconciliation that succeeds shows  *)
(* every byte of the file once, in the object of its record, a partial      *)
(* record at the end included; and each object says of every item with a   *)
(* picture the value or that there is none.                                *)
THEOREM InputCovered == Spec => []ObjectsCoverInput
<1>1. Init => CallKept
  BY DEF Init, CallKept
<1>2. CallKept /\ OutcomeIsOfCall => ObjectsCoverInput
  <2>. SUFFICES ASSUME CallKept, OutcomeIsOfCall, pc = "done", outcome.ok
                PROVE  ObjectsCoverInput
    BY DEF ObjectsCoverInput, Succeeded
  <2>1. call.recordLen \in Nat /\ call.data \in Seq(ToSet(call.data))
    BY ReconCallsTyped DEF CallKept
  <2>2. Accepted(call) /\ outcome = EvidenceOf(call)
    BY <2>1 DEF OutcomeIsOfCall, OutcomeOf, Refusal, Accepted
  <2>. DEFINE cut == Chunks(call.data, call.recordLen)
              objects == outcome.objects
  <2>3. DOMAIN objects = DOMAIN cut /\ \A k \in DOMAIN cut : objects[k] = RecordObject(call, k - 1, cut[k])
    BY <2>2 DEF EvidenceOf, ObjectsOf
  <2>4. \A k \in DOMAIN cut : /\ objects[k].raw = cut[k]
                              /\ objects[k].rawOffset = (k - 1) * call.recordLen
    <3>1. \A k \in DOMAIN cut :
            /\ RecordObject(call, k - 1, cut[k]).raw = cut[k]
            /\ RecordObject(call, k - 1, cut[k]).rawOffset = (k - 1) * call.recordLen
      BY DEF RecordObject
    <3>. QED BY <2>3, <3>1
  <2>5. ASSUME NEW p \in DOMAIN call.data
        PROVE  \E k \in DOMAIN objects :
                 /\ Shows(objects[k], p)
                 /\ objects[k].raw[p - objects[k].rawOffset] = call.data[p]
                 /\ \A j \in DOMAIN objects : Shows(objects[j], p) => j = k
    <3>1. p \in 1..Len(call.data)
      BY <2>1
    <3>2. PICK k \in DOMAIN cut :
            /\ p - (k - 1) * call.recordLen \in DOMAIN cut[k]
            /\ cut[k][p - (k - 1) * call.recordLen] = call.data[p]
            /\ \A j \in DOMAIN cut : p - (j - 1) * call.recordLen \in DOMAIN cut[j] => j = k
      BY <2>1, <2>2, <3>1, CutOnce DEF Accepted
    <3>. QED BY <2>3, <2>4, <3>2 DEF Shows
  <2>6. ASSUME NEW k \in DOMAIN objects
        PROVE  /\ objects[k].raw # <<>>
               /\ \A i \in DOMAIN objects[k].raw : objects[k].rawOffset + i \in DOMAIN call.data
               /\ \A j \in 1..(k - 1) : objects[j].rawOffset < objects[k].rawOffset
    <3>1. k \in DOMAIN cut /\ k \in Nat \ {0}
      BY <2>1, <2>2, <2>3, ChunkIs DEF Accepted
    <3>2. /\ cut[k] # <<>>
          /\ \A i \in DOMAIN cut[k] : (k - 1) * call.recordLen + i \in DOMAIN call.data
      BY <2>1, <2>2, <3>1, WithinFile DEF Accepted
    <3>3. ASSUME NEW j \in 1..(k - 1) PROVE objects[j].rawOffset < objects[k].rawOffset
      <4>1. j \in DOMAIN cut
        <5>1. \A c \in Int : k \in 1..c => j \in 1..c
          BY <3>1
        <5>2. (Len(call.data) + call.recordLen - 1) \div call.recordLen \in Int
          BY <2>1, <2>2, Division DEF Accepted
        <5>. QED BY <3>1, <5>1, <5>2 DEF Chunks
      <4>2. (j - 1) * call.recordLen < (k - 1) * call.recordLen
        <5>1. j - 1 \in Nat /\ k - 1 \in Nat /\ j - 1 < k - 1
          BY <3>1
        <5>. QED BY <2>1, <2>2, <5>1, InOrder DEF Accepted
      <4>. QED BY <2>4, <3>1, <4>1, <4>2
    <3>. QED BY <2>4, <3>1, <3>2, <3>3
  <2>7. ASSUME NEW k \in DOMAIN objects, NEW f \in DOMAIN call.prog.laid,
               Attr(call.prog, call.prog.laid[f].name) # "none"
        PROVE  /\ f \in objects[k].fields <=> <<"field", f>> \notin objects[k].unsupported
               /\ f \in objects[k].fields =>
                    call.prog.laid[f].offset + call.prog.laid[f].size <= Len(objects[k].raw)
    BY <2>3, <2>4, <2>7, FieldsJudged DEF CallKept
  <2>. QED BY <2>5, <2>6, <2>7 DEF ObjectsCoverInput
<1>. QED BY <1>1, <1>2, StepKeepsCall, SchedulingInvisible, PTL DEF Spec

-----------------------------------------------------------------------------
(* The refinement. The assembly adds the objects' counts one by one, where *)
(* ReconEvidence counts the pairs of a record and an unsupported entry.    *)
LEMMA LeastIn ==
  ASSUME NEW S, S \subseteq Nat, S # {}
  PROVE  \E k \in S : \A j \in S : k <= j
<1>1. PICK k \in S : \A j \in S : ~(<<j, k>> \in OpToRel(<, Nat))
  BY NatLessThanWellFounded, WFMin
<1>2. ASSUME NEW j \in S PROVE k <= j
  <2>1. SUFFICES ASSUME j < k PROVE FALSE
    OBVIOUS
  <2>2. <<j, k>> \in Nat \X Nat /\ <<j, k>>[1] < <<j, k>>[2]
    BY <2>1
  <2>. QED BY <1>1, <2>2, Zenon DEF OpToRel
<1>. QED BY <1>2

(* The pairs of the first k objects.                                       *)
PairsTo(objects, k) == UNION {{j} \X objects[j].unsupported : j \in 1..k}

LEMMA OneMoreObject ==
  ASSUME NEW objects, NEW k \in Nat \ {0},
         IsFiniteSet(objects[k].unsupported), IsFiniteSet(PairsTo(objects, k - 1))
  PROVE  /\ IsFiniteSet(PairsTo(objects, k))
         /\ Cardinality(PairsTo(objects, k))
              = Cardinality(PairsTo(objects, k - 1)) + Cardinality(objects[k].unsupported)
<1>. DEFINE own == {k} \X objects[k].unsupported
            rest == PairsTo(objects, k - 1)
<1>1. IsFiniteSet(own) /\ Cardinality(own) = Cardinality(objects[k].unsupported)
  <2>1. IsFiniteSet({k}) /\ Cardinality({k}) = 1
    BY FS_Singleton
  <2>2. IsFiniteSet(own) /\ Cardinality(own) = 1 * Cardinality(objects[k].unsupported)
    BY <2>1, FS_Product
  <2>3. Cardinality(objects[k].unsupported) \in Nat
    BY FS_CardinalityType
  <2>. QED BY <2>2, <2>3
<1>2. PairsTo(objects, k) = rest \cup own
  <2>1. 1..k = (1..(k - 1)) \cup {k}
    OBVIOUS
  <2>. QED BY <2>1, Zenon DEF PairsTo
<1>3. rest \cap own = {}
  <2>1. k \notin 1..(k - 1)
    OBVIOUS
  <2>2. \A x \in own : x[1] = k
    OBVIOUS
  <2>3. \A x \in rest : x[1] \in 1..(k - 1)
    BY DEF PairsTo
  <2>. QED BY <2>1, <2>2, <2>3
<1>. HIDE DEF own, rest
<1>4. /\ IsFiniteSet(rest \cup own)
      /\ Cardinality(rest \cup own) = Cardinality(rest) + Cardinality(own) - Cardinality(rest \cap own)
  BY <1>1, FS_Union DEF rest
<1>5. Cardinality(rest \cap own) = 0
  BY <1>3, FS_EmptySet
<1>6. Cardinality(rest) \in Nat /\ Cardinality(own) \in Nat
  BY <1>1, FS_CardinalityType DEF rest
<1>. QED BY <1>1, <1>2, <1>4, <1>5, <1>6 DEF rest

LEMMA PairsFinite ==
  ASSUME NEW objects, NEW n \in Nat, \A k \in 1..n : IsFiniteSet(objects[k].unsupported)
  PROVE  \A k \in 0..n : IsFiniteSet(PairsTo(objects, k))
<1>. DEFINE open == {k \in 0..n : ~IsFiniteSet(PairsTo(objects, k))}
<1>1. SUFFICES ASSUME open # {} PROVE FALSE
  OBVIOUS
<1>2. PICK k \in open : \A j \in open : k <= j
  <2>1. open \subseteq Nat
    OBVIOUS
  <2>. HIDE DEF open
  <2>. QED BY <1>1, <2>1, LeastIn
<1>3. k # 0
  <2>1. PairsTo(objects, 0) = {}
    BY DEF PairsTo
  <2>. QED BY <1>2, <2>1, FS_EmptySet
<1>4. k \in Nat \ {0} /\ k \in 1..n /\ k - 1 \in 0..n /\ ~(k <= k - 1)
  BY <1>2, <1>3
<1>5. IsFiniteSet(PairsTo(objects, k - 1))
  BY <1>2, <1>4
<1>. QED BY <1>2, <1>4, <1>5, OneMoreObject

LEMMA TotalIsPairs ==
  ASSUME NEW objects, Len(objects) \in Nat,
         \A k \in 1..Len(objects) : IsFiniteSet(objects[k].unsupported)
  PROVE  TotalUnsupported(objects) = Cardinality(PairsTo(objects, Len(objects)))
<1>. DEFINE n == Len(objects)
            step(f, k) == IF k = 0 THEN 0 ELSE f[k - 1] + Cardinality(objects[k].unsupported)
            counts == [k \in 0..n |-> Cardinality(PairsTo(objects, k))]
            upTo == CHOOSE f : f = [k \in 0..n |-> step(f, k)]
<1>1. \A k \in 0..n : counts[k] = step(counts, k)
  <2>1. ASSUME NEW k \in 0..n, k # 0
        PROVE  Cardinality(PairsTo(objects, k))
                 = Cardinality(PairsTo(objects, k - 1)) + Cardinality(objects[k].unsupported)
    <3>1. k \in Nat \ {0} /\ k \in 1..n /\ k - 1 \in 0..n
      BY <2>1
    <3>2. IsFiniteSet(PairsTo(objects, k - 1))
      BY <3>1, PairsFinite
    <3>. QED BY <3>1, <3>2, OneMoreObject
  <2>2. Cardinality(PairsTo(objects, 0)) = 0
    <3>1. PairsTo(objects, 0) = {}
      BY DEF PairsTo
    <3>. QED BY <3>1, FS_EmptySet
  <2>3. \A k \in 0..n : k # 0 => k - 1 \in 0..n
    OBVIOUS
  <2>. QED BY <2>1, <2>2, <2>3
<1>. HIDE DEF counts
<1>2. counts = [k \in 0..n |-> step(counts, k)]
  <2>1. counts = [k \in 0..n |-> counts[k]]
    BY DEF counts
  <2>. HIDE DEF step
  <2>. QED BY <1>1, <2>1, Zenon
<1>3. upTo = [k \in 0..n |-> step(upTo, k)]
  BY <1>2, Zenon
<1>. HIDE DEF upTo
<1>4. \A k \in 0..n : upTo[k] = step(upTo, k)
  <2>. HIDE DEF step
  <2>. QED BY <1>3, Zenon
<1>. DEFINE open == {k \in 0..n : upTo[k] # counts[k]}
<1>5. open = {}
  <2>. SUFFICES ASSUME open # {} PROVE FALSE
    OBVIOUS
  <2>1. PICK k \in open : \A j \in open : k <= j
    <3>1. open \subseteq Nat
      OBVIOUS
    <3>. HIDE DEF open
    <3>. QED BY <3>1, LeastIn
  <2>2. k # 0
    BY <1>1, <1>4, <2>1
  <2>3. k - 1 \in 0..n /\ ~(k <= k - 1)
    BY <2>1, <2>2
  <2>4. upTo[k - 1] = counts[k - 1]
    BY <2>1, <2>3
  <2>. QED BY <1>1, <1>4, <2>1, <2>2, <2>4
<1>6. upTo[n] = counts[n]
  BY <1>5
<1>7. TotalUnsupported(objects) = upTo[n]
  BY DEF TotalUnsupported, upTo
<1>. QED BY <1>6, <1>7 DEF counts

(* What ReconEvidence calls a record, an object and its ledger is what the *)
(* machine builds.                                                         *)
LEMMA SameWords ==
  /\ \A s, n : Evidence!Chunks(s, n) = Chunks(s, n)
  /\ \A why : Evidence!Refusal(why) = Refusal(why)
  /\ \A prog, rec, encoding :
       Evidence!Unsupported(prog, rec, encoding) = Unsupported(prog, rec, encoding)
  /\ \A c, n, rec : Evidence!RecordObject(c, n, rec) = RecordObject(c, n, rec)
  /\ \A S : Evidence!Cardinality(S) = Cardinality(S)
<1>1. \A s, n : Evidence!Chunks(s, n) = Chunks(s, n)
  BY Zenon DEF Evidence!Chunks, Chunks
<1>2. \A why : Evidence!Refusal(why) = Refusal(why)
  BY DEF Evidence!Refusal, Refusal
<1>3. \A rec, l : Evidence!Slice(rec, l) = Slice(rec, l)
  BY Zenon DEF Evidence!Slice, Slice
<1>4. \A prog, name : Evidence!Attr(prog, name) = Attr(prog, name)
  BY DEF Evidence!Attr, Attr
<1>5. \A bytes : Evidence!HasJunk(bytes) = HasJunk(bytes)
  BY DEF Evidence!HasJunk, HasJunk
<1>6. \A prog, l, rec, encoding :
        Evidence!Category(prog, l, rec, encoding) = Category(prog, l, rec, encoding)
  <2>1. Evidence!NumericDomains = NumericDomains
    BY DEF Evidence!NumericDomains, NumericDomains
  <2>. SUFFICES ASSUME NEW prog, NEW l, NEW rec, NEW encoding
                PROVE  Evidence!Category(prog, l, rec, encoding) = Category(prog, l, rec, encoding)
    OBVIOUS
  <2>2. /\ Evidence!Attr(prog, l.name) = Attr(prog, l.name)
        /\ Evidence!Slice(rec, l) = Slice(rec, l)
        /\ Evidence!HasJunk(Slice(rec, l)) = HasJunk(Slice(rec, l))
    BY <1>3, <1>4, <1>5
  <2>. QED BY <2>1, <2>2, SMT DEF Evidence!Category, Category
<1>7. \A prog, cond, rec : Evidence!Decided(prog, cond, rec) = Decided(prog, cond, rec)
  <2>1. \A S : Evidence!Min(S) = Min(S)
    BY DEF Evidence!Min, Min
  <2>. SUFFICES ASSUME NEW prog, NEW cond, NEW rec
                PROVE  Evidence!Decided(prog, cond, rec) = Decided(prog, cond, rec)
    OBVIOUS
  <2>. DEFINE parents == {k \in DOMAIN prog.laid : prog.laid[k].name = cond.parent}
              bytes == Slice(rec, prog.laid[Min(parents)])
  <2>2. /\ Evidence!Attr(prog, cond.parent) = Attr(prog, cond.parent)
        /\ Evidence!Slice(rec, prog.laid[Evidence!Min(parents)]) = bytes
        /\ Evidence!HasJunk(bytes) = HasJunk(bytes)
    BY <1>3, <1>4, <1>5, <2>1
  <2>. QED BY <2>2, SMT DEF Evidence!Decided, Decided
<1>8. \A cs, prog, rec, encoding :
        Evidence!FieldsIn(cs, prog, rec, encoding) = FieldsIn(cs, prog, rec, encoding)
  BY <1>6, Zenon DEF Evidence!FieldsIn, FieldsIn
<1>9. \A prog, rec : Evidence!UndecidedConditions(prog, rec) = UndecidedConditions(prog, rec)
  BY <1>7, Zenon DEF Evidence!UndecidedConditions, UndecidedConditions
<1>10. \A prog, rec, encoding :
         Evidence!Unsupported(prog, rec, encoding) = Unsupported(prog, rec, encoding)
  BY <1>8, <1>9, Zenon DEF Evidence!Unsupported, Unsupported
<1>11. \A c, n, rec : Evidence!RecordObject(c, n, rec) = RecordObject(c, n, rec)
  BY <1>8, <1>10, Zenon DEF Evidence!RecordObject, RecordObject
<1>12. \A S : Evidence!Cardinality(S) = Cardinality(S)
  BY Zenon DEF Evidence!Cardinality, Cardinality
<1>. QED BY <1>1, <1>2, <1>10, <1>11, <1>12

LEMMA LedgerFinite ==
  ASSUME NEW c \in Calls, NEW rec
  PROVE  IsFiniteSet(Unsupported(c.prog, rec, c.encoding))
<1>1. \A s : s \in Seq(ToSet(s)) => IsFiniteSet(DOMAIN s)
  <2>. SUFFICES ASSUME NEW s, s \in Seq(ToSet(s)) PROVE IsFiniteSet(DOMAIN s)
    OBVIOUS
  <2>1. DOMAIN s = 1..Len(s) /\ 1 \in Int /\ Len(s) \in Int
    OBVIOUS
  <2>. QED BY <2>1, FS_Interval
<1>2. IsFiniteSet(DOMAIN c.prog.laid) /\ IsFiniteSet(DOMAIN c.prog.conditions)
  BY <1>1, ReconCallsTyped
<1>3. IsFiniteSet(FieldsIn({"unsupported"}, c.prog, rec, c.encoding))
  <2>1. FieldsIn({"unsupported"}, c.prog, rec, c.encoding) \subseteq DOMAIN c.prog.laid
    BY DEF FieldsIn
  <2>. QED BY <1>2, <2>1, FS_Subset
<1>4. IsFiniteSet(UndecidedConditions(c.prog, rec))
  <2>1. UndecidedConditions(c.prog, rec) \subseteq DOMAIN c.prog.conditions
    BY DEF UndecidedConditions
  <2>. QED BY <1>2, <2>1, FS_Subset
<1>5. IsFiniteSet({"field"}) /\ IsFiniteSet({"condition"})
  BY FS_Singleton
<1>6. /\ IsFiniteSet({"field"} \X FieldsIn({"unsupported"}, c.prog, rec, c.encoding))
      /\ IsFiniteSet({"condition"} \X UndecidedConditions(c.prog, rec))
  BY <1>3, <1>4, <1>5, FS_Product
<1>. QED BY <1>6, FS_Union DEF Unsupported

LEMMA SameEvidence ==
  ASSUME NEW c \in Calls, Accepted(c)
  PROVE  Evidence!Evidence(c) = EvidenceOf(c)
<1>. DEFINE cut == Chunks(c.data, c.recordLen)
            objects == ObjectsOf(c)
            m == (Len(c.data) + c.recordLen - 1) \div c.recordLen
<1>1. m \in Nat /\ DOMAIN cut = 1..m /\ Len(cut) = m /\ DOMAIN objects = 1..m /\ Len(objects) = m
  <2>1. c.recordLen \in Nat /\ c.recordLen > 0 /\ c.data \in Seq(ToSet(c.data))
    BY ReconCallsTyped DEF Accepted
  <2>2. Len(c.data) + c.recordLen - 1 \in Nat
    BY <2>1
  <2>3. m \in Nat
    BY <2>1, <2>2, Division
  <2>. HIDE DEF m
  <2>4. DOMAIN cut = 1..m /\ cut = [k \in 1..m |-> cut[k]]
    BY DEF Chunks, m
  <2>5. DOMAIN objects = 1..m /\ objects = [k \in 1..m |-> objects[k]]
    BY <2>4 DEF ObjectsOf
  <2>. HIDE DEF cut, objects
  <2>6. Len(cut) = m /\ Len(objects) = m
    BY <2>3, <2>4, <2>5, SMT
  <2>. QED BY <2>3, <2>4, <2>5, <2>6
<1>. HIDE DEF m
<1>2. \A k \in 1..m : /\ objects[k] = RecordObject(c, k - 1, cut[k])
                      /\ objects[k].unsupported = Unsupported(c.prog, cut[k], c.encoding)
  BY <1>1 DEF ObjectsOf, RecordObject
<1>3. \A k \in 1..Len(objects) : IsFiniteSet(objects[k].unsupported)
  BY <1>1, <1>2, LedgerFinite
<1>4. TotalUnsupported(objects) = Cardinality(PairsTo(objects, m))
  <2>. HIDE DEF objects
  <2>. QED BY <1>1, <1>3, TotalIsPairs
<1>5. Evidence!UnsupportedPairs(c) = PairsTo(objects, m)
  <2>1. Evidence!UnsupportedPairs(c) = UNION {{k} \X Unsupported(c.prog, cut[k], c.encoding) : k \in 1..m}
    BY <1>1, SameWords, Zenon DEF Evidence!UnsupportedPairs
  <2>. HIDE DEF objects, cut
  <2>. QED BY <1>2, <2>1, Zenon DEF PairsTo
<1>6. objects = <<>> <=> cut = <<>>
  BY <1>1
<1>7. cut # <<>> => objects[1].unsupported = Unsupported(c.prog, cut[1], c.encoding)
  <2>1. cut # <<>> => 1 \in 1..m
    BY <1>1
  <2>. QED BY <1>2, <2>1
<1>8. objects = [k \in DOMAIN cut |-> Evidence!RecordObject(c, k - 1, cut[k])]
  BY SameWords, Zenon DEF ObjectsOf
<1>9. Evidence!Chunks(c.data, c.recordLen) = cut
  BY SameWords
<1>10. \A rec : Evidence!Unsupported(c.prog, rec, c.encoding) = Unsupported(c.prog, rec, c.encoding)
  BY SameWords
<1>. HIDE DEF objects, cut
<1>11. Evidence!Evidence(c) =
         [ok               |-> TRUE,
          objects          |-> objects,
          recordCount      |-> Len(cut),
          unsupportedCount |-> Cardinality(PairsTo(objects, m)),
          unsupportedItems |-> IF cut = <<>> THEN {} ELSE Unsupported(c.prog, cut[1], c.encoding)]
  <2>. DEFINE own == Evidence!Chunks(c.data, c.recordLen)
              built == [k \in DOMAIN own |-> Evidence!RecordObject(c, k - 1, own[k])]
              pairs == Evidence!UnsupportedPairs(c)
              first == Evidence!Unsupported(c.prog, own[1], c.encoding)
  <2>1. Evidence!Evidence(c) =
          [ok               |-> TRUE,
           objects          |-> built,
           recordCount      |-> Len(own),
           unsupportedCount |-> Cardinality(pairs),
           unsupportedItems |-> IF own = <<>> THEN {} ELSE first]
    BY SameWords DEF Evidence!Evidence
  <2>. HIDE DEF own
  <2>2. own = cut
    BY <1>9 DEF own
  <2>3. built = objects
    BY <1>8, <2>2, Zenon
  <2>4. pairs = PairsTo(objects, m) /\ first = Unsupported(c.prog, cut[1], c.encoding)
    BY <1>5, <1>10, <2>2
  <2>. HIDE DEF built, pairs, first
  <2>. QED BY <2>1, <2>2, <2>3, <2>4
<1>12. EvidenceOf(c) =
         [ok               |-> TRUE,
          objects          |-> objects,
          recordCount      |-> Len(cut),
          unsupportedCount |-> TotalUnsupported(objects),
          unsupportedItems |-> IF objects = <<>> THEN {} ELSE objects[1].unsupported]
  BY DEF EvidenceOf, objects, cut
<1>. QED BY <1>4, <1>6, <1>7, <1>11, <1>12

LEMMA SameOutcome ==
  ASSUME NEW c \in Calls
  PROVE  Evidence!Outcome(c) = OutcomeOf(c)
<1>1. c.recordLen \in Nat
  BY ReconCallsTyped
<1>2. CASE Accepted(c)
  BY <1>2, SameEvidence DEF Accepted, Evidence!Outcome, OutcomeOf
<1>3. CASE ~Accepted(c)
  BY <1>1, <1>3, SameWords DEF Accepted, Evidence!Outcome, OutcomeOf
<1>. QED BY <1>2, <1>3

(* Nothing is returned before the end.                                     *)
Undecided == pc # "done" => outcome = Pending

LEMMA StepUndecided == Undecided /\ [Next]_vars => Undecided'
  BY DEF Undecided, Next, vars, Control, RefuseZeroLength, RefuseCopybook, RefuseCollision,
         Prepare, Assemble, Return, Terminated, Work, Build, Claim

(* Every step of the machine is, of the evidence, the one decision or       *)
(* nothing at all: however many threads and steps it took, the caller sees *)
(* the call and then its outcome, as ReconEvidence specifies it.           *)
THEOREM RefinesEvidence == Spec => Evidence!Safety
<1>1. Init => Evidence!Init /\ CallKept /\ Undecided
  BY DEF Init, Evidence!Init, CallKept, Undecided
<1>2. CallKept /\ Undecided /\ OutcomeIsOfCall' /\ [Next]_vars
        => [Evidence!Decide]_<<call, outcome>>
  <2>. SUFFICES ASSUME CallKept, Undecided, OutcomeIsOfCall', [Next]_vars
                PROVE  [Evidence!Decide]_<<call, outcome>>
    OBVIOUS
  <2>1. call' = call /\ (outcome' = outcome \/ (pc # "done" /\ pc' = "done"))
    BY DEF Next, vars, Control, RefuseZeroLength, RefuseCopybook, RefuseCollision, Prepare,
           Assemble, Return, Terminated, Work, Build, Claim
  <2>2. CASE outcome' = outcome
    BY <2>1, <2>2
  <2>3. CASE pc # "done" /\ pc' = "done"
    <3>1. outcome = Pending /\ outcome' = OutcomeOf(call)
      BY <2>1, <2>3 DEF Undecided, OutcomeIsOfCall
    <3>. QED BY <2>1, <3>1, SameOutcome DEF CallKept, Evidence!Decide
  <2>. QED BY <2>1, <2>2, <2>3
<1>. QED BY <1>1, <1>2, StepKeepsCall, StepUndecided, SchedulingInvisible, PTL
     DEF Spec, Evidence!Safety
===============================================================================
