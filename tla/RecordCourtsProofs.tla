--------------------------- MODULE RecordCourtsProofs ---------------------------
(***************************************************************************)
(* Proofs about the courts of RecordCourts, for calls of any number of     *)
(* records, entries, items and transforms: what variant_route counts, what *)
(* diff_artifacts calls a match, which bytes reconcile_transform writes    *)
(* and how its amounts add up, what the hash chain of posting_manifest     *)
(* fixes and what it reports of a unit, when batch_control says that       *)
(* totals match, and the shape of what each of them keeps. An invariant    *)
(* names the call as a parameter, since a call is never written.           *)
(***************************************************************************)
EXTENDS RecordCourts, TLAPS, SequenceTheorems, WellFoundedInduction, FiniteSetTheorems

LEMMA LeastIn ==
  ASSUME NEW S, S \subseteq Nat, S # {}
  PROVE  \E k \in S : \A j \in S : k <= j
<1>1. PICK k \in S : \A j \in S : ~(<<j, k>> \in OpToRel(<, Nat))
  BY NatLessThanWellFounded, WFMin
<1>2. ASSUME NEW j \in S PROVE k <= j
  <2>1. SUFFICES ASSUME j < k PROVE FALSE
    OBVIOUS
  <2>2. <<j, k>> \in Nat \X Nat /\ <<j, k>>[1] < <<j, k>>[2]
    BY <2>1
  <2>. QED BY <1>1, <2>2, Zenon DEF OpToRel
<1>. QED BY <1>2

LEMMA Counts ==
  /\ Cardinality({}) = 0 /\ IsFiniteSet({})
  /\ \A S : VR!Cardinality(S) = Cardinality(S) /\ DF!Cardinality(S) = Cardinality(S)
  /\ \A S, x : IsFiniteSet(S) /\ x \notin S =>
       IsFiniteSet(S \cup {x}) /\ Cardinality(S \cup {x}) = Cardinality(S) + 1
<1>1. \A S : VR!Cardinality(S) = Cardinality(S) /\ DF!Cardinality(S) = Cardinality(S)
  BY DEF VR!Cardinality, DF!Cardinality, Cardinality
<1>. QED BY <1>1, FS_EmptySet, FS_AddElement

-----------------------------------------------------------------------------
LEMMA LeastType ==
  ASSUME NEW S, S \subseteq Nat, S # {}
  PROVE  VR!Min(S) \in S /\ \A j \in S : VR!Min(S) <= j
BY LeastIn DEF VR!Min

LEMMA RouteCallTypes ==
  ASSUME NEW c \in RouteCalls
  PROVE  /\ c.offset \in Nat /\ c.length \in Nat
         /\ Len(c.records) \in Nat /\ DOMAIN c.records = 1..Len(c.records)
         /\ DOMAIN c.types = 1..Len(c.types) /\ Len(c.types) \in Nat
         /\ NoType \notin DOMAIN c.types
         /\ \A rec \in ToSet(c.records) : rec \in Seq(ToSet(rec))
         /\ \A t \in ToSet(c.types) : t.value \in Seq(ToSet(t.value)) /\ t.value # <<>>
<1>1. \A s : VR!ToSet(s) = ToSet(s)
  BY DEF VR!ToSet, ToSet
<1>2. /\ \A rec \in VR!ToSet(c.records) : rec \in Seq(VR!ToSet(rec))
      /\ \A t \in VR!ToSet(c.types) : t.value \in Seq(VR!ToSet(t.value)) /\ t.value # <<>>
  BY RouteCallsTyped, Zenon DEF VR!CallsTyped
<1>3. /\ \A rec \in ToSet(c.records) : rec \in Seq(ToSet(rec))
      /\ \A t \in ToSet(c.types) : t.value \in Seq(ToSet(t.value)) /\ t.value # <<>>
  BY <1>1, <1>2, Zenon
<1>4. /\ c.offset \in Nat /\ c.length \in Nat
      /\ Len(c.records) \in Nat /\ DOMAIN c.records = 1..Len(c.records)
      /\ DOMAIN c.types = 1..Len(c.types) /\ Len(c.types) \in Nat
      /\ NoType \notin DOMAIN c.types
  BY RouteCallsTyped DEF VR!CallsTyped
<1>. QED BY <1>3, <1>4

(* Claims, with the call as a parameter.                                   *)
ClaimsIn(c, t, rec) ==
  /\ c.offset + c.length <= Len(rec)
  /\ Len(t.value) = c.length
  /\ \A j \in 1..c.length : t.value[j] = rec[c.offset + j]

LEMMA ClaimsIs == \A t, rec : VR!Claims(t, rec) = ClaimsIn(call, t, rec)
  BY DEF VR!Claims, ClaimsIn

(* A type matches a record exactly when the bytes at the declared place    *)
(* are its value.                                                          *)
LEMMA MatchingClaims ==
  ASSUME call \in RouteCalls, NEW rec \in ToSet(call.records), NEW k \in DOMAIN call.types
  PROVE  k \in VR!Matching(rec) <=> ClaimsIn(call, call.types[k], rec)
<1>. DEFINE value == call.types[k].value
            m == call.offset + 1
            n == call.offset + call.length
<1>0. /\ call.offset \in Nat /\ call.length \in Nat
      /\ rec \in Seq(ToSet(rec))
      /\ value \in Seq(ToSet(value)) /\ value # <<>>
  <2>1. call.types[k] \in ToSet(call.types)
    BY DEF ToSet
  <2>. QED BY <2>1, RouteCallTypes
<1>1. /\ call.offset \in Nat /\ call.length \in Nat
      /\ rec \in Seq(ToSet(rec)) /\ Len(rec) \in Nat /\ DOMAIN rec = 1..Len(rec)
      /\ value # <<>>
      /\ value = [j \in 1..Len(value) |-> value[j]] /\ Len(value) \in Nat
      /\ m \in Int /\ n \in Int
  <2>. HIDE DEF value
  <2>. QED BY <1>0
<1>2. k \in VR!Matching(rec) <=> value = VR!Discriminator(rec)
  BY DEF VR!Matching
<1>3. CASE ~(n <= Len(rec))
  BY <1>1, <1>2, <1>3 DEF VR!Discriminator, ClaimsIn
<1>4. CASE n <= Len(rec)
  <2>. DEFINE bytes == SubSeq(rec, m, n)
  <2>1. VR!Discriminator(rec) = bytes
    BY <1>4 DEF VR!Discriminator
  <2>2. /\ bytes \in Seq(ToSet(rec))
        /\ Len(bytes) = IF m <= n THEN n - m + 1 ELSE 0
        /\ \A i \in 1..(n - m + 1) : bytes[i] = rec[m + i - 1]
    <3>1. \A i \in m..n : i \in DOMAIN rec
      BY <1>1, <1>4
    <3>2. \A i \in m..n : rec[i] \in ToSet(rec)
      BY <3>1 DEF ToSet
    <3>. HIDE DEF m, n
    <3>. QED BY <1>1, <3>2, SubSeqProperties
  <2>. HIDE DEF bytes
  <2>3. Len(bytes) = call.length /\ \A i \in 1..call.length : bytes[i] = rec[call.offset + i]
    <3>0. call.offset \in Nat /\ call.length \in Nat
      BY <1>0
    <3>1. n - m + 1 = call.length /\ (m <= n <=> call.length > 0)
      BY <3>0
    <3>2. \A i \in 1..call.length : m + i - 1 = call.offset + i
      BY <3>0
    <3>. HIDE DEF m, n
    <3>3. Len(bytes) = call.length
      BY <1>1, <2>2, <3>0, <3>1
    <3>. QED BY <2>2, <3>1, <3>2, <3>3
  <2>4. bytes = [i \in 1..call.length |-> bytes[i]]
    BY <2>2, <2>3
  <2>5. ClaimsIn(call, call.types[k], rec)
          <=> Len(value) = call.length /\ \A j \in 1..call.length : value[j] = bytes[j]
    BY <1>4, <2>3 DEF ClaimsIn
  <2>. HIDE DEF value
  <2>6. value = bytes <=> Len(value) = call.length /\ \A j \in 1..call.length : value[j] = bytes[j]
    BY <1>1, <2>3, <2>4
  <2>. QED BY <1>2, <2>1, <2>5, <2>6
<1>. QED BY <1>3, <1>4

EntryClaimed(c, rec, e) ==
  \A j \in (IF e = NoType THEN DOMAIN c.types ELSE 1..e) :
    ClaimsIn(c, c.types[j], rec) <=> j = e

(* The entries that were refused, and those of a name, of a sequence.      *)
RefusedIn(es) == {k \in DOMAIN es : es[k] = NoType}
NamedIn(c, es, name) == {k \in DOMAIN es : es[k] # NoType /\ c.types[es[k]].name = name}

(* Counter k, when the entries are es.                                     *)
Counter(c, es, k) ==
  IF \E j \in DOMAIN c.types : j < k /\ c.types[j].name = c.types[k].name THEN 0
  ELSE Cardinality(NamedIn(c, es, c.types[k].name))

RouteTypes ==
  /\ call \in RouteCalls
  /\ entries \in Seq(DOMAIN call.types \cup {NoType})
  /\ Len(entries) <= Len(call.records)
  /\ routed \in Nat /\ unmatched \in Nat
  /\ byType \in [DOMAIN call.types -> Nat]

RouteCounts ==
  /\ routed + unmatched = Len(entries)
  /\ unmatched = Cardinality(RefusedIn(entries))
  /\ \A k \in DOMAIN call.types : byType[k] = Counter(call, entries, k)

RouteInv ==
  /\ RouteTypes
  /\ pc # "error" => RouteCounts
  /\ \A k \in DOMAIN entries : EntryClaimed(call, call.records[k], entries[k])
  /\ pc = "done" => /\ Len(entries) = Len(call.records)
                    /\ output.entries = entries
                    /\ output.routed = routed /\ output.unmatched = unmatched
                    /\ \A k \in DOMAIN call.types :
                         output.byType[k] = <<call.types[k].name, byType[k]>>

LEMMA RouteStart == VR!Init => RouteInv
<1>. SUFFICES ASSUME VR!Init PROVE RouteInv
  OBVIOUS
<1>1. entries = <<>> /\ call \in RouteCalls /\ routed = 0 /\ unmatched = 0 /\ pc = "routing"
      /\ byType = [k \in DOMAIN call.types |-> 0]
  BY DEF VR!Init
<1>2. RouteTypes
  BY <1>1, RouteCallTypes DEF RouteTypes
<1>3. RefusedIn(entries) = {} /\ \A name : NamedIn(call, entries, name) = {}
  BY <1>1 DEF RefusedIn, NamedIn
<1>4. routed + unmatched = Len(entries) /\ unmatched = Cardinality(RefusedIn(entries))
  <2>1. Cardinality(RefusedIn(entries)) = 0
    BY <1>3, Counts, Zenon
  <2>. QED BY <1>1, <2>1
<1>5. ASSUME NEW k \in DOMAIN call.types PROVE byType[k] = Counter(call, entries, k)
  <2>1. Cardinality(NamedIn(call, entries, call.types[k].name)) = 0
    BY <1>3, Counts, Zenon
  <2>. QED BY <1>1, <2>1 DEF Counter
<1>. QED BY <1>1, <1>2, <1>4, <1>5 DEF RouteInv, RouteCounts

(* A new entry is the least type that matches, or says that none does.     *)
LEMMA NextEntry ==
  ASSUME RouteInv, VR!More,
         NEW e, \/ VR!Matching(VR!Rec) # {} /\ e = VR!Route(VR!Rec)
                \/ VR!Matching(VR!Rec) = {} /\ e = NoType
  PROVE  /\ e \in DOMAIN call.types \cup {NoType}
         /\ EntryClaimed(call, VR!Rec, e)
         /\ VR!Matching(VR!Rec) # {} => e \in DOMAIN call.types
<1>0. call \in RouteCalls
  BY DEF RouteInv, RouteTypes
<1>1. VR!Rec \in ToSet(call.records)
  BY <1>0, RouteCallTypes DEF RouteInv, RouteTypes, VR!More, VR!Rec, ToSet
<1>2. /\ DOMAIN call.types = 1..Len(call.types) /\ Len(call.types) \in Nat
      /\ NoType \notin DOMAIN call.types
  BY <1>0, RouteCallTypes
<1>3. \A k \in DOMAIN call.types :
        k \in VR!Matching(VR!Rec) <=> ClaimsIn(call, call.types[k], VR!Rec)
  BY <1>0, <1>1, MatchingClaims
<1>4. VR!Matching(VR!Rec) \subseteq DOMAIN call.types
  BY DEF VR!Matching
<1>5. CASE VR!Matching(VR!Rec) # {} /\ e = VR!Route(VR!Rec)
  <2>1. VR!Matching(VR!Rec) \subseteq Nat
    BY <1>2, <1>4
  <2>2. e \in VR!Matching(VR!Rec) /\ \A j \in VR!Matching(VR!Rec) : e <= j
    BY <1>5, <2>1, LeastType DEF VR!Route
  <2>3. \A j \in 1..e : ClaimsIn(call, call.types[j], VR!Rec) <=> j = e
    BY <1>2, <1>3, <1>4, <2>2
  <2>. QED BY <1>2, <1>4, <2>2, <2>3 DEF EntryClaimed
<1>6. CASE VR!Matching(VR!Rec) = {} /\ e = NoType
  BY <1>2, <1>3, <1>6 DEF EntryClaimed
<1>. QED BY <1>5, <1>6

(* The first type of a name.                                               *)
LEMMA FirstOfName ==
  ASSUME NEW k \in DOMAIN call.types, call \in RouteCalls
  PROVE  /\ VR!Slot(k) \in DOMAIN call.types
         /\ \A j \in DOMAIN call.types :
              j = VR!Slot(k) <=>
                /\ call.types[j].name = call.types[k].name
                /\ ~\E i \in DOMAIN call.types : i < j /\ call.types[i].name = call.types[j].name
<1>. DEFINE same == {j \in DOMAIN call.types : call.types[j].name = call.types[k].name}
<1>1. same \subseteq Nat /\ same # {} /\ DOMAIN call.types \subseteq Nat
  BY RouteCallTypes
<1>2. VR!Slot(k) = VR!Min(same)
  BY DEF VR!Slot
<1>3. VR!Slot(k) \in same /\ \A j \in same : VR!Slot(k) <= j
  BY <1>1, <1>2, LeastType
<1>. QED BY <1>1, <1>3

(* What an entry adds to the counts of a sequence.                         *)
LEMMA OneEntry ==
  ASSUME NEW c, NEW S, NEW es \in Seq(S), NEW e
  PROVE  LET more == Append(es, e) IN
         /\ IsFiniteSet(RefusedIn(es)) /\ \A name : IsFiniteSet(NamedIn(c, es, name))
         /\ RefusedIn(more) = IF e = NoType THEN RefusedIn(es) \cup {Len(es) + 1}
                              ELSE RefusedIn(es)
         /\ \A name :
              NamedIn(c, more, name) =
                IF e # NoType /\ c.types[e].name = name THEN NamedIn(c, es, name) \cup {Len(es) + 1}
                ELSE NamedIn(c, es, name)
         /\ Len(es) + 1 \notin RefusedIn(es) /\ \A name : Len(es) + 1 \notin NamedIn(c, es, name)
<1>. DEFINE more == Append(es, e)
<1>1. /\ DOMAIN more = DOMAIN es \cup {Len(es) + 1} /\ Len(es) + 1 \notin DOMAIN es
      /\ more[Len(es) + 1] = e /\ \A k \in DOMAIN es : more[k] = es[k]
      /\ DOMAIN es = 1..Len(es) /\ Len(es) \in Nat
  OBVIOUS
<1>. HIDE DEF more
<1>2. IsFiniteSet(1..Len(es))
  BY <1>1, FS_Interval
<1>3. IsFiniteSet(RefusedIn(es)) /\ \A name : IsFiniteSet(NamedIn(c, es, name))
  BY <1>1, <1>2, FS_Subset DEF RefusedIn, NamedIn
<1>4. RefusedIn(more) = IF e = NoType THEN RefusedIn(es) \cup {Len(es) + 1} ELSE RefusedIn(es)
  BY <1>1 DEF RefusedIn
<1>5. ASSUME NEW name
      PROVE  NamedIn(c, more, name) =
               IF e # NoType /\ c.types[e].name = name THEN NamedIn(c, es, name) \cup {Len(es) + 1}
               ELSE NamedIn(c, es, name)
  BY <1>1 DEF NamedIn
<1>6. Len(es) + 1 \notin RefusedIn(es) /\ \A name : Len(es) + 1 \notin NamedIn(c, es, name)
  BY <1>1 DEF RefusedIn, NamedIn
<1>. QED BY <1>3, <1>4, <1>5, <1>6 DEF more

LEMMA EntryCounted ==
  ASSUME RouteTypes, RouteCounts,
         NEW e \in DOMAIN call.types \cup {NoType}, entries' = Append(entries, e), call' = call,
         \/ /\ e \in DOMAIN call.types /\ routed' = routed + 1 /\ unmatched' = unmatched
            /\ byType' = [byType EXCEPT ![VR!Slot(e)] = @ + 1]
         \/ e = NoType /\ routed' = routed /\ unmatched' = unmatched + 1 /\ byType' = byType
  PROVE  RouteCounts'
<1>. DEFINE S == DOMAIN call.types \cup {NoType}
            more == Append(entries, e)
<1>0. call \in RouteCalls /\ entries \in Seq(S) /\ NoType \notin DOMAIN call.types
  BY RouteCallTypes DEF RouteTypes
<1>1. /\ IsFiniteSet(RefusedIn(entries)) /\ \A name : IsFiniteSet(NamedIn(call, entries, name))
      /\ RefusedIn(more) = IF e = NoType THEN RefusedIn(entries) \cup {Len(entries) + 1}
                           ELSE RefusedIn(entries)
      /\ \A name :
           NamedIn(call, more, name) =
             IF e # NoType /\ call.types[e].name = name
             THEN NamedIn(call, entries, name) \cup {Len(entries) + 1}
             ELSE NamedIn(call, entries, name)
      /\ Len(entries) + 1 \notin RefusedIn(entries)
      /\ \A name : Len(entries) + 1 \notin NamedIn(call, entries, name)
  BY <1>0, OneEntry
<1>2. Len(more) = Len(entries) + 1 /\ Len(entries) \in Nat
  BY <1>0
<1>. HIDE DEF more, S
<1>3. routed' + unmatched' = Len(more)
  BY <1>2 DEF RouteTypes, RouteCounts
<1>4. unmatched' = Cardinality(RefusedIn(more))
  BY <1>0, <1>1, Counts DEF RouteCounts
<1>5. ASSUME NEW k \in DOMAIN call.types PROVE byType'[k] = Counter(call, more, k)
  <2>. DEFINE name == call.types[k].name
              second == \E j \in DOMAIN call.types : j < k /\ call.types[j].name = name
              adds == e # NoType /\ call.types[e].name = name
  <2>1. byType[k] = IF second THEN 0 ELSE Cardinality(NamedIn(call, entries, name))
    BY DEF RouteCounts, Counter
  <2>2. Counter(call, more, k) = IF second THEN 0 ELSE Cardinality(NamedIn(call, more, name))
    BY DEF Counter
  <2>3. Cardinality(NamedIn(call, more, name)) =
          IF adds THEN Cardinality(NamedIn(call, entries, name)) + 1
          ELSE Cardinality(NamedIn(call, entries, name))
    BY <1>1, Counts
  <2>4. byType'[k] = IF adds /\ ~second THEN byType[k] + 1 ELSE byType[k]
    <3>1. CASE e = NoType
      BY <1>0, <3>1
    <3>2. CASE e \in DOMAIN call.types
      <4>1. k = VR!Slot(e) <=> adds /\ ~second
        BY <1>0, <3>2, FirstOfName
      <4>2. byType' = [byType EXCEPT ![VR!Slot(e)] = @ + 1] /\ k \in DOMAIN byType
        BY <1>0, <3>2 DEF RouteTypes
      <4>. HIDE DEF adds, second
      <4>. QED BY <4>1, <4>2
    <3>. QED BY <1>0, <3>1, <3>2
  <2>. HIDE DEF adds, second, name
  <2>. QED BY <2>1, <2>2, <2>3, <2>4
<1>. QED BY <1>3, <1>4, <1>5 DEF RouteCounts, more

LEMMA OneUp ==
  ASSUME NEW D, NEW f \in [D -> Nat], NEW k
  PROVE  [f EXCEPT ![k] = @ + 1] \in [D -> Nat]
<1>1. k \in D => f[k] + 1 \in Nat
  OBVIOUS
<1>. QED BY <1>1

LEMMA RouteStep == RouteInv /\ VR!Next => RouteInv'
<1>. SUFFICES ASSUME RouteInv, VR!Next PROVE RouteInv'
  OBVIOUS
<1>0. call \in RouteCalls
  BY DEF RouteInv, RouteTypes
<1>1. CASE VR!RouteRecord \/ VR!RefuseRecord
  <2>1. PICK e : /\ \/ VR!Matching(VR!Rec) # {} /\ e = VR!Route(VR!Rec)
                    \/ VR!Matching(VR!Rec) = {} /\ e = NoType
                 /\ entries' = Append(entries, e)
                 /\ \/ /\ VR!Matching(VR!Rec) # {} /\ routed' = routed + 1 /\ unmatched' = unmatched
                       /\ byType' = [byType EXCEPT ![VR!Slot(e)] = @ + 1]
                    \/ /\ e = NoType /\ routed' = routed /\ unmatched' = unmatched + 1
                       /\ byType' = byType
    BY <1>1 DEF VR!RouteRecord, VR!RefuseRecord
  <2>2. VR!More /\ call' = call /\ pc' = pc /\ pc = "routing" /\ VR!More
    BY <1>1 DEF VR!RouteRecord, VR!RefuseRecord
  <2>3. /\ e \in DOMAIN call.types \cup {NoType} /\ EntryClaimed(call, VR!Rec, e)
        /\ VR!Matching(VR!Rec) # {} => e \in DOMAIN call.types
    BY <2>1, <2>2, NextEntry
  <2>4. RouteTypes /\ RouteCounts
    BY <2>2 DEF RouteInv
  <2>5. RouteCounts'
    BY <2>1, <2>2, <2>3, <2>4, EntryCounted
  <2>6. /\ entries' \in Seq(DOMAIN call.types \cup {NoType})
        /\ Len(entries') = Len(entries) + 1 /\ Len(entries) \in Nat
        /\ entries'[Len(entries) + 1] = e
        /\ \A k \in DOMAIN entries : entries'[k] = entries[k]
        /\ DOMAIN entries' = DOMAIN entries \cup {Len(entries) + 1}
    BY <2>1, <2>3, <2>4 DEF RouteTypes
  <2>7. byType' \in [DOMAIN call.types -> Nat] /\ routed' \in Nat /\ unmatched' \in Nat
    <3>1. byType \in [DOMAIN call.types -> Nat] /\ routed \in Nat /\ unmatched \in Nat
      BY <2>4 DEF RouteTypes
    <3>. QED BY <2>1, <3>1, OneUp
  <2>8. Len(entries') <= Len(call.records)
    BY <1>0, <2>2, <2>4, <2>6, RouteCallTypes DEF RouteTypes, VR!More
  <2>9. \A k \in DOMAIN entries' : EntryClaimed(call, call.records[k], entries'[k])
    BY <2>3, <2>6 DEF RouteInv, VR!Rec
  <2>. QED BY <1>0, <2>2, <2>5, <2>6, <2>7, <2>8, <2>9 DEF RouteInv, RouteTypes
<1>2. CASE VR!FailRecord
  <2>1. /\ UNCHANGED <<call, entries, unmatched>> /\ pc' = "error" /\ routed' = routed + 1
        /\ \E k : byType' = [byType EXCEPT ![k] = @ + 1]
    BY <1>2 DEF VR!FailRecord
  <2>2. byType' \in [DOMAIN call.types -> Nat]
    BY <2>1, OneUp DEF RouteInv, RouteTypes
  <2>3. RouteTypes'
    BY <2>1, <2>2 DEF RouteInv, RouteTypes
  <2>. QED BY <2>1, <2>3 DEF RouteInv
<1>3. CASE VR!Finish
  <2>1. /\ UNCHANGED <<call, entries, unmatched, byType, routed>>
        /\ pc = "routing" /\ pc' = "done" /\ ~VR!More
        /\ output' = [routed |-> routed, unmatched |-> unmatched, entries |-> entries,
                      byType |-> [k \in DOMAIN byType |-> <<call.types[k].name, byType[k]>>]]
    BY <1>3 DEF VR!Finish
  <2>2. Len(entries) = Len(call.records)
    BY <1>0, <2>1, RouteCallTypes DEF VR!More, RouteInv, RouteTypes
  <2>3. RouteTypes' /\ RouteCounts'
    BY <2>1 DEF RouteInv, RouteTypes, RouteCounts
  <2>. QED BY <2>1, <2>2, <2>3 DEF RouteInv, RouteTypes
<1>4. CASE VR!Terminated
  BY <1>4 DEF VR!Terminated, VR!vars, RouteInv, RouteTypes, RouteCounts
<1>. QED BY <1>1, <1>2, <1>3, <1>4 DEF VR!Next

(* No record is guessed onto a layout: every entry is the first type that  *)
(* claims the record, every refused one is claimed by none, and the        *)
(* manifest's counters, of types that share a name too, are of its entries.*)
THEOREM FirstClaimCounts == Spec => []NeverGuessed
<1>. DEFINE IInv == court = "variant_route" => RouteInv
<1>1. IInv => NeverGuessed
  <2>. SUFFICES ASSUME RouteInv PROVE VR!NeverGuessed
    BY DEF NeverGuessed
  <2>1. VR!EntriesClaimed
    BY ClaimsIs DEF RouteInv, EntryClaimed, VR!EntriesClaimed
  <2>2. ASSUME pc = "done"
        PROVE  /\ output.entries = entries /\ Len(entries) = Len(call.records)
               /\ output.unmatched = VR!Cardinality(RefusedIn(entries))
               /\ output.routed + output.unmatched = Len(call.records)
    BY <2>2, Counts DEF RouteInv, RouteCounts
  <2>3. ASSUME pc = "done", NEW k \in DOMAIN call.types
        PROVE  output.byType[k] =
                 <<VR!NameOf(k),
                   IF \E j \in DOMAIN call.types : j < k /\ VR!NameOf(j) = VR!NameOf(k) THEN 0
                   ELSE VR!Cardinality(VR!Named(VR!NameOf(k)))>>
    <3>1. VR!Named(VR!NameOf(k)) = NamedIn(call, entries, call.types[k].name)
      BY DEF VR!Named, VR!NameOf, NamedIn
    <3>2. output.byType[k] = <<call.types[k].name, byType[k]>> /\ byType[k] = Counter(call, entries, k)
      BY <2>3 DEF RouteInv, RouteCounts
    <3>3. VR!Cardinality(VR!Named(VR!NameOf(k))) = Cardinality(NamedIn(call, entries, call.types[k].name))
      BY <3>1, Counts
    <3>. QED BY <3>2, <3>3 DEF Counter, VR!NameOf
  <2>. QED BY <2>1, <2>2, <2>3 DEF VR!NeverGuessed, RefusedIn
<1>2. Init => IInv
  BY RouteStart DEF Init
<1>3. IInv /\ [Next]_vars => IInv'
  <2>1. CASE UNCHANGED vars
    BY <2>1 DEF vars, routeVars, RouteInv, RouteTypes, RouteCounts
  <2>2. CASE court = "variant_route" /\ VR!Next /\ court' = court
    BY <2>2, RouteStep
  <2>. QED BY <2>1, <2>2 DEF Next
<1>. QED BY <1>1, <1>2, <1>3, PTL DEF Spec

-----------------------------------------------------------------------------
(* Lists of pairs, each name once.                                         *)
Pairs(list) ==
  /\ DOMAIN list \subseteq Nat
  /\ \A k \in DOMAIN list : list[k] = <<list[k][1], list[k][2]>>

LEMMA LookupIs ==
  ASSUME NEW list, Pairs(list), DF!Unique(list)
  PROVE  /\ \A n, v : DF!Lookup(list, n) = {v} <=> <<n, v>> \in DF!Entries(list)
         /\ \A n : DF!Lookup(list, n) = {} <=> n \notin DF!Names(list)
<1>1. \A n, v : <<n, v>> \in DF!Entries(list) <=>
                  \E k \in DOMAIN list : list[k][1] = n /\ list[k][2] = v
  BY DEF DF!Entries
<1>2. \A n : n \in DF!Names(list) <=> \E k \in DOMAIN list : list[k][1] = n
  <2>1. \A x : x \in DF!Entries(list) <=> \E k \in DOMAIN list : x = <<list[k][1], list[k][2]>>
    BY DEF DF!Entries
  <2>2. \A n : n \in DF!Names(list) <=> \E x \in DF!Entries(list) : n = x[1]
    BY DEF DF!Names
  <2>3. ASSUME NEW n, NEW x \in DF!Entries(list), n = x[1] PROVE \E k \in DOMAIN list : list[k][1] = n
    <3>1. PICK k \in DOMAIN list : x = <<list[k][1], list[k][2]>>
      BY <2>1, <2>3
    <3>. QED BY <2>3, <3>1
  <2>4. ASSUME NEW n, NEW k \in DOMAIN list, list[k][1] = n PROVE \E x \in DF!Entries(list) : n = x[1]
    <3>1. <<list[k][1], list[k][2]>> \in DF!Entries(list) /\ <<list[k][1], list[k][2]>>[1] = n
      BY <2>1, <2>4
    <3>. QED BY <3>1
  <2>. QED BY <2>2, <2>3, <2>4
<1>3. ASSUME NEW n, NEW k \in DOMAIN list, list[k][1] = n
      PROVE  DF!Lookup(list, n) = {list[k][2]}
  <2>. DEFINE places == {j \in DOMAIN list : list[j][1] = n}
  <2>1. places = {k}
    BY <1>3 DEF DF!Unique
  <2>2. k \in Nat /\ DF!Max({k}) = k
    BY DEF Pairs, DF!Max
  <2>3. DF!Lookup(list, n) = IF places = {} THEN {} ELSE {list[DF!Max(places)][2]}
    BY DEF DF!Lookup
  <2>. HIDE DEF places
  <2>. QED BY <2>1, <2>2, <2>3
<1>4. ASSUME NEW n, n \notin DF!Names(list) PROVE DF!Lookup(list, n) = {}
  BY <1>2, <1>4 DEF DF!Lookup
<1>5. ASSUME NEW n, NEW v PROVE DF!Lookup(list, n) = {v} <=> <<n, v>> \in DF!Entries(list)
  <2>1. CASE n \in DF!Names(list)
    <3>1. PICK k \in DOMAIN list : list[k][1] = n
      BY <1>2, <2>1
    <3>2. DF!Lookup(list, n) = {list[k][2]}
      BY <1>3, <3>1
    <3>3. <<n, v>> \in DF!Entries(list) <=> list[k][2] = v
      BY <1>1, <3>1 DEF DF!Unique
    <3>. QED BY <3>2, <3>3
  <2>2. CASE n \notin DF!Names(list)
    BY <1>1, <1>2, <1>4, <2>2
  <2>. QED BY <2>1, <2>2
<1>6. ASSUME NEW n PROVE DF!Lookup(list, n) = {} <=> n \notin DF!Names(list)
  BY <1>2, <1>3, <1>4
<1>. QED BY <1>5, <1>6

LEMMA OccursOnce ==
  ASSUME NEW list, Pairs(list), DF!Unique(list), NEW e
  PROVE  DF!Occurrences(list, e) = IF e \in DF!Entries(list) THEN 1 ELSE 0
<1>. DEFINE places == {k \in DOMAIN list : list[k] = e}
<1>1. CASE e \in DF!Entries(list)
  <2>1. PICK k \in DOMAIN list : e = list[k]
    BY <1>1 DEF DF!Entries, Pairs
  <2>2. places = {k}
    BY <2>1 DEF DF!Unique
  <2>. QED BY <1>1, <2>2, Counts, FS_Singleton DEF DF!Occurrences
<1>2. CASE e \notin DF!Entries(list)
  <2>1. places = {}
    BY <1>2 DEF DF!Entries, Pairs
  <2>. QED BY <1>2, <2>1, Counts DEF DF!Occurrences
<1>. QED BY <1>1, <1>2

LEMMA SameIsEqual ==
  ASSUME NEW a, NEW b, Pairs(a), Pairs(b), DF!Unique(a), DF!Unique(b)
  PROVE  DF!SameEntries(a, b) <=> DF!Entries(a) = DF!Entries(b)
<1>1. \A e : DF!Occurrences(a, e) = DF!Occurrences(b, e) <=>
              (e \in DF!Entries(a) <=> e \in DF!Entries(b))
  BY OccursOnce
<1>2. DF!SameEntries(a, b) <=>
        \A e \in DF!Entries(a) \cup DF!Entries(b) : e \in DF!Entries(a) <=> e \in DF!Entries(b)
  BY <1>1 DEF DF!SameEntries
<1>. QED BY <1>2

(* Nothing is missing, wrong or extra exactly when the lists have the same *)
(* entries.                                                                *)
LEMMA ListsCompared ==
  ASSUME NEW a, NEW b, Pairs(a), Pairs(b), DF!Unique(a), DF!Unique(b)
  PROVE  DF!SameEntries(a, b) <=>
           /\ \A e \in DF!Entries(b) : DF!Lookup(a, e[1]) = {e[2]}
           /\ DF!ExtraNames(a, b) = {}
<1>1. /\ \A e \in DF!Entries(a) : e = <<e[1], e[2]>> /\ e[1] \in DF!Names(a)
      /\ \A e \in DF!Entries(b) : e = <<e[1], e[2]>> /\ e[1] \in DF!Names(b)
      /\ \A n \in DF!Names(b) : \E e \in DF!Entries(b) : e[1] = n
  BY DEF DF!Entries, DF!Names
<1>2. \A e, f \in DF!Entries(a) : e[1] = f[1] => e = f
  BY DEF DF!Entries, DF!Unique
<1>3. \A e \in DF!Entries(b) : DF!Lookup(a, e[1]) = {e[2]} <=> e \in DF!Entries(a)
  BY <1>1, LookupIs
<1>4. ASSUME DF!Entries(b) \subseteq DF!Entries(a)
      PROVE  DF!ExtraNames(a, b) = {} <=> DF!Entries(a) \subseteq DF!Entries(b)
  <2>1. ASSUME DF!Entries(a) \subseteq DF!Entries(b) PROVE DF!ExtraNames(a, b) = {}
    BY <2>1 DEF DF!ExtraNames, DF!Names
  <2>2. ASSUME DF!ExtraNames(a, b) = {}, NEW e \in DF!Entries(a) PROVE e \in DF!Entries(b)
    <3>1. e[1] \in DF!Names(b)
      BY <1>1, <2>2 DEF DF!ExtraNames
    <3>2. PICK f \in DF!Entries(b) : f[1] = e[1]
      BY <1>1, <3>1
    <3>. QED BY <1>2, <1>4, <3>2
  <2>. QED BY <2>1, <2>2
<1>. QED BY <1>3, <1>4, SameIsEqual

LEMMA DiffCallTypes ==
  ASSUME NEW c \in DiffCalls, NEW side \in {c.actual, c.expected}
  PROVE  /\ Pairs(side.fields) /\ Pairs(side.totals)
         /\ side.findingIds \in Seq(DF!ToSet(side.findingIds))
<1>1. /\ side.findingIds \in Seq(DF!ToSet(side.findingIds))
      /\ \A list \in {side.fields, side.totals} :
           /\ list \in Seq(DF!ToSet(list))
           /\ \A k \in DOMAIN list : list[k] = <<list[k][1], list[k][2]>>
  BY DiffCallsTyped DEF DF!CallsTyped
<1>. QED BY <1>1 DEF Pairs

(* What a dimension is documented to compare.                              *)
AgreesOn(c, d) ==
  /\ d = "field_values" => DF!SameEntries(c.actual.fields, c.expected.fields)
  /\ d = "control_totals" => DF!SameEntries(c.actual.totals, c.expected.totals)
  /\ d = "finding_ids" =>
       \A f \in DF!ToSet(c.actual.findingIds \o c.expected.findingIds) :
         DF!Contains(c.actual.findingIds, f) <=> DF!Contains(c.expected.findingIds, f)
  /\ d = "audit_hashes" => c.actual.hash = c.expected.hash

UniqueIn(c) ==
  \A side \in {c.actual, c.expected} : DF!Unique(side.fields) /\ DF!Unique(side.totals)

LEMMA IdsCompared ==
  ASSUME NEW a, NEW b, a \in Seq(DF!ToSet(a)), b \in Seq(DF!ToSet(b))
  PROVE  DF!ToSet(a) = DF!ToSet(b) <=>
           \A f \in DF!ToSet(a \o b) : DF!Contains(a, f) <=> DF!Contains(b, f)
<1>. DEFINE S == DF!ToSet(a) \cup DF!ToSet(b)
<1>1. \A f : (DF!Contains(a, f) <=> f \in DF!ToSet(a)) /\ (DF!Contains(b, f) <=> f \in DF!ToSet(b))
  BY DEF DF!Contains, DF!ToSet
<1>2. DF!ToSet(a \o b) = S
  <2>1. a \in Seq(S) /\ b \in Seq(S)
    OBVIOUS
  <2>. HIDE DEF S
  <2>2. /\ DOMAIN (a \o b) = 1..(Len(a) + Len(b)) /\ Len(a) \in Nat /\ Len(b) \in Nat
        /\ DOMAIN a = 1..Len(a) /\ DOMAIN b = 1..Len(b)
        /\ \A k \in 1..Len(a) : (a \o b)[k] = a[k]
        /\ \A k \in 1..Len(b) : (a \o b)[Len(a) + k] = b[k]
    BY <2>1
  <2>. DEFINE both == a \o b
  <2>3. \A k \in DOMAIN both : both[k] \in DF!ToSet(a) \cup DF!ToSet(b)
    <3>1. ASSUME NEW k \in DOMAIN both, k > Len(a) PROVE both[k] \in DF!ToSet(b)
      <4>1. k - Len(a) \in 1..Len(b) /\ Len(a) + (k - Len(a)) = k
        BY <2>2, <3>1
      <4>2. both[k] = b[k - Len(a)]
        BY <2>2, <4>1
      <4>. QED BY <2>2, <4>1, <4>2 DEF DF!ToSet
    <3>2. ASSUME NEW k \in DOMAIN both, k <= Len(a) PROVE both[k] \in DF!ToSet(a)
      BY <2>2, <3>2 DEF DF!ToSet
    <3>. QED BY <2>2, <3>1, <3>2
  <2>4. \A k \in DOMAIN a : a[k] \in DF!ToSet(both)
    BY <2>2 DEF DF!ToSet
  <2>5. \A k \in DOMAIN b : b[k] \in DF!ToSet(both)
    <3>1. ASSUME NEW k \in DOMAIN b PROVE b[k] \in DF!ToSet(both)
      <4>1. Len(a) + k \in DOMAIN both /\ both[Len(a) + k] = b[k]
        BY <2>2
      <4>. HIDE DEF both
      <4>. QED BY <4>1 DEF DF!ToSet
    <3>. QED BY <3>1
  <2>. HIDE DEF both
  <2>6. DF!ToSet(both) = DF!ToSet(a) \cup DF!ToSet(b)
    BY <2>3, <2>4, <2>5 DEF DF!ToSet
  <2>. QED BY <2>6 DEF both, S
<1>. QED BY <1>1, <1>2

LEMMA DimensionExact ==
  ASSUME call \in DiffCalls, UniqueIn(call), NEW d \in DF!ToSet(DF!Dimensions)
  PROVE  DF!FindingsOf(d) = {} <=> AgreesOn(call, d)
<1>. DEFINE a == call.actual
            e == call.expected
<1>1. /\ Pairs(a.fields) /\ Pairs(e.fields) /\ Pairs(a.totals) /\ Pairs(e.totals)
      /\ a.findingIds \in Seq(DF!ToSet(a.findingIds)) /\ e.findingIds \in Seq(DF!ToSet(e.findingIds))
  BY DiffCallTypes
<1>2. DF!Unique(a.fields) /\ DF!Unique(e.fields) /\ DF!Unique(a.totals) /\ DF!Unique(e.totals)
  BY DEF UniqueIn
<1>3. d \in {"field_values", "finding_ids", "control_totals", "audit_hashes"}
  BY DEF DF!ToSet, DF!Dimensions
<1>4. CASE d = "field_values"
  <2>1. DF!FieldFindings = {} <=>
          /\ \A x \in DF!Entries(e.fields) : DF!Lookup(a.fields, x[1]) = {x[2]}
          /\ DF!ExtraNames(a.fields, e.fields) = {}
    BY DEF DF!FieldFindings
  <2>2. DF!FieldFindings = {} <=> DF!SameEntries(a.fields, e.fields)
    BY <1>1, <1>2, <2>1, ListsCompared
  <2>. QED BY <1>4, <2>2 DEF DF!FindingsOf, AgreesOn
<1>5. CASE d = "control_totals"
  <2>1. DF!TotalFindings = {} <=>
          /\ \A x \in DF!Entries(e.totals) : DF!Lookup(a.totals, x[1]) = {x[2]}
          /\ DF!ExtraNames(a.totals, e.totals) = {}
    BY DEF DF!TotalFindings
  <2>2. DF!TotalFindings = {} <=> DF!SameEntries(a.totals, e.totals)
    BY <1>1, <1>2, <2>1, ListsCompared
  <2>. QED BY <1>5, <2>2 DEF DF!FindingsOf, AgreesOn
<1>6. CASE d = "finding_ids"
  <2>1. DF!FindingFindings = {} <=> DF!ToSet(a.findingIds) = DF!ToSet(e.findingIds)
    BY DEF DF!FindingFindings
  <2>2. DF!FindingsOf(d) = DF!FindingFindings
    BY <1>6 DEF DF!FindingsOf
  <2>. QED BY <1>1, <1>6, <2>1, <2>2, IdsCompared DEF AgreesOn
<1>7. CASE d = "audit_hashes"
  BY <1>7 DEF DF!FindingsOf, DF!HashFindings, AgreesOn
<1>. QED BY <1>3, <1>4, <1>5, <1>6, <1>7

Judged(c, n) ==
  \A k \in 1..n : DF!Dimensions[k] \in c.allowed => AgreesOn(c, DF!Dimensions[k])

DiffInv ==
  /\ call \in DiffCalls
  /\ at \in 1..6
  /\ UniqueIn(call) /\ at <= 5 => (findings = {} <=> Judged(call, at - 1))
  /\ UniqueIn(call) /\ at = 6 => (matched <=> Judged(call, 4))

LEMMA DiffStep == DiffInv /\ DF!Next => DiffInv'
<1>. SUFFICES ASSUME DiffInv, DF!Next PROVE DiffInv'
  OBVIOUS
<1>0. call \in DiffCalls /\ at \in 1..6 /\ Len(DF!Dimensions) = 4
  BY DEF DiffInv, DF!Dimensions
<1>1. ASSUME at \in 1..4
      PROVE  Judged(call, at) <=>
               /\ Judged(call, at - 1)
               /\ DF!Dimension \in call.allowed => AgreesOn(call, DF!Dimension)
  BY <1>1 DEF Judged, DF!Dimension
<1>2. CASE DF!Compare
  <2>1. /\ call' = call /\ at \in 1..4 /\ at' = at + 1 /\ DF!Dimension \in call.allowed
        /\ findings' = findings \cup DF!FindingsOf(DF!Dimension)
    BY <1>0, <1>2 DEF DF!Compare
  <2>2. DF!Dimension \in DF!ToSet(DF!Dimensions)
    BY <2>1 DEF DF!Dimension, DF!ToSet, DF!Dimensions
  <2>3. UniqueIn(call) => (DF!FindingsOf(DF!Dimension) = {} <=> AgreesOn(call, DF!Dimension))
    BY <1>0, <2>2, DimensionExact
  <2>4. UniqueIn(call) => (findings' = {} <=> Judged(call, at))
    BY <1>1, <2>1, <2>3 DEF DiffInv
  <2>. QED BY <1>0, <2>1, <2>4 DEF DiffInv
<1>3. CASE DF!Skip
  <2>1. /\ call' = call /\ at \in 1..4 /\ at' = at + 1 /\ DF!Dimension \notin call.allowed
        /\ findings' = findings
    BY <1>0, <1>3 DEF DF!Skip
  <2>2. UniqueIn(call) => (findings' = {} <=> Judged(call, at))
    BY <1>1, <2>1 DEF DiffInv
  <2>. QED BY <1>0, <2>1, <2>2 DEF DiffInv
<1>4. CASE DF!Conclude
  <2>1. /\ call' = call /\ at = 5 /\ at' = 6
        /\ matched' <=> findings = {}
    <3>1. call' = call /\ at = 5 /\ at' = 6
      BY <1>0, <1>4 DEF DF!Conclude
    <3>2. matched' = (findings = {})
      BY <1>4 DEF DF!Conclude
    <3>3. matched' <=> findings = {}
      BY <3>2, Zenon
    <3>. QED BY <3>1, <3>3
  <2>2. UniqueIn(call) => (matched' <=> Judged(call, 4))
    BY <2>1 DEF DiffInv
  <2>. QED BY <1>0, <2>1, <2>2 DEF DiffInv
<1>5. CASE DF!Terminated
  BY <1>5 DEF DF!Terminated, DF!vars, DiffInv
<1>. QED BY <1>2, <1>3, <1>4, <1>5 DEF DF!Next

(* Two artifacts in which no name is listed twice match exactly when every *)
(* compared dimension has the same content on both sides, in any order.    *)
THEOREM MatchIsEquality == Spec => []VerdictExact
<1>. DEFINE IInv == court = "diff_artifacts" => DiffInv
<1>1. IInv => VerdictExact
  <2>. SUFFICES ASSUME DiffInv PROVE DF!VerdictExact
    BY DEF VerdictExact
  <2>1. DF!Concluded => at = 6
    BY DEF DF!Concluded, DF!Dimensions
  <2>2. DF!NamesUnique <=> UniqueIn(call)
    BY DEF DF!NamesUnique, UniqueIn
  <2>3. Judged(call, 4) <=> DF!EqualUnderTarget
    <3>1. /\ DF!Dimensions[1] = "field_values" /\ DF!Dimensions[2] = "finding_ids"
          /\ DF!Dimensions[3] = "control_totals" /\ DF!Dimensions[4] = "audit_hashes"
      BY DEF DF!Dimensions
    <3>2. 1..4 = {1, 2, 3, 4}
      OBVIOUS
    <3>. QED BY <3>1, <3>2 DEF Judged, AgreesOn, DF!EqualUnderTarget
  <2>. QED BY <2>1, <2>2, <2>3 DEF DiffInv, DF!VerdictExact
<1>2. Init => IInv
  BY DEF Init, DF!Init, DiffInv, Judged
<1>3. IInv /\ [Next]_vars => IInv'
  <2>1. CASE UNCHANGED vars
    BY <2>1 DEF vars, diffVars, DiffInv
  <2>2. CASE court = "diff_artifacts" /\ DF!Next /\ court' = court
    BY <2>2, DiffStep
  <2>. QED BY <2>1, <2>2 DEF Next
<1>. QED BY <1>1, <1>2, <1>3, PTL DEF Spec

-----------------------------------------------------------------------------
LEMMA LeastPlace ==
  ASSUME NEW S, S \subseteq Nat, S # {}
  PROVE  TR!Min(S) \in S
BY LeastIn DEF TR!Min

LEMMA NamedIsListed ==
  ASSUME NEW S, NEW list \in Seq(S), NEW name, NEW x \in TR!FirstNamed(list, name)
  PROVE  x \in S
<1>. DEFINE places == {k \in DOMAIN list : list[k].name = name}
<1>1. places \subseteq Nat /\ places # {} /\ x = list[TR!Min(places)]
  BY DEF TR!FirstNamed
<1>2. TR!Min(places) \in places
  BY <1>1, LeastPlace
<1>. QED BY <1>1, <1>2

(* ItemOf, with the call as a parameter.                                   *)
ItemIn(c, t) ==
  UNION {TR!FirstNamed(c.laid, n) :
           n \in IF t.op = "set" THEN {d.parent : d \in TR!FirstNamed(c.conditions, t.target)}
                 ELSE {t.target}}

LEMMA ItemIs == \A t : TR!ItemOf(t) = ItemIn(call, t)
  BY DEF TR!ItemOf, ItemIn

LEMMA OneTarget == TR!TargetItem = ItemIn(call, TR!Current)
  BY DEF TR!TargetItem, ItemIn, TR!Condition

LEMMA TargetTyped ==
  ASSUME call \in TransformCalls, NEW item \in TR!TargetItem
  PROVE  item.offset \in Nat /\ item.size \in Nat
<1>1. call.laid \in Seq(TR!Items)
  BY TransformCallsTyped DEF TR!CallsTyped
<1>2. PICK name : item \in TR!FirstNamed(call.laid, name)
  BY DEF TR!TargetItem
<1>3. item \in TR!Items
  BY <1>1, <1>2, NamedIsListed
<1>. QED BY <1>3 DEF TR!Items

(* What is written has no place beyond the size of the item.               *)
LEMMA ResultFits ==
  ASSUME call \in TransformCalls, NEW item, item.size \in Nat,
         NEW bytes \in TR!Results(item), Len(bytes) = item.size
  PROVE  DOMAIN bytes \subseteq 1..item.size
<1>1. CASE TR!Current.op = "set"
  <2>1. PICK c \in TR!Condition : bytes = c.literal
    BY <1>1 DEF TR!Results
  <2>2. c \in [name : STRING, parent : STRING, literal : Seq(0..19)]
    BY NamedIsListed, TransformCallsTyped DEF TR!Condition, TR!CallsTyped
  <2>3. bytes \in Seq(0..19)
    BY <2>1, <2>2
  <2>. QED BY <2>3
<1>2. CASE TR!Current.op # "set"
  <2>1. PICK n : bytes \in TR!Arith(item, n)
    BY <1>2 DEF TR!Results
  <2>2. bytes = <<>> \/ \E m : bytes = TR!Stored(m, item)
    BY <2>1 DEF TR!Arith
  <2>3. ASSUME NEW m PROVE DOMAIN TR!Stored(m, item) = 1..item.size
    BY DEF TR!Stored, TR!Digits
  <2>. QED BY <2>2, <2>3
<1>. QED BY <1>1, <1>2

LEMMA WriteStays ==
  ASSUME NEW item, item.offset \in Nat, item.size \in Nat,
         NEW bytes, DOMAIN bytes \subseteq 1..item.size,
         NEW rec, NEW k \in DOMAIN rec, k \in Nat, k \notin TR!Storage({item})
  PROVE  DOMAIN TR!Write(rec, item, bytes) = DOMAIN rec /\ TR!Write(rec, item, bytes)[k] = rec[k]
<1>1. k \notin (item.offset + 1)..(item.offset + item.size)
  BY DEF TR!Storage
<1>2. k - item.offset \notin DOMAIN bytes
  BY <1>1
<1>. QED BY <1>2 DEF TR!Write

Written ==
  \A k \in DOMAIN after : after[k] # call.record[k] =>
    \E j \in DOMAIN applied : k \in TR!Storage(ItemIn(call, call.transforms[applied[j]]))

TransformInv ==
  /\ call \in TransformCalls
  /\ at \in Nat
  /\ applied \in Seq(Nat)
  /\ DOMAIN after = DOMAIN call.record
  /\ Written

LEMMA TransformApplied ==
  ASSUME TransformInv, TR!Apply PROVE TransformInv'
<1>1. /\ call' = call /\ at' = at + 1 /\ applied' = Append(applied, at)
      /\ \E item \in TR!TargetItem : \E bytes \in TR!Results(item) :
           Len(bytes) = item.size /\ after' = TR!Write(after, item, bytes)
  BY DEF TR!Apply
<1>2. PICK item \in TR!TargetItem : \E bytes \in TR!Results(item) :
         Len(bytes) = item.size /\ after' = TR!Write(after, item, bytes)
  BY <1>1
<1>3. PICK bytes \in TR!Results(item) : Len(bytes) = item.size /\ after' = TR!Write(after, item, bytes)
  BY <1>2
<1>4. item.offset \in Nat /\ item.size \in Nat
  BY TargetTyped DEF TransformInv
<1>5. DOMAIN bytes \subseteq 1..item.size
  BY <1>3, <1>4, ResultFits DEF TransformInv
<1>6. DOMAIN after' = DOMAIN after
  BY <1>3 DEF TR!Write
<1>7. /\ applied' \in Seq(Nat) /\ Len(applied') = Len(applied) + 1 /\ Len(applied) \in Nat
      /\ applied'[Len(applied) + 1] = at
      /\ \A j \in DOMAIN applied : j \in DOMAIN applied' /\ applied'[j] = applied[j]
      /\ Len(applied) + 1 \in DOMAIN applied'
  BY <1>1 DEF TransformInv
<1>8. ASSUME NEW k \in DOMAIN after, after'[k] # call.record[k]
      PROVE  \E j \in DOMAIN applied' : k \in TR!Storage(ItemIn(call, call.transforms[applied'[j]]))
  <2>1. CASE k \in TR!Storage({item})
    <3>1. item \in ItemIn(call, call.transforms[at])
      BY OneTarget DEF TR!Current
    <3>2. k \in TR!Storage(ItemIn(call, call.transforms[at]))
      BY <2>1, <3>1 DEF TR!Storage
    <3>. QED BY <1>7, <3>2
  <2>2. CASE k \notin TR!Storage({item})
    <3>1. k \in Nat
      BY TransformCallsTyped DEF TransformInv, TR!CallsTyped
    <3>2. after'[k] = after[k]
      BY <1>3, <1>4, <1>5, <2>2, <3>1, WriteStays
    <3>3. PICK j \in DOMAIN applied :
             k \in TR!Storage(ItemIn(call, call.transforms[applied[j]]))
      BY <1>8, <3>2 DEF TransformInv, Written
    <3>. QED BY <1>7, <3>3
  <2>. QED BY <2>1, <2>2
<1>9. Written'
  BY <1>1, <1>6, <1>8 DEF Written
<1>. QED BY <1>1, <1>6, <1>7, <1>9 DEF TransformInv

LEMMA TransformStart == TR!Init => TransformInv
  BY DEF TR!Init, TransformInv, Written

LEMMA TransformStep == TransformInv /\ TR!Next => TransformInv'
<1>. SUFFICES ASSUME TransformInv, TR!Next PROVE TransformInv'
  OBVIOUS
<1>1. CASE TR!Apply
  BY <1>1, TransformApplied
<1>2. CASE \/ TR!Refuse \/ TR!Undeclared \/ TR!OutOfRecord \/ TR!MalformedAmount
           \/ TR!Fail \/ TR!Finish \/ TR!Terminated
  <2>1. UNCHANGED <<call, after, applied>> /\ at' \in Nat
    BY <1>2 DEF TR!Refuse, TR!Undeclared, TR!OutOfRecord, TR!MalformedAmount, TR!Fail, TR!Report,
                TR!Finish, TR!Terminated, TR!vars, TransformInv
  <2>. QED BY <2>1 DEF TransformInv, Written
<1>. QED BY <1>1, <1>2 DEF TR!Next

(* Transforms run one after the other on the same bytes, some are refused  *)
(* in between and targets may share storage: a byte that changed is always *)
(* one of an applied transform's own item.                                 *)
THEOREM TargetsOnly == Spec => []OnlyAppliedTargetsChange
<1>. DEFINE IInv == court = "reconcile_transform" => TransformInv
<1>1. IInv => OnlyAppliedTargetsChange
  BY ItemIs DEF TransformInv, Written, OnlyAppliedTargetsChange, TR!OnlyAppliedTargetsChange,
                TR!AppliedTo
<1>2. Init => IInv
  BY TransformStart DEF Init
<1>3. IInv /\ [Next]_vars => IInv'
  <2>1. CASE UNCHANGED vars
    BY <2>1 DEF vars, transformVars, TransformInv, Written
  <2>2. CASE court = "reconcile_transform" /\ TR!Next /\ court' = court
    BY <2>2, TransformStep
  <2>. QED BY <2>1, <2>2 DEF Next
<1>. QED BY <1>1, <1>2, <1>3, PTL DEF Spec

-----------------------------------------------------------------------------
(* The hash chain of a unit after its first k records, and all of them.    *)
ChainTo(raws, h, k) == IF k = 0 THEN <<>> ELSE PO!Extend(h[k - 1], raws[k])
Chains(raws, h, m) == h = [k \in 0..m |-> ChainTo(raws, h, k)]
Hashes(raws) == CHOOSE h : Chains(raws, h, Len(raws))

LEMMA OneMoreLink ==
  ASSUME NEW raws, NEW h, NEW m \in Nat \ {0}, Chains(raws, h, m - 1)
  PROVE  \E n : Chains(raws, n, m)
<1>. DEFINE more == [k \in 0..m |-> IF k = m THEN PO!Extend(h[m - 1], raws[m]) ELSE h[k]]
<1>1. /\ \A k \in 0..m : more[k] = IF k = m THEN PO!Extend(h[m - 1], raws[m]) ELSE h[k]
      /\ DOMAIN more = 0..m /\ more = [k \in 0..m |-> more[k]]
  OBVIOUS
<1>. HIDE DEF more
<1>2. more[m] = ChainTo(raws, more, m)
  BY <1>1 DEF ChainTo
<1>3. ASSUME NEW k \in 0..(m - 1) PROVE more[k] = ChainTo(raws, more, k)
  <2>1. h[k] = ChainTo(raws, h, k)
    BY DEF Chains
  <2>2. more[k] = h[k] /\ k \in 0..m
    BY <1>1
  <2>3. k # 0 => k - 1 \in 0..m /\ more[k - 1] = h[k - 1]
    BY <1>1
  <2>. QED BY <2>1, <2>2, <2>3 DEF ChainTo
<1>4. \A k \in 0..m : more[k] = ChainTo(raws, more, k)
  BY <1>2, <1>3
<1>. QED BY <1>1, <1>4 DEF Chains

LEMMA HashesChain ==
  ASSUME NEW raws, Len(raws) \in Nat
  PROVE  /\ Chains(raws, Hashes(raws), Len(raws))
         /\ PO!ChainOf(raws) = Hashes(raws)[Len(raws)]
<1>. DEFINE open == {m \in 0..Len(raws) : ~\E h : Chains(raws, h, m)}
<1>1. open = {}
  <2>. SUFFICES ASSUME open # {} PROVE FALSE
    OBVIOUS
  <2>1. PICK m \in open : \A j \in open : m <= j
    <3>1. open \subseteq Nat
      OBVIOUS
    <3>. HIDE DEF open
    <3>. QED BY <3>1, LeastIn
  <2>2. m # 0
    <3>1. Chains(raws, [k \in 0..0 |-> <<>>], 0)
      BY DEF Chains, ChainTo
    <3>. QED BY <2>1, <3>1
  <2>3. m \in Nat \ {0} /\ m - 1 \in 0..Len(raws)
    BY <2>1, <2>2
  <2>4. m - 1 \notin open
    <3>. HIDE DEF open
    <3>. QED BY <2>1, <2>3
  <2>. QED BY <2>1, <2>3, <2>4, OneMoreLink
<1>2. \E h : Chains(raws, h, Len(raws))
  BY <1>1
<1>3. Chains(raws, Hashes(raws), Len(raws))
  BY <1>2 DEF Hashes
<1>4. PO!ChainOf(raws) = Hashes(raws)[Len(raws)]
  BY DEF PO!ChainOf, Hashes, Chains, ChainTo
<1>. QED BY <1>3, <1>4

LEMMA LinksDiffer ==
  /\ \A h, raw : PO!Extend(h, raw) # <<>>
  /\ \A h, g, raw, other :
       PO!Extend(h, raw) = PO!Extend(g, other) => h = g /\ raw = other
<1>1. \A raw, other : <<raw>> # <<>> /\ (<<raw>> = <<other>> => raw = other)
  OBVIOUS
<1>2. \A h, raw, other : <<h, raw>> # <<>> /\ <<h, raw>> # <<other>>
  OBVIOUS
<1>3. \A h, g, raw, other : <<h, raw>> = <<g, other>> => h = g /\ raw = other
  OBVIOUS
<1>. QED BY <1>1, <1>2, <1>3 DEF PO!Extend, PO!Leaf, PO!Node

LEMMA HashFixesUnit ==
  ASSUME NEW a, NEW b, Len(a) \in Nat, Len(b) \in Nat,
         PO!ChainOf(a) = PO!ChainOf(b)
  PROVE  Len(a) = Len(b) /\ \A k \in 1..Len(a) : a[k] = b[k]
<1>. DEFINE Fixed(i, j) == i = j /\ \A k \in 1..i : a[k] = b[k]
            mixed == {i \in 0..Len(a) : \E j \in 0..Len(b) :
                                          Hashes(a)[i] = Hashes(b)[j] /\ ~Fixed(i, j)}
<1>1. /\ \A i \in 0..Len(a) : Hashes(a)[i] = ChainTo(a, Hashes(a), i)
      /\ \A j \in 0..Len(b) : Hashes(b)[j] = ChainTo(b, Hashes(b), j)
      /\ Hashes(a)[Len(a)] = Hashes(b)[Len(b)]
  <2>1. Chains(a, Hashes(a), Len(a)) /\ Chains(b, Hashes(b), Len(b))
    BY HashesChain
  <2>2. Hashes(a)[Len(a)] = Hashes(b)[Len(b)]
    BY HashesChain
  <2>. QED BY <2>1, <2>2 DEF Chains
<1>2. mixed = {}
  <2>. SUFFICES ASSUME mixed # {} PROVE FALSE
    OBVIOUS
  <2>1. PICK i \in mixed : \A k \in mixed : i <= k
    <3>1. mixed \subseteq Nat
      OBVIOUS
    <3>. HIDE DEF mixed
    <3>. QED BY <3>1, LeastIn
  <2>2. PICK j \in 0..Len(b) : Hashes(a)[i] = Hashes(b)[j] /\ ~Fixed(i, j)
    BY <2>1
  <2>3. i \in 0..Len(a)
    BY <2>1
  <2>4. /\ i = 0 \/ Hashes(a)[i] = PO!Extend(Hashes(a)[i - 1], a[i])
        /\ j = 0 \/ Hashes(b)[j] = PO!Extend(Hashes(b)[j - 1], b[j])
        /\ i = 0 => Hashes(a)[i] = <<>>
        /\ j = 0 => Hashes(b)[j] = <<>>
    BY <1>1, <2>2, <2>3 DEF ChainTo
  <2>5. CASE i = 0 \/ j = 0
    <3>1. i = 0 /\ j = 0
      BY <2>2, <2>4, <2>5, LinksDiffer
    <3>. QED BY <2>2, <3>1
  <2>6. CASE i # 0 /\ j # 0
    <3>1. Hashes(a)[i - 1] = Hashes(b)[j - 1] /\ a[i] = b[j]
      BY <2>2, <2>4, <2>6, LinksDiffer
    <3>2. i - 1 \in 0..Len(a) /\ j - 1 \in 0..Len(b) /\ ~(i <= i - 1)
      BY <2>2, <2>3, <2>6
    <3>3. i - 1 \notin mixed
      <4>. HIDE DEF mixed
      <4>. QED BY <2>1, <3>2
    <3>4. Fixed(i - 1, j - 1)
      BY <3>1, <3>2, <3>3
    <3>. QED BY <2>2, <2>3, <2>6, <3>1, <3>4
  <2>. QED BY <2>5, <2>6
<1>3. Fixed(Len(a), Len(b))
  <2>1. Len(a) \in 0..Len(a) /\ Len(b) \in 0..Len(b)
    OBVIOUS
  <2>. QED BY <1>1, <1>2, <2>1
<1>. QED BY <1>3

RawsIn(c) == [i \in DOMAIN c.data |-> c.data[i].raw]

(* Between two records the chain is the one of the records read so far;    *)
(* what the manifest reports is the chain of all of them.                  *)
PostingInv ==
  /\ call \in PostingCalls
  /\ idx \in 0..Len(call.data)
  /\ chain = Hashes(RawsIn(call))[idx]
  /\ pc = "done" => idx = Len(call.data) /\ result.lastChain = chain

LEMMA UnitTypes ==
  ASSUME NEW c \in PostingCalls
  PROVE  /\ c.data \in Seq(PostingRecords)
         /\ Len(c.data) \in Nat
         /\ Len(RawsIn(c)) = Len(c.data)
         /\ \A i \in 1..Len(c.data) : RawsIn(c)[i] = c.data[i].raw
         /\ DOMAIN RawsIn(c) = 1..Len(c.data)
<1>1. c.data \in Seq(PostingRecords)
  BY PostingCallsTyped DEF PO!CallsTyped
<1>2. Len(c.data) \in Nat /\ DOMAIN c.data = 1..Len(c.data)
  BY <1>1
<1>. DEFINE raws == [i \in 1..Len(c.data) |-> c.data[i].raw]
<1>3. RawsIn(c) = raws
  BY <1>2 DEF RawsIn
<1>4. Len(raws) = Len(c.data)
  BY <1>2
<1>. QED BY <1>1, <1>2, <1>3, <1>4

LEMMA LinkOf ==
  ASSUME NEW c \in PostingCalls
  PROVE  /\ Hashes(RawsIn(c))[0] = <<>>
         /\ \A k \in 1..Len(c.data) :
              Hashes(RawsIn(c))[k] = PO!Extend(Hashes(RawsIn(c))[k - 1], c.data[k].raw)
<1>1. Chains(RawsIn(c), Hashes(RawsIn(c)), Len(c.data))
  BY UnitTypes, HashesChain
<1>. DEFINE h == Hashes(RawsIn(c))
<1>2. \A k \in 0..Len(c.data) : h[k] = ChainTo(RawsIn(c), h, k)
  BY <1>1 DEF Chains
<1>. HIDE DEF h
<1>3. h[0] = <<>>
  BY <1>2, UnitTypes DEF ChainTo
<1>4. \A k \in 1..Len(c.data) : h[k] = PO!Extend(h[k - 1], c.data[k].raw)
  BY <1>2, UnitTypes DEF ChainTo
<1>. QED BY <1>3, <1>4 DEF h

LEMMA PostingStep == PostingInv /\ PO!Next => PostingInv'
<1>. SUFFICES ASSUME PostingInv, PO!Next PROVE PostingInv'
  OBVIOUS
<1>1. call \in PostingCalls /\ call' = call /\ idx \in 0..Len(call.data) /\ Len(call.data) \in Nat
  BY UnitTypes DEF PostingInv, PO!Next, PO!Refuse, PO!Accept, PO!ReadRecord, PO!Finish,
                   PO!Terminated, PO!vars
<1>2. CASE PO!ReadRecord
  <2>1. idx' \in 1..Len(call.data) /\ idx' - 1 = idx /\ pc' # "done"
    BY <1>1, <1>2 DEF PO!ReadRecord
  <2>2. chain' = PO!Extend(chain, call.data[idx'].raw)
    BY <1>2 DEF PO!ReadRecord, PO!Rec
  <2>3. chain' = Hashes(RawsIn(call))[idx']
    BY <1>1, <2>1, <2>2, LinkOf DEF PostingInv
  <2>. QED BY <1>1, <2>1, <2>3 DEF PostingInv
<1>3. CASE PO!Finish
  <2>1. idx' = idx /\ chain' = chain /\ idx = Len(call.data) /\ result'.lastChain = chain
    BY <1>3 DEF PO!Finish
  <2>. QED BY <1>1, <2>1 DEF PostingInv
<1>4. CASE PO!Refuse \/ PO!Accept
  BY <1>1, <1>4 DEF PostingInv, PO!Refuse, PO!Accept
<1>5. CASE PO!Terminated
  BY <1>5 DEF PostingInv, PO!Terminated, PO!vars
<1>. QED BY <1>2, <1>3, <1>4, <1>5 DEF PO!Next

(* Two units of records with the same last chain hash are the same records *)
(* in the same order, whatever they hold and (HashFixesUnit) however long:  *)
(* that is what makes the last hash of a manifest stand for the unit.      *)
THEOREM UnitBound == Spec => []ChainBindsOrder
<1>. DEFINE IInv == court = "posting_manifest" => PostingInv
<1>1. IInv => ChainBindsOrder
  <2>. SUFFICES ASSUME PostingInv, pc = "done",
                       NEW other \in PO!BoundedSeq({rec.raw : rec \in PostingRecords}, Len(call.data) + 1),
                       PO!ChainOf(other) = result.lastChain
                PROVE  other = RawsIn(call)
    BY DEF ChainBindsOrder, PO!ChainBindsOrder, PO!Raws, RawsIn
  <2>1. call \in PostingCalls /\ Len(call.data) \in Nat /\ Len(RawsIn(call)) = Len(call.data)
        /\ DOMAIN RawsIn(call) = 1..Len(call.data)
    BY UnitTypes DEF PostingInv
  <2>2. PO!ChainOf(other) = PO!ChainOf(RawsIn(call))
    BY <2>1, HashesChain DEF PostingInv
  <2>3. PICK m \in 0..(Len(call.data) + 1) : other \in [1..m -> {rec.raw : rec \in PostingRecords}]
    <3>. DEFINE Raw == {rec.raw : rec \in PostingRecords}
    <3>1. other \in UNION {[1..m -> Raw] : m \in 0..(Len(call.data) + 1)}
      BY Zenon DEF PO!BoundedSeq, PO!SeqOf
    <3>. HIDE DEF Raw
    <3>2. \E m \in 0..(Len(call.data) + 1) : other \in [1..m -> Raw]
      BY <3>1, Zenon
    <3>. QED BY <3>2 DEF Raw
  <2>4. Len(other) = m /\ m \in Nat /\ DOMAIN other = 1..m /\ other = [k \in 1..m |-> other[k]]
    BY <2>1, <2>3
  <2>5. m = Len(call.data) /\ \A k \in 1..m : other[k] = RawsIn(call)[k]
    BY <2>1, <2>2, <2>4, HashFixesUnit
  <2>6. RawsIn(call) = [k \in 1..m |-> RawsIn(call)[k]]
    BY <2>1, <2>5 DEF RawsIn
  <2>. QED BY <2>4, <2>5, <2>6
<1>2. Init => IInv
  <2>. SUFFICES ASSUME PO!Init PROVE PostingInv
    BY DEF Init
  <2>. QED BY UnitTypes, LinkOf DEF PO!Init, PostingInv
<1>3. IInv /\ [Next]_vars => IInv'
  <2>1. CASE UNCHANGED vars
    BY <2>1 DEF vars, postingVars, PostingInv
  <2>2. CASE court = "posting_manifest" /\ PO!Next /\ court' = court
    BY <2>2, PostingStep
  <2>. QED BY <2>1, <2>2 DEF Next
<1>. QED BY <1>1, <1>2, <1>3, PTL DEF Spec

-----------------------------------------------------------------------------
(* What posting_manifest collects from a list after its first k elements.  *)
Keeping(list, places, c, k) ==
  IF k = 0 THEN <<>>
  ELSE IF k \in places THEN PO!AppendNew(c[k - 1], list[k])
  ELSE c[k - 1]
Keeps(list, places, c, m) == c = [k \in 0..m |-> Keeping(list, places, c, k)]
Kept(list, places) == CHOOSE c : Keeps(list, places, c, Len(list))

LEMMA OneMoreKept ==
  ASSUME NEW list, NEW places, NEW c, NEW m \in Nat \ {0}, Keeps(list, places, c, m - 1)
  PROVE  \E d : Keeps(list, places, d, m)
<1>. DEFINE last == IF m \in places THEN PO!AppendNew(c[m - 1], list[m]) ELSE c[m - 1]
            more == [k \in 0..m |-> IF k = m THEN last ELSE c[k]]
<1>1. /\ \A k \in 0..m : more[k] = IF k = m THEN last ELSE c[k]
      /\ DOMAIN more = 0..m /\ more = [k \in 0..m |-> more[k]]
  OBVIOUS
<1>. HIDE DEF more
<1>2. more[m] = Keeping(list, places, more, m)
  BY <1>1 DEF Keeping
<1>3. ASSUME NEW k \in 0..(m - 1) PROVE more[k] = Keeping(list, places, more, k)
  <2>1. c[k] = Keeping(list, places, c, k)
    BY DEF Keeps
  <2>2. more[k] = c[k] /\ k \in 0..m
    BY <1>1
  <2>3. k # 0 => k - 1 \in 0..m /\ more[k - 1] = c[k - 1]
    BY <1>1
  <2>. QED BY <2>1, <2>2, <2>3 DEF Keeping
<1>4. \A k \in 0..m : more[k] = Keeping(list, places, more, k)
  BY <1>2, <1>3
<1>. QED BY <1>1, <1>4 DEF Keeps

LEMMA KeptIs ==
  ASSUME NEW list, NEW places, Len(list) \in Nat
  PROVE  /\ Keeps(list, places, Kept(list, places), Len(list))
         /\ PO!Collected(list, places) = Kept(list, places)[Len(list)]
<1>. DEFINE open == {m \in 0..Len(list) : ~\E c : Keeps(list, places, c, m)}
<1>1. open = {}
  <2>. SUFFICES ASSUME open # {} PROVE FALSE
    OBVIOUS
  <2>1. PICK m \in open : \A j \in open : m <= j
    <3>1. open \subseteq Nat
      OBVIOUS
    <3>. HIDE DEF open
    <3>. QED BY <3>1, LeastIn
  <2>2. m # 0
    <3>1. Keeps(list, places, [k \in 0..0 |-> <<>>], 0)
      BY DEF Keeps, Keeping
    <3>. QED BY <2>1, <3>1
  <2>3. m \in Nat \ {0} /\ m - 1 \in 0..Len(list)
    BY <2>1, <2>2
  <2>4. m - 1 \notin open
    <3>. HIDE DEF open
    <3>. QED BY <2>1, <2>3
  <2>. QED BY <2>1, <2>3, <2>4, OneMoreKept
<1>2. \E c : Keeps(list, places, c, Len(list))
  BY <1>1
<1>3. Keeps(list, places, Kept(list, places), Len(list))
  BY <1>2 DEF Kept
<1>4. PO!Collected(list, places) = Kept(list, places)[Len(list)]
  BY DEF PO!Collected, Kept, Keeps, Keeping
<1>. QED BY <1>3, <1>4

Ascending(list) ==
  /\ \A i \in 1..Len(list) : list[i] \in Int
  /\ \A i, j \in 1..Len(list) : i <= j => list[i] <= list[j]

(* The elements at some of the first k places of a list, each once and, of *)
(* a list in order, in order.                                              *)
OnceEach(list, places, k, out) ==
  /\ out \in Seq({list[j] : j \in 1..Len(list)})
  /\ \A x : (\E i \in 1..Len(out) : out[i] = x) <=> (\E j \in 1..k : j \in places /\ list[j] = x)
  /\ \A i, j \in 1..Len(out) : i < j => out[i] # out[j]
  /\ Ascending(list) => \A i, j \in 1..Len(out) : i < j => out[i] < out[j]

LEMMA OneKept ==
  ASSUME NEW S, NEW list \in Seq(S), NEW places, NEW k \in 1..Len(list), NEW out,
         OnceEach(list, places, k - 1, out)
  PROVE  OnceEach(list, places, k, IF k \in places THEN PO!AppendNew(out, list[k]) ELSE out)
<1>. DEFINE E == {list[j] : j \in 1..Len(list)}
<1>0. list[k] \in E /\ out \in Seq(E) /\ Len(out) \in Nat
  BY DEF OnceEach
<1>. HIDE DEF E
<1>1. CASE k \notin places
  <2>1. \A x : (\E j \in 1..k : j \in places /\ list[j] = x) <=>
               (\E j \in 1..(k - 1) : j \in places /\ list[j] = x)
    BY <1>1
  <2>. QED BY <1>1, <2>1 DEF OnceEach
<1>2. CASE k \in places /\ \E i \in 1..Len(out) : out[i] = list[k]
  <2>1. PO!AppendNew(out, list[k]) = out
    BY <1>2 DEF PO!AppendNew, PO!Contains
  <2>2. PICK j \in 1..(k - 1) : j \in places /\ list[j] = list[k]
    BY <1>2 DEF OnceEach
  <2>3. \A x : (\E i \in 1..k : i \in places /\ list[i] = x) <=>
               (\E i \in 1..(k - 1) : i \in places /\ list[i] = x)
    BY <2>2
  <2>4. OnceEach(list, places, k, out)
    BY <2>3 DEF OnceEach
  <2>. QED BY <1>2, <2>1, <2>4
<1>3. CASE k \in places /\ \A i \in 1..Len(out) : out[i] # list[k]
  <2>. DEFINE more == Append(out, list[k])
  <2>1. PO!AppendNew(out, list[k]) = more
    BY <1>3 DEF PO!AppendNew, PO!Contains
  <2>2. /\ more \in Seq(E) /\ Len(more) = Len(out) + 1 /\ more[Len(out) + 1] = list[k]
        /\ \A i \in 1..Len(out) : more[i] = out[i]
    BY <1>0
  <2>. HIDE DEF more
  <2>3. ASSUME NEW x
        PROVE  (\E i \in 1..Len(more) : more[i] = x) <=> (\E j \in 1..k : j \in places /\ list[j] = x)
    <3>1. (\E i \in 1..Len(more) : more[i] = x) <=> (x = list[k] \/ \E i \in 1..Len(out) : out[i] = x)
      <4>1. \A i \in 1..Len(more) : i \in 1..Len(out) \/ i = Len(out) + 1
        BY <1>0, <2>2
      <4>2. Len(out) + 1 \in 1..Len(more) /\ \A i \in 1..Len(out) : i \in 1..Len(more)
        BY <1>0, <2>2
      <4>. QED BY <2>2, <4>1, <4>2
    <3>2. (\E j \in 1..k : j \in places /\ list[j] = x) <=>
          (x = list[k] \/ \E j \in 1..(k - 1) : j \in places /\ list[j] = x)
      BY <1>3
    <3>. QED BY <3>1, <3>2 DEF OnceEach
  <2>4. ASSUME NEW i \in 1..Len(more), NEW j \in 1..Len(more), i < j PROVE more[i] # more[j]
    <3>1. i \in 1..Len(out) /\ more[i] = out[i]
      BY <1>0, <2>2, <2>4
    <3>2. CASE j \in 1..Len(out)
      BY <2>2, <2>4, <3>1, <3>2 DEF OnceEach
    <3>3. CASE j = Len(out) + 1
      BY <1>3, <2>2, <3>1, <3>3
    <3>. QED BY <1>0, <2>2, <3>2, <3>3
  <2>5. ASSUME Ascending(list), NEW i \in 1..Len(more), NEW j \in 1..Len(more), i < j
        PROVE  more[i] < more[j]
    <3>1. i \in 1..Len(out) /\ more[i] = out[i]
      BY <1>0, <2>2, <2>5
    <3>2. CASE j \in 1..Len(out)
      BY <2>2, <2>5, <3>1, <3>2 DEF OnceEach
    <3>3. CASE j = Len(out) + 1
      <4>1. PICK l \in 1..(k - 1) : list[l] = out[i]
        BY <3>1 DEF OnceEach
      <4>2. l \in 1..Len(list) /\ l <= k /\ k \in 1..Len(list)
        OBVIOUS
      <4>3. out[i] <= list[k]
        BY <2>5, <4>1, <4>2 DEF Ascending
      <4>4. out[i] # list[k] /\ list[l] \in Int /\ list[k] \in Int
        BY <1>3, <2>5, <3>1, <4>2 DEF Ascending
      <4>. QED BY <2>2, <3>1, <3>3, <4>1, <4>3, <4>4
    <3>. QED BY <1>0, <2>2, <3>2, <3>3
  <2>6. more \in Seq({list[j] : j \in 1..Len(list)})
    BY <2>2 DEF E
  <2>. QED BY <1>3, <2>1, <2>3, <2>4, <2>5, <2>6 DEF OnceEach
<1>. QED BY <1>1, <1>2, <1>3

LEMMA CollectedOnce ==
  ASSUME NEW S, NEW list \in Seq(S), NEW places
  PROVE  OnceEach(list, places, Len(list), PO!Collected(list, places))
<1>. DEFINE kept == Kept(list, places)
            open == {k \in 0..Len(list) : ~OnceEach(list, places, k, kept[k])}
<1>1. Len(list) \in Nat /\ PO!Collected(list, places) = kept[Len(list)]
  BY KeptIs
<1>2. \A k \in 0..Len(list) : kept[k] = Keeping(list, places, kept, k)
  BY <1>1, KeptIs DEF Keeps
<1>. HIDE DEF kept
<1>3. open = {}
  <2>. SUFFICES ASSUME open # {} PROVE FALSE
    OBVIOUS
  <2>1. PICK k \in open : \A j \in open : k <= j
    <3>1. open \subseteq Nat
      OBVIOUS
    <3>. HIDE DEF open
    <3>. QED BY <3>1, LeastIn
  <2>2. k # 0
    <3>1. kept[0] = <<>>
      BY <1>1, <1>2 DEF Keeping
    <3>2. OnceEach(list, places, 0, <<>>)
      BY DEF OnceEach
    <3>. QED BY <2>1, <3>1, <3>2
  <2>3. k \in 1..Len(list) /\ k - 1 \in 0..Len(list) /\ ~(k <= k - 1)
    BY <1>1, <2>1, <2>2
  <2>4. k - 1 \notin open
    <3>. HIDE DEF open
    <3>. QED BY <2>1, <2>3
  <2>5. OnceEach(list, places, k - 1, kept[k - 1])
    BY <2>3, <2>4
  <2>6. kept[k] = IF k \in places THEN PO!AppendNew(kept[k - 1], list[k]) ELSE kept[k - 1]
    BY <1>2, <2>2, <2>3 DEF Keeping
  <2>. QED BY <2>1, <2>3, <2>5, <2>6, OneKept
<1>. QED BY <1>1, <1>3
-----------------------------------------------------------------------------
(* The places of a list at which x stands, what is less, and not greater.  *)
Places(list, x) == {k \in DOMAIN list : list[k] = x}
Below(list, n) == {k \in DOMAIN list : list[k] < n}
AtMost(list, n) == {k \in DOMAIN list : list[k] <= n}

LEMMA Interval == \A n \in Nat : IsFiniteSet(1..n) /\ Cardinality(1..n) = n
  BY FS_Interval

LEMMA Disjoint ==
  ASSUME NEW S, NEW T, IsFiniteSet(S), IsFiniteSet(T), S \cap T = {}
  PROVE  Cardinality(S \cup T) = Cardinality(S) + Cardinality(T)
<1>1. Cardinality(S \cup T) = Cardinality(S) + Cardinality(T) - Cardinality(S \cap T)
  BY FS_Union
<1>2. Cardinality(S \cap T) = 0 /\ Cardinality(S) \in Nat /\ Cardinality(T) \in Nat
  BY FS_EmptySet, FS_CardinalityType
<1>. QED BY <1>1, <1>2

LEMMA PlacesFinite ==
  ASSUME NEW S, NEW list \in Seq(S), NEW T, T \subseteq DOMAIN list
  PROVE  IsFiniteSet(T) /\ Cardinality(T) \in 0..Len(list) /\ (T = {} <=> Cardinality(T) = 0)
<1>1. DOMAIN list = 1..Len(list) /\ Len(list) \in Nat
  OBVIOUS
<1>2. IsFiniteSet(DOMAIN list) /\ Cardinality(DOMAIN list) = Len(list)
  BY <1>1, Interval
<1>3. IsFiniteSet(T) /\ Cardinality(T) <= Cardinality(DOMAIN list)
  BY <1>2, FS_Subset, Zenon
<1>. QED BY <1>1, <1>2, <1>3, FS_CardinalityType, FS_EmptySet

LEMMA Smaller ==
  ASSUME NEW S, NEW list \in Seq(S), NEW T, NEW U, T \subseteq U, U \subseteq DOMAIN list
  PROVE  /\ Cardinality(T) <= Cardinality(U)
         /\ Cardinality(T) = Cardinality(U) => T = U
<1>1. IsFiniteSet(U)
  BY PlacesFinite
<1>. QED BY <1>1, FS_Subset

LEMMA Ranks ==
  ASSUME NEW list \in Seq(Nat), NEW n \in Int, NEW m \in Int
  PROVE  /\ Cardinality(AtMost(list, n)) = Cardinality(Below(list, n)) + Cardinality(Places(list, n))
         /\ n < m => Cardinality(AtMost(list, n)) <= Cardinality(Below(list, m))
         /\ Cardinality(AtMost(list, n)) \in 0..Len(list) /\ Cardinality(AtMost(list, n)) \in Int
         /\ Cardinality(Below(list, n)) \in 0..Len(list) /\ Cardinality(Below(list, n)) \in Int
         /\ Cardinality(Places(list, n)) \in 0..Len(list) /\ Cardinality(Places(list, n)) \in Int
<1>0. /\ AtMost(list, n) \subseteq DOMAIN list /\ Below(list, n) \subseteq DOMAIN list
      /\ Below(list, m) \subseteq DOMAIN list /\ Places(list, n) \subseteq DOMAIN list
      /\ \A k \in DOMAIN list : list[k] \in Nat
  BY DEF AtMost, Below, Places
<1>1. AtMost(list, n) = Below(list, n) \cup Places(list, n)
  BY <1>0 DEF AtMost, Below, Places
<1>2. Below(list, n) \cap Places(list, n) = {}
  BY <1>0 DEF Below, Places
<1>3. IsFiniteSet(Below(list, n)) /\ IsFiniteSet(Places(list, n))
  BY <1>0, PlacesFinite
<1>4. /\ Cardinality(Below(list, n)) \in 0..Len(list) /\ Cardinality(Places(list, n)) \in 0..Len(list)
      /\ Cardinality(AtMost(list, n)) \in 0..Len(list)
  BY <1>0, PlacesFinite
<1>5. Cardinality(AtMost(list, n)) = Cardinality(Below(list, n)) + Cardinality(Places(list, n))
  BY <1>1, <1>2, <1>3, Disjoint
<1>6. ASSUME n < m PROVE Cardinality(AtMost(list, n)) <= Cardinality(Below(list, m))
  <2>1. AtMost(list, n) \subseteq Below(list, m)
    BY <1>0, <1>6 DEF AtMost, Below
  <2>. QED BY <1>0, <2>1, Smaller
<1>. QED BY <1>4, <1>5, <1>6

(* Among any places of a list of numbers, one has the greatest.            *)
LEMMA GreatestIn ==
  ASSUME NEW list \in Seq(Nat), NEW J, J \subseteq DOMAIN list, J # {}
  PROVE  \E j \in J : \A i \in J : list[i] <= list[j]
<1>. DEFINE under(j) == {i \in J : list[i] <= list[j]}
            left == {Len(list) - Cardinality(under(j)) : j \in J}
<1>1. /\ \A j \in J : under(j) \subseteq DOMAIN list /\ list[j] \in Nat
      /\ DOMAIN list = 1..Len(list) /\ Len(list) \in Nat
  OBVIOUS
<1>2. \A j \in J : Cardinality(under(j)) \in 0..Len(list)
  <2>. HIDE DEF under
  <2>. QED BY <1>1, PlacesFinite
<1>3. PICK j \in J : \A i \in J : Cardinality(under(i)) <= Cardinality(under(j))
  <2>1. left \subseteq Nat /\ left # {}
    <3>. HIDE DEF under
    <3>. QED BY <1>1, <1>2
  <2>2. PICK l \in left : \A x \in left : l <= x
    <3>. HIDE DEF left
    <3>. QED BY <2>1, LeastIn
  <2>3. PICK j \in J : l = Len(list) - Cardinality(under(j))
    OBVIOUS
  <2>4. \A i \in J : Len(list) - Cardinality(under(j)) <= Len(list) - Cardinality(under(i))
    BY <2>2, <2>3
  <2>5. \A i \in J : Cardinality(under(i)) <= Cardinality(under(j))
    <3>. HIDE DEF under
    <3>. QED BY <1>1, <1>2, <2>4
  <2>. QED BY <2>5
<1>4. SUFFICES ASSUME NEW i \in J, ~(list[i] <= list[j]) PROVE FALSE
  OBVIOUS
<1>5. under(j) \subseteq under(i) /\ i \in under(i) /\ i \notin under(j)
  BY <1>1, <1>4
<1>6. Cardinality(under(j)) <= Cardinality(under(i)) /\ Cardinality(under(j)) # Cardinality(under(i))
  <2>1. under(i) \subseteq DOMAIN list
    BY <1>1
  <2>. HIDE DEF under
  <2>. QED BY <1>5, <2>1, Smaller
<1>7. Cardinality(under(i)) <= Cardinality(under(j))
  BY <1>3
<1>. QED
  <2>1. Cardinality(under(i)) \in Int /\ Cardinality(under(j)) \in Int
    BY <1>2
  <2>. HIDE DEF under
  <2>. QED BY <1>6, <1>7, <2>1

Elements(list) == {list[k] : k \in DOMAIN list}
Ranked(list, k, n) == Cardinality(Below(list, n)) < k /\ k <= Cardinality(AtMost(list, n))

LEMMA SomeRank ==
  ASSUME NEW list \in Seq(Nat), NEW k \in 1..Len(list)
  PROVE  \E n \in Elements(list) : Ranked(list, k, n)
<1>. DEFINE high == {n \in Elements(list) : k <= Cardinality(AtMost(list, n))}
<1>1. DOMAIN list = 1..Len(list) /\ Len(list) \in Nat /\ Elements(list) \subseteq Nat
      /\ \A j \in DOMAIN list : list[j] \in Nat
  BY DEF Elements
<1>2. high # {}
  <2>1. PICK j \in DOMAIN list : \A i \in DOMAIN list : list[i] <= list[j]
    BY <1>1, GreatestIn
  <2>2. AtMost(list, list[j]) = DOMAIN list
    BY <2>1 DEF AtMost
  <2>3. Cardinality(AtMost(list, list[j])) = Len(list)
    BY <1>1, <2>2, Interval
  <2>. QED BY <2>3 DEF Elements
<1>3. PICK n \in high : \A m \in high : n <= m
  <2>1. high \subseteq Nat
    BY <1>1
  <2>. HIDE DEF high
  <2>. QED BY <1>2, <2>1, LeastIn
<1>4. ASSUME ~(Cardinality(Below(list, n)) < k) PROVE FALSE
  <2>0. n \in Nat /\ Cardinality(Below(list, n)) \in 0..Len(list)
    BY <1>1, Ranks
  <2>1. Below(list, n) \subseteq DOMAIN list /\ Below(list, n) # {}
    <3>1. Cardinality(Below(list, n)) # 0
      BY <1>4, <2>0
    <3>2. Below(list, n) \subseteq DOMAIN list
      BY DEF Below
    <3>. QED BY <3>1, <3>2, FS_EmptySet
  <2>2. PICK j \in Below(list, n) : \A i \in Below(list, n) : list[i] <= list[j]
    BY <2>1, GreatestIn
  <2>3. list[j] \in Nat /\ list[j] < n /\ list[j] \in Elements(list)
    BY <1>1, <2>1 DEF Below, Elements
  <2>4. Below(list, n) \subseteq AtMost(list, list[j]) /\ AtMost(list, list[j]) \subseteq DOMAIN list
    BY <2>1, <2>2 DEF AtMost
  <2>5. Cardinality(Below(list, n)) <= Cardinality(AtMost(list, list[j]))
    BY <2>4, Smaller
  <2>6. Cardinality(AtMost(list, list[j])) \in 0..Len(list)
    BY <2>3, Ranks
  <2>7. k <= Cardinality(AtMost(list, list[j]))
    BY <1>1, <1>4, <2>0, <2>5, <2>6
  <2>8. n <= list[j]
    BY <1>3, <2>3, <2>7
  <2>. QED BY <2>0, <2>3, <2>8
<1>. QED BY <1>3, <1>4 DEF Ranked

LEMMA SortedIs ==
  ASSUME NEW list \in Seq(Nat)
  PROVE  /\ PO!Sorted(list) \in Seq(Nat)
         /\ Len(PO!Sorted(list)) = Len(list)
         /\ \A k \in 1..Len(list) :
              PO!Sorted(list)[k] \in Elements(list) /\ Ranked(list, k, PO!Sorted(list)[k])
<1>0. /\ PO!ToSet(list) = Elements(list)
      /\ DOMAIN list = 1..Len(list) /\ Len(list) \in Nat /\ Elements(list) \subseteq Nat
  BY DEF PO!ToSet, Elements
<1>1. \A T : PO!Cardinality(T) = Cardinality(T)
  BY DEF PO!Cardinality, Cardinality
<1>2. PO!Sorted(list) = [k \in DOMAIN list |-> CHOOSE n \in Elements(list) : Ranked(list, k, n)]
  <2>1. PO!Sorted(list) =
          [k \in DOMAIN list |->
             CHOOSE n \in PO!ToSet(list) : /\ PO!Cardinality(Below(list, n)) < k
                                           /\ k <= PO!Cardinality(AtMost(list, n))]
    BY DEF PO!Sorted, Below, AtMost
  <2>. QED BY <1>0, <1>1, <2>1, Zenon DEF Ranked
<1>3. ASSUME NEW k \in 1..Len(list)
      PROVE  PO!Sorted(list)[k] \in Elements(list) /\ Ranked(list, k, PO!Sorted(list)[k])
  <2>1. PO!Sorted(list)[k] = CHOOSE n \in Elements(list) : Ranked(list, k, n)
    BY <1>0, <1>2
  <2>2. \E n \in Elements(list) : Ranked(list, k, n)
    BY SomeRank
  <2>. QED BY <2>1, <2>2, Zenon
<1>. DEFINE s == PO!Sorted(list)
<1>4. s = [k \in 1..Len(list) |-> s[k]]
  BY <1>0, <1>2
<1>5. \A k \in 1..Len(list) : s[k] \in Nat
  BY <1>0, <1>3
<1>. HIDE DEF s
<1>6. s \in [1..Len(list) -> Nat]
  BY <1>4, <1>5
<1>7. s \in Seq(Nat) /\ Len(s) = Len(list)
  BY <1>0, <1>6
<1>. QED BY <1>3, <1>7 DEF s

LEMMA SortedAscends ==
  ASSUME NEW list \in Seq(Nat)
  PROVE  /\ Ascending(PO!Sorted(list))
         /\ \A x : (\E k \in 1..Len(list) : k \in PO!Doubled(PO!Sorted(list)) /\ PO!Sorted(list)[k] = x)
                     <=> x \in Elements(list) /\ Cardinality(Places(list, x)) > 1
<1>. DEFINE s == PO!Sorted(list)
<1>0. s \in Seq(Nat) /\ Len(s) = Len(list) /\ Len(list) \in Nat /\ DOMAIN s = 1..Len(list)
  BY SortedIs
<1>1. \A k \in 1..Len(list) : s[k] \in Elements(list) /\ s[k] \in Nat /\ Ranked(list, k, s[k])
  BY <1>0, SortedIs
<1>2. PO!Doubled(s) = {k \in DOMAIN s : k + 1 \in DOMAIN s /\ s[k] = s[k + 1]}
  BY DEF PO!Doubled
<1>. HIDE DEF s
<1>3. ASSUME NEW i \in 1..Len(list), NEW j \in 1..Len(list), i <= j PROVE s[i] <= s[j]
  <2>. SUFFICES ASSUME s[j] < s[i] PROVE FALSE
    BY <1>1
  <2>0. s[i] \in Int /\ s[j] \in Int
    BY <1>1
  <2>1. Cardinality(AtMost(list, s[j])) <= Cardinality(Below(list, s[i]))
    BY <2>0, Ranks
  <2>2. Cardinality(AtMost(list, s[j])) \in Int /\ Cardinality(Below(list, s[i])) \in Int
    BY <2>0, Ranks
  <2>3. Cardinality(Below(list, s[i])) < i /\ j <= Cardinality(AtMost(list, s[j]))
    BY <1>1 DEF Ranked
  <2>. QED BY <1>3, <2>1, <2>2, <2>3
<1>4. ASSUME NEW k \in 1..Len(list), k \in PO!Doubled(s)
      PROVE  s[k] \in Elements(list) /\ Cardinality(Places(list, s[k])) > 1
  <2>1. k + 1 \in 1..Len(list) /\ s[k] = s[k + 1]
    BY <1>0, <1>2, <1>4
  <2>2. Cardinality(Below(list, s[k])) < k /\ k + 1 <= Cardinality(AtMost(list, s[k]))
    BY <1>1, <2>1 DEF Ranked
  <2>3. /\ Cardinality(AtMost(list, s[k])) = Cardinality(Below(list, s[k])) + Cardinality(Places(list, s[k]))
        /\ Cardinality(Below(list, s[k])) \in Int /\ Cardinality(Places(list, s[k])) \in Int
    <3>1. s[k] \in Int
      BY <1>1
    <3>. QED BY <3>1, Ranks
  <2>. QED BY <1>1, <2>2, <2>3
<1>5. ASSUME NEW x \in Elements(list), Cardinality(Places(list, x)) > 1
      PROVE  \E k \in 1..Len(list) : k \in PO!Doubled(s) /\ s[k] = x
  <2>. DEFINE k == Cardinality(Below(list, x)) + 1
  <2>1. x \in Nat
    BY DEF Elements
  <2>2. /\ Cardinality(AtMost(list, x)) = Cardinality(Below(list, x)) + Cardinality(Places(list, x))
        /\ Cardinality(AtMost(list, x)) \in 0..Len(list)
        /\ Cardinality(Below(list, x)) \in 0..Len(list) /\ Cardinality(Places(list, x)) \in 0..Len(list)
    BY <2>1, Ranks
  <2>3. k \in 1..Len(list) /\ k + 1 \in 1..Len(list)
        /\ \A l \in {k, k + 1} : Cardinality(Below(list, x)) < l /\ l <= Cardinality(AtMost(list, x))
    BY <1>0, <1>5, <2>2
  <2>. HIDE DEF k
  <2>4. ASSUME NEW l \in {k, k + 1} PROVE s[l] = x
    <3>0. l \in 1..Len(list)
      BY <2>3
    <3>1. /\ s[l] \in Nat
          /\ Cardinality(Below(list, s[l])) < l /\ l <= Cardinality(AtMost(list, s[l]))
      BY <1>1, <3>0 DEF Ranked
    <3>2. /\ Cardinality(Below(list, s[l])) \in Int /\ Cardinality(AtMost(list, s[l])) \in Int
          /\ s[l] < x => Cardinality(AtMost(list, s[l])) <= Cardinality(Below(list, x))
      BY <2>1, <3>1, Ranks
    <3>3. x < s[l] => Cardinality(AtMost(list, x)) <= Cardinality(Below(list, s[l]))
      BY <2>1, <3>1, Ranks
    <3>4. Cardinality(Below(list, x)) < l /\ l <= Cardinality(AtMost(list, x))
      BY <2>3
    <3>. QED BY <2>1, <2>2, <3>0, <3>1, <3>2, <3>3, <3>4
  <2>5. k \in PO!Doubled(s) /\ s[k] = x
    BY <1>0, <1>2, <2>3, <2>4
  <2>. QED BY <2>3, <2>5
<1>6. Ascending(s)
  BY <1>0, <1>1, <1>3 DEF Ascending
<1>7. \A x : (\E k \in 1..Len(list) : k \in PO!Doubled(s) /\ s[k] = x)
               <=> x \in Elements(list) /\ Cardinality(Places(list, x)) > 1
  BY <1>4, <1>5
<1>. QED BY <1>6, <1>7 DEF s
LEMMA MoreThanOne ==
  ASSUME NEW T, IsFiniteSet(T)
  PROVE  Cardinality(T) > 1 <=> \E x, y \in T : x # y
<1>1. ASSUME NEW x \in T, NEW y \in T, x # y PROVE Cardinality(T) > 1
  <2>1. {x} \cup {y} \in SUBSET T /\ {x} \cap {y} = {}
    BY <1>1
  <2>2. Cardinality({x} \cup {y}) = 2
    <3>1. /\ IsFiniteSet({x}) /\ Cardinality({x}) = 1
          /\ IsFiniteSet({y}) /\ Cardinality({y}) = 1
      BY FS_Singleton
    <3>2. Cardinality({x} \cup {y}) = Cardinality({x}) + Cardinality({y})
      BY <2>1, <3>1, Disjoint
    <3>. QED BY <3>1, <3>2
  <2>3. Cardinality({x} \cup {y}) <= Cardinality(T)
    <3>1. \A U \in SUBSET T : Cardinality(U) <= Cardinality(T)
      BY FS_Subset
    <3>. QED BY <2>1, <3>1, Zenon
  <2>4. Cardinality(T) \in Nat
    BY FS_CardinalityType
  <2>. QED BY <2>2, <2>3, <2>4
<1>2. ASSUME \A x, y \in T : x = y PROVE ~(Cardinality(T) > 1)
  <2>1. CASE T = {}
    BY <2>1, FS_EmptySet
  <2>2. CASE T # {}
    <3>1. PICK x \in T : T = {x}
      BY <1>2, <2>2
    <3>2. Cardinality({x}) = 1
      BY FS_Singleton
    <3>. QED BY <3>1, <3>2
  <2>. QED BY <2>1, <2>2
<1>. QED BY <1>1, <1>2

LEMMA AppendPlaces ==
  ASSUME NEW S, NEW list \in Seq(S), NEW e \in S, NEW x
  PROVE  Cardinality(Places(Append(list, e), x)) =
           Cardinality(Places(list, x)) + (IF e = x THEN 1 ELSE 0)
<1>. DEFINE more == Append(list, e)
<1>1. /\ DOMAIN list = 1..Len(list) /\ Len(list) \in Nat
      /\ DOMAIN more = 1..(Len(list) + 1) /\ more[Len(list) + 1] = e
      /\ \A k \in 1..Len(list) : more[k] = list[k]
  OBVIOUS
<1>. HIDE DEF more
<1>2. Places(more, x) = IF e = x THEN Places(list, x) \cup {Len(list) + 1} ELSE Places(list, x)
  BY <1>1 DEF Places
<1>3. Places(list, x) \subseteq DOMAIN list /\ Len(list) + 1 \notin Places(list, x)
  BY <1>1 DEF Places
<1>4. IsFiniteSet(Places(list, x)) /\ Cardinality(Places(list, x)) \in 0..Len(list)
  BY <1>3, PlacesFinite
<1>5. Cardinality(Places(list, x) \cup {Len(list) + 1}) = Cardinality(Places(list, x)) + 1
  BY <1>3, <1>4, Counts
<1>. QED BY <1>1, <1>2, <1>4, <1>5 DEF more

LEMMA OneMore ==
  ASSUME NEW T, NEW m \in Nat
  PROVE  Cardinality(T \cap (1..(m + 1))) =
           Cardinality(T \cap (1..m)) + (IF m + 1 \in T THEN 1 ELSE 0)
<1>. DEFINE U == T \cap (1..m)
<1>1. IsFiniteSet(U) /\ m + 1 \notin U
  <2>1. IsFiniteSet(1..m) /\ U \in SUBSET (1..m) /\ m + 1 \notin 1..m
    BY Interval
  <2>. QED BY <2>1, FS_Subset, Zenon
<1>2. T \cap (1..(m + 1)) = IF m + 1 \in T THEN U \cup {m + 1} ELSE U
  OBVIOUS
<1>. HIDE DEF U
<1>3. Cardinality(U) \in Nat /\ Cardinality(U \cup {m + 1}) = Cardinality(U) + 1
  BY <1>1, Counts, FS_CardinalityType
<1>. QED BY <1>2, <1>3 DEF U

(* The records of a unit that are numbered x, and that carry the id x.     *)
NumberedAs(c, x) ==
  {i \in DOMAIN c.data : c.hasSeq /\ c.data[i].seq \notin {NoField, Dirty} /\ c.data[i].seq = x}
Carrying(c, x) ==
  {i \in DOMAIN c.data : c.hasTxn /\ c.data[i].txn # NoField /\ c.data[i].txn = x}

Ids == {rec.txn : rec \in PostingRecords} \ {NoField}
PostingFindings == [rule : PO!Rules, record : Nat]

(* What was collected is what the records read so far hold; a unit whose   *)
(* records are to be numbered and that has no finding had a number in each. *)
UnitRead ==
  /\ call \in PostingCalls
  /\ idx \in 0..Len(call.data)
  /\ seqValues \in Seq(Nat)
  /\ txnValues \in Seq(Ids)
  /\ findings \in Seq(PostingFindings)
  /\ \A x : Cardinality(Places(seqValues, x)) = Cardinality(NumberedAs(call, x) \cap (1..idx))
  /\ \A x : Cardinality(Places(txnValues, x)) = Cardinality(Carrying(call, x) \cap (1..idx))
  /\ call.hasSeq /\ findings = <<>> => Len(seqValues) = idx

(* What the manifest says is of all the records.                           *)
Manifest ==
  pc = "done" =>
    /\ idx = Len(call.data)
    /\ result = [count |-> idx, min |-> PO!SeqMin, max |-> PO!SeqMax,
                 duplicates |-> PO!SeqDuplicates, gaps |-> PO!SeqGaps,
                 txnDuplicates |-> PO!TxnDuplicates, lastChain |-> chain]
    /\ findings = <<>> => PO!SeqDuplicates = <<>> /\ PO!SeqGaps = <<>>

LEMMA RecordTypes ==
  ASSUME NEW c \in PostingCalls, NEW i \in 1..Len(c.data)
  PROVE  /\ c.data[i] \in PostingRecords
         /\ c.data[i].seq \in Nat \cup {NoField, Dirty}
         /\ c.data[i].txn # NoField => c.data[i].txn \in Ids
<1>1. c.data[i] \in PostingRecords
  <2>1. c.data \in Seq(PostingRecords)
    BY PostingCallsTyped DEF PO!CallsTyped
  <2>. QED BY <2>1
<1>2. c.data[i].seq \in Nat \cup {NoField, Dirty}
  BY <1>1, PostingCallsTyped DEF PO!CallsTyped
<1>. QED BY <1>1, <1>2 DEF Ids

LEMMA NumbersRead ==
  ASSUME UnitRead, PO!ReadRecord
  PROVE  /\ call' = call /\ idx' = idx + 1 /\ idx' \in 1..Len(call.data)
         /\ seqValues' \in Seq(Nat)
         /\ \A x : Cardinality(Places(seqValues', x)) =
                     Cardinality(NumberedAs(call, x) \cap (1..idx'))
<1>. DEFINE rec == call.data[idx + 1]
            new == call.hasSeq /\ rec.seq \notin {NoField, Dirty}
<1>1. /\ call' = call /\ idx' = idx + 1 /\ idx \in Nat /\ idx + 1 \in 1..Len(call.data)
      /\ call \in PostingCalls /\ Len(call.data) \in Nat /\ DOMAIN call.data = 1..Len(call.data)
  <2>1. call \in PostingCalls /\ idx \in 0..Len(call.data)
    BY DEF UnitRead
  <2>2. call.data \in Seq(PostingRecords)
    BY <2>1, PostingCallsTyped DEF PO!CallsTyped
  <2>. QED BY <2>1, <2>2 DEF PO!ReadRecord
<1>2. seqValues' = IF new THEN Append(seqValues, rec.seq) ELSE seqValues
  BY DEF PO!ReadRecord, PO!HasNumber, PO!Rec
<1>3. rec.seq \in Nat \cup {NoField, Dirty}
  BY <1>1, RecordTypes
<1>4. seqValues \in Seq(Nat)
  BY DEF UnitRead
<1>5. ASSUME NEW x
      PROVE  Cardinality(Places(seqValues', x)) = Cardinality(NumberedAs(call, x) \cap (1..(idx + 1)))
  <2>1. Cardinality(Places(seqValues, x)) = Cardinality(NumberedAs(call, x) \cap (1..idx))
    BY DEF UnitRead
  <2>2. idx + 1 \in NumberedAs(call, x) <=> new /\ rec.seq = x
    BY <1>1 DEF NumberedAs
  <2>3. Cardinality(NumberedAs(call, x) \cap (1..(idx + 1))) =
          Cardinality(NumberedAs(call, x) \cap (1..idx)) + (IF new /\ rec.seq = x THEN 1 ELSE 0)
    BY <1>1, <2>2, OneMore
  <2>4. Places(seqValues, x) \subseteq DOMAIN seqValues
    BY DEF Places
  <2>5. Cardinality(Places(seqValues, x)) \in Int
    BY <1>4, <2>4, PlacesFinite
  <2>. HIDE DEF rec
  <2>6. CASE new
    <3>1. rec.seq \in Nat
      BY <1>3, <2>6
    <3>2. Cardinality(Places(Append(seqValues, rec.seq), x)) =
            Cardinality(Places(seqValues, x)) + (IF rec.seq = x THEN 1 ELSE 0)
      BY <1>4, <3>1, AppendPlaces
    <3>. QED BY <1>2, <2>1, <2>3, <2>6, <3>2
  <2>7. CASE ~new
    BY <1>2, <2>1, <2>3, <2>5, <2>7
  <2>. QED BY <2>6, <2>7
<1>6. seqValues' \in Seq(Nat)
  <2>. HIDE DEF rec
  <2>. QED BY <1>2, <1>3, <1>4
<1>. QED BY <1>1, <1>5, <1>6

LEMMA IdsRead ==
  ASSUME UnitRead, PO!ReadRecord
  PROVE  /\ txnValues' \in Seq(Ids)
         /\ \A x : Cardinality(Places(txnValues', x)) =
                     Cardinality(Carrying(call, x) \cap (1..idx'))
<1>. DEFINE rec == call.data[idx + 1]
            new == call.hasTxn /\ rec.txn # NoField
<1>1. /\ call' = call /\ idx' = idx + 1 /\ idx \in Nat /\ idx + 1 \in 1..Len(call.data)
      /\ call \in PostingCalls /\ Len(call.data) \in Nat /\ DOMAIN call.data = 1..Len(call.data)
  <2>1. call \in PostingCalls /\ idx \in 0..Len(call.data)
    BY DEF UnitRead
  <2>2. call.data \in Seq(PostingRecords)
    BY <2>1, PostingCallsTyped DEF PO!CallsTyped
  <2>. QED BY <2>1, <2>2 DEF PO!ReadRecord
<1>2. txnValues' = IF new THEN Append(txnValues, rec.txn) ELSE txnValues
  BY DEF PO!ReadRecord, PO!Rec
<1>3. rec.txn # NoField => rec.txn \in Ids
  BY <1>1, RecordTypes
<1>4. txnValues \in Seq(Ids)
  BY DEF UnitRead
<1>5. ASSUME NEW x
      PROVE  Cardinality(Places(txnValues', x)) = Cardinality(Carrying(call, x) \cap (1..(idx + 1)))
  <2>1. Cardinality(Places(txnValues, x)) = Cardinality(Carrying(call, x) \cap (1..idx))
    BY DEF UnitRead
  <2>2. idx + 1 \in Carrying(call, x) <=> new /\ rec.txn = x
    BY <1>1 DEF Carrying
  <2>3. Cardinality(Carrying(call, x) \cap (1..(idx + 1))) =
          Cardinality(Carrying(call, x) \cap (1..idx)) + (IF new /\ rec.txn = x THEN 1 ELSE 0)
    BY <1>1, <2>2, OneMore
  <2>4. Places(txnValues, x) \subseteq DOMAIN txnValues
    BY DEF Places
  <2>5. Cardinality(Places(txnValues, x)) \in Int
    BY <1>4, <2>4, PlacesFinite
  <2>. HIDE DEF rec
  <2>6. CASE new
    <3>1. rec.txn \in Ids
      BY <1>3, <2>6
    <3>2. Cardinality(Places(Append(txnValues, rec.txn), x)) =
            Cardinality(Places(txnValues, x)) + (IF rec.txn = x THEN 1 ELSE 0)
      BY <1>4, <3>1, AppendPlaces
    <3>. QED BY <1>2, <2>1, <2>3, <2>6, <3>2
  <2>7. CASE ~new
    BY <1>2, <2>1, <2>3, <2>5, <2>7
  <2>. QED BY <2>6, <2>7
<1>6. txnValues' \in Seq(Ids)
  <2>. HIDE DEF rec
  <2>. QED BY <1>2, <1>3, <1>4
<1>. QED BY <1>1, <1>5, <1>6
LEMMA NothingAdded ==
  ASSUME NEW a \in Seq(PostingFindings), NEW b \in Seq(PostingFindings)
  PROVE  a \o b \in Seq(PostingFindings) /\ (a \o b = <<>> <=> a = <<>> /\ b = <<>>)
  BY ConcatProperties, ConcatEqualIffEmpty

LEMMA FindingTypes ==
  /\ <<>> \in Seq(PostingFindings)
  /\ \A list, rule : rule \in PO!Rules => PO!ReportIfAny(list, rule) \in Seq(PostingFindings)
                     /\ (PO!ReportIfAny(list, rule) = <<>> <=> list = <<>>)
  /\ \A rec, i : i \in Nat => PO!SequenceFinding(rec, i) \in Seq(PostingFindings)
                     /\ (call.hasSeq /\ PO!SequenceFinding(rec, i) = <<>> => rec.seq \notin {NoField, Dirty})
<1>1. \A f \in PostingFindings : <<f>> \in Seq(PostingFindings) /\ <<f>> # <<>>
  OBVIOUS
<1>2. \A rule, i : rule \in PO!Rules /\ i \in Nat => PO!Finding(rule, i) \in PostingFindings
  BY DEF PO!Finding, PostingFindings
<1>3. /\ "NO-SEQUENCE" \in PO!Rules /\ "DIRTY-SEQUENCE" \in PO!Rules
  BY DEF PO!Rules
<1>4. <<>> \in Seq(PostingFindings)
  OBVIOUS
<1>5. ASSUME NEW list, NEW rule, rule \in PO!Rules
      PROVE  PO!ReportIfAny(list, rule) \in Seq(PostingFindings)
             /\ (PO!ReportIfAny(list, rule) = <<>> <=> list = <<>>)
  BY <1>1, <1>2, <1>4, <1>5 DEF PO!ReportIfAny
<1>6. ASSUME NEW rec, NEW i \in Nat
      PROVE  PO!SequenceFinding(rec, i) \in Seq(PostingFindings)
             /\ (call.hasSeq /\ PO!SequenceFinding(rec, i) = <<>> => rec.seq \notin {NoField, Dirty})
  <2>1. /\ <<PO!Finding("NO-SEQUENCE", i)>> \in Seq(PostingFindings)
        /\ <<PO!Finding("NO-SEQUENCE", i)>> # <<>>
        /\ <<PO!Finding("DIRTY-SEQUENCE", i)>> \in Seq(PostingFindings)
        /\ <<PO!Finding("DIRTY-SEQUENCE", i)>> # <<>>
    BY <1>1, <1>2, <1>3
  <2>. QED BY <1>4, <2>1 DEF PO!SequenceFinding
<1>. QED BY <1>4, <1>5, <1>6

LEMMA FindingsRead ==
  ASSUME UnitRead, PO!ReadRecord
  PROVE  /\ findings' \in Seq(PostingFindings)
         /\ call.hasSeq /\ findings' = <<>> => Len(seqValues') = idx'
<1>. DEFINE rec == call.data[idx + 1]
<1>1. idx \in Nat /\ idx' = idx + 1 /\ seqValues \in Seq(Nat) /\ findings \in Seq(PostingFindings)
      /\ idx + 1 \in 1..Len(call.data) /\ call \in PostingCalls
  <2>1. call \in PostingCalls /\ idx \in 0..Len(call.data)
    BY DEF UnitRead
  <2>2. call.data \in Seq(PostingRecords)
    BY <2>1, PostingCallsTyped DEF PO!CallsTyped
  <2>. QED BY <2>1, <2>2 DEF UnitRead, PO!ReadRecord
<1>2. findings' = findings \o PO!SequenceFinding(rec, idx + 1)
  BY DEF PO!ReadRecord, PO!Rec
<1>3. PO!SequenceFinding(rec, idx + 1) \in Seq(PostingFindings)
      /\ (call.hasSeq /\ PO!SequenceFinding(rec, idx + 1) = <<>> => rec.seq \notin {NoField, Dirty})
  BY <1>1, FindingTypes
<1>4. findings' \in Seq(PostingFindings)
      /\ (findings' = <<>> => findings = <<>> /\ PO!SequenceFinding(rec, idx + 1) = <<>>)
  BY <1>1, <1>2, <1>3, NothingAdded
<1>5. ASSUME call.hasSeq, findings' = <<>> PROVE Len(seqValues') = idx'
  <2>1. Len(seqValues) = idx /\ rec.seq \notin {NoField, Dirty}
    BY <1>3, <1>4, <1>5 DEF UnitRead
  <2>2. seqValues' = Append(seqValues, rec.seq)
    BY <1>5, <2>1 DEF PO!ReadRecord, PO!HasNumber, PO!Rec
  <2>3. rec.seq \in Nat
    BY <1>1, <2>1, RecordTypes
  <2>. HIDE DEF rec
  <2>. QED BY <1>1, <2>1, <2>2, <2>3
<1>. QED BY <1>4, <1>5

LEMMA UnitStart == PO!Init => UnitRead /\ Manifest
<1>. SUFFICES ASSUME PO!Init PROVE UnitRead /\ Manifest
  OBVIOUS
<1>1. /\ call \in PostingCalls /\ idx = 0 /\ seqValues = <<>> /\ txnValues = <<>>
      /\ findings = <<>> /\ pc = "start"
  BY DEF PO!Init
<1>2. \A x : Places(<<>>, x) = {} /\ NumberedAs(call, x) \cap (1..0) = {}
             /\ Carrying(call, x) \cap (1..0) = {}
  BY DEF Places
<1>3. UnitRead
  <2>1. 0 \in 0..Len(call.data)
    BY <1>1, UnitTypes
  <2>2. /\ \A x : Cardinality(Places(seqValues, x)) = Cardinality(NumberedAs(call, x) \cap (1..idx))
        /\ \A x : Cardinality(Places(txnValues, x)) = Cardinality(Carrying(call, x) \cap (1..idx))
    BY <1>1, <1>2
  <2>3. /\ <<>> \in Seq(Nat) /\ <<>> \in Seq(Ids) /\ <<>> \in Seq(PostingFindings)
        /\ Len(<<>>) = 0
    OBVIOUS
  <2>. QED BY <1>1, <2>1, <2>2, <2>3 DEF UnitRead
<1>4. Manifest
  BY <1>1 DEF Manifest
<1>. QED BY <1>3, <1>4

LEMMA UnitFinished ==
  ASSUME UnitRead, PO!Finish
  PROVE  UnitRead' /\ Manifest'
<1>. DEFINE a == PO!ReportIfAny(PO!SeqDuplicates, "DUPLICATE-SEQUENCE")
            b == PO!ReportIfAny(PO!SeqGaps, "SEQUENCE-GAP")
            c == PO!ReportIfAny(PO!TxnDuplicates, "DUPLICATE-TXN-ID")
<1>1. /\ call' = call /\ idx' = idx /\ chain' = chain /\ seqValues' = seqValues
      /\ txnValues' = txnValues /\ findings' = ((findings \o a) \o b) \o c
      /\ pc' = "done" /\ idx = Len(call.data)
      /\ result' = [count |-> idx, min |-> PO!SeqMin, max |-> PO!SeqMax,
                    duplicates |-> PO!SeqDuplicates, gaps |-> PO!SeqGaps,
                    txnDuplicates |-> PO!TxnDuplicates, lastChain |-> chain]
  BY DEF PO!Finish
<1>2. /\ a \in Seq(PostingFindings) /\ b \in Seq(PostingFindings) /\ c \in Seq(PostingFindings)
      /\ (a = <<>> <=> PO!SeqDuplicates = <<>>) /\ (b = <<>> <=> PO!SeqGaps = <<>>)
  <2>1. /\ "DUPLICATE-SEQUENCE" \in PO!Rules /\ "SEQUENCE-GAP" \in PO!Rules
        /\ "DUPLICATE-TXN-ID" \in PO!Rules
    BY DEF PO!Rules
  <2>. QED BY <2>1, FindingTypes
<1>. HIDE DEF a, b, c
<1>3. /\ findings' \in Seq(PostingFindings)
      /\ findings' = <<>> => findings = <<>> /\ a = <<>> /\ b = <<>>
  <2>1. findings \in Seq(PostingFindings)
    BY DEF UnitRead
  <2>2. findings \o a \in Seq(PostingFindings) /\ (findings \o a = <<>> <=> findings = <<>> /\ a = <<>>)
    BY <1>2, <2>1, NothingAdded
  <2>3. (findings \o a) \o b \in Seq(PostingFindings)
        /\ ((findings \o a) \o b = <<>> <=> findings \o a = <<>> /\ b = <<>>)
    BY <1>2, <2>2, NothingAdded
  <2>4. ((findings \o a) \o b) \o c \in Seq(PostingFindings)
        /\ (((findings \o a) \o b) \o c = <<>> <=> (findings \o a) \o b = <<>> /\ c = <<>>)
    BY <1>2, <2>3, NothingAdded
  <2>. QED BY <1>1, <2>2, <2>3, <2>4
<1>4. /\ PO!SeqDuplicates' = PO!SeqDuplicates /\ PO!SeqGaps' = PO!SeqGaps
      /\ PO!TxnDuplicates' = PO!TxnDuplicates /\ PO!SeqMin' = PO!SeqMin /\ PO!SeqMax' = PO!SeqMax
  BY <1>1 DEF PO!SeqDuplicates, PO!SeqGaps, PO!TxnDuplicates, PO!SeqMin, PO!SeqMax
<1>5. UnitRead'
  BY <1>1, <1>3 DEF UnitRead
<1>6. Manifest'
  BY <1>1, <1>2, <1>3, <1>4 DEF Manifest
<1>. QED BY <1>5, <1>6

LEMMA UnitStep == UnitRead /\ Manifest /\ PO!Next => UnitRead' /\ Manifest'
<1>. SUFFICES ASSUME UnitRead, Manifest, PO!Next PROVE UnitRead' /\ Manifest'
  OBVIOUS
<1>1. CASE PO!ReadRecord
  <2>1. pc' # "done" /\ idx' \in 0..Len(call'.data) /\ call' = call
    <3>1. idx' \in 1..Len(call.data)
      BY <1>1, NumbersRead
    <3>. QED BY <1>1, <3>1 DEF PO!ReadRecord
  <2>2. UnitRead'
    BY <1>1, <2>1, NumbersRead, IdsRead, FindingsRead DEF UnitRead
  <2>. QED BY <2>1, <2>2 DEF Manifest
<1>2. CASE PO!Finish
  BY <1>2, UnitFinished
<1>3. CASE PO!Refuse \/ PO!Accept
  BY <1>3 DEF PO!Refuse, PO!Accept, UnitRead, Manifest
<1>4. CASE PO!Terminated
  <2>1. UNCHANGED PO!vars
    BY <1>4 DEF PO!Terminated
  <2>2. /\ PO!SeqDuplicates' = PO!SeqDuplicates /\ PO!SeqGaps' = PO!SeqGaps
        /\ PO!TxnDuplicates' = PO!TxnDuplicates /\ PO!SeqMin' = PO!SeqMin /\ PO!SeqMax' = PO!SeqMax
    BY <2>1 DEF PO!vars, PO!SeqDuplicates, PO!SeqGaps, PO!TxnDuplicates, PO!SeqMin, PO!SeqMax
  <2>. QED BY <2>1, <2>2 DEF PO!vars, UnitRead, Manifest
<1>. QED BY <1>1, <1>2, <1>3, <1>4 DEF PO!Next

LEMMA UnitInvariant ==
  Spec => [](court = "posting_manifest" => UnitRead /\ Manifest)
<1>. DEFINE IInv == court = "posting_manifest" => UnitRead /\ Manifest
<1>1. Init => IInv
  BY UnitStart DEF Init
<1>2. IInv /\ [Next]_vars => IInv'
  <2>1. CASE UNCHANGED vars
    <3>. SUFFICES ASSUME UnitRead, Manifest, UNCHANGED vars PROVE UnitRead' /\ Manifest'
      BY <2>1 DEF vars
    <3>1. UNCHANGED <<call, pc, idx, findings, chain, seqValues, txnValues, result>>
      BY DEF vars, postingVars
    <3>2. /\ PO!SeqDuplicates' = PO!SeqDuplicates /\ PO!SeqGaps' = PO!SeqGaps
          /\ PO!TxnDuplicates' = PO!TxnDuplicates /\ PO!SeqMin' = PO!SeqMin /\ PO!SeqMax' = PO!SeqMax
      BY <3>1 DEF PO!SeqDuplicates, PO!SeqGaps, PO!TxnDuplicates, PO!SeqMin, PO!SeqMax
    <3>. QED BY <3>1, <3>2 DEF UnitRead, Manifest
  <2>2. CASE court = "posting_manifest" /\ PO!Next /\ court' = court
    BY <2>2, UnitStep
  <2>. QED BY <2>1, <2>2 DEF Next
<1>. QED BY <1>1, <1>2, PTL DEF Spec

(* What was collected from a unit that was read is what all its records    *)
(* hold.                                                                   *)
LEMMA WholeUnit ==
  ASSUME UnitRead, idx = Len(call.data)
  PROVE  /\ \A x : Cardinality(Places(seqValues, x)) = Cardinality(NumberedAs(call, x))
         /\ \A x : Cardinality(Places(txnValues, x)) = Cardinality(Carrying(call, x))
         /\ \A x : IsFiniteSet(NumberedAs(call, x)) /\ IsFiniteSet(Carrying(call, x))
         /\ \A x : IsFiniteSet(Places(seqValues, x)) /\ IsFiniteSet(Places(txnValues, x))
<1>1. DOMAIN call.data = 1..idx /\ idx \in Nat
  <2>1. call.data \in Seq(PostingRecords)
    BY UnitTypes DEF UnitRead
  <2>. QED BY <2>1
<1>2. \A x : NumberedAs(call, x) \in SUBSET (1..idx) /\ Carrying(call, x) \in SUBSET (1..idx)
  BY <1>1 DEF NumberedAs, Carrying
<1>3. \A x : NumberedAs(call, x) \cap (1..idx) = NumberedAs(call, x)
             /\ Carrying(call, x) \cap (1..idx) = Carrying(call, x)
  BY <1>2
<1>4. IsFiniteSet(1..idx)
  BY <1>1, Interval
<1>5. \A x : IsFiniteSet(NumberedAs(call, x)) /\ IsFiniteSet(Carrying(call, x))
  BY <1>2, <1>4, FS_Subset, Zenon
<1>6. ASSUME NEW x PROVE IsFiniteSet(Places(seqValues, x)) /\ IsFiniteSet(Places(txnValues, x))
  <2>1. Places(seqValues, x) \subseteq DOMAIN seqValues /\ Places(txnValues, x) \subseteq DOMAIN txnValues
    BY DEF Places
  <2>2. seqValues \in Seq(Nat) /\ txnValues \in Seq(Ids)
    BY DEF UnitRead
  <2>. QED BY <2>1, <2>2, PlacesFinite
<1>. QED BY <1>3, <1>5, <1>6 DEF UnitRead

LEMMA NumbersTwice ==
  ASSUME UnitRead, idx = Len(call.data)
  PROVE  /\ PO!SeqDuplicates \in Seq(Nat)
         /\ \A x : (\E k \in 1..Len(PO!SeqDuplicates) : PO!SeqDuplicates[k] = x)
                     <=> Cardinality(NumberedAs(call, x)) > 1
         /\ \A j, k \in 1..Len(PO!SeqDuplicates) :
              j < k => PO!SeqDuplicates[j] < PO!SeqDuplicates[k]
<1>. DEFINE s == PO!Sorted(seqValues)
            dups == PO!SeqDuplicates
<1>1. seqValues \in Seq(Nat) /\ Len(seqValues) \in Nat /\ DOMAIN seqValues = 1..Len(seqValues)
  BY DEF UnitRead
<1>2. s \in Seq(Nat) /\ Len(s) = Len(seqValues) /\ Ascending(s)
  BY <1>1, SortedIs, SortedAscends
<1>3. OnceEach(s, PO!Doubled(s), Len(s), dups)
  <2>1. dups = PO!Collected(s, PO!Doubled(s))
    BY DEF PO!SeqDuplicates
  <2>. HIDE DEF dups, s
  <2>. QED BY <1>2, <2>1, CollectedOnce
<1>4. \A x : (\E k \in 1..Len(seqValues) : k \in PO!Doubled(s) /\ s[k] = x)
               <=> x \in Elements(seqValues) /\ Cardinality(Places(seqValues, x)) > 1
  BY <1>1, SortedAscends
<1>. HIDE DEF s, dups
<1>5. ASSUME NEW x
      PROVE  (\E k \in 1..Len(dups) : dups[k] = x) <=> Cardinality(NumberedAs(call, x)) > 1
  <2>1. (\E k \in 1..Len(dups) : dups[k] = x) <=>
        (\E k \in 1..Len(s) : k \in PO!Doubled(s) /\ s[k] = x)
    BY <1>3 DEF OnceEach
  <2>2. Cardinality(Places(seqValues, x)) > 1 => x \in Elements(seqValues)
    <3>1. IsFiniteSet(Places(seqValues, x))
      BY WholeUnit
    <3>. QED BY <3>1, MoreThanOne DEF Places, Elements
  <2>3. Cardinality(Places(seqValues, x)) = Cardinality(NumberedAs(call, x))
    BY WholeUnit
  <2>. QED BY <1>2, <1>4, <2>1, <2>2, <2>3
<1>6. \A j, k \in 1..Len(dups) : j < k => dups[j] < dups[k]
  BY <1>2, <1>3 DEF OnceEach
<1>7. dups \in Seq(Nat)
  <2>1. dups \in Seq({s[j] : j \in 1..Len(s)})
    BY <1>3 DEF OnceEach
  <2>2. {s[j] : j \in 1..Len(s)} \subseteq Nat
    BY <1>2
  <2>3. Seq({s[j] : j \in 1..Len(s)}) \subseteq Seq(Nat)
    BY <2>2, SeqMonotonic, Zenon
  <2>. QED BY <2>1, <2>3
<1>. QED BY <1>5, <1>6, <1>7 DEF dups

LEMMA IdsTwice ==
  ASSUME UnitRead, idx = Len(call.data)
  PROVE  /\ PO!TxnDuplicates \in Seq(Ids)
         /\ \A x : (\E k \in 1..Len(PO!TxnDuplicates) : PO!TxnDuplicates[k] = x)
                     <=> \E i, j \in Carrying(call, x) : i # j
         /\ \A j, k \in 1..Len(PO!TxnDuplicates) :
              j < k => PO!TxnDuplicates[j] # PO!TxnDuplicates[k]
<1>. DEFINE again == {k \in DOMAIN txnValues : \E j \in 1..(k - 1) : txnValues[j] = txnValues[k]}
            dups == PO!TxnDuplicates
<1>1. txnValues \in Seq(Ids) /\ Len(txnValues) \in Nat /\ DOMAIN txnValues = 1..Len(txnValues)
  BY DEF UnitRead
<1>2. OnceEach(txnValues, again, Len(txnValues), dups)
  <2>1. dups = PO!Collected(txnValues, again)
    BY DEF PO!TxnDuplicates
  <2>. HIDE DEF dups, again
  <2>. QED BY <1>1, <2>1, CollectedOnce
<1>. HIDE DEF dups
<1>3. ASSUME NEW x
      PROVE  (\E k \in 1..Len(dups) : dups[k] = x) <=> \E i, j \in Carrying(call, x) : i # j
  <2>1. (\E k \in 1..Len(dups) : dups[k] = x) <=>
        (\E k \in 1..Len(txnValues) : k \in again /\ txnValues[k] = x)
    BY <1>2 DEF OnceEach
  <2>2. (\E k \in 1..Len(txnValues) : k \in again /\ txnValues[k] = x) <=>
        \E i, j \in Places(txnValues, x) : i # j
    <3>1. ASSUME NEW i \in Places(txnValues, x), NEW j \in Places(txnValues, x), i < j
          PROVE  j \in 1..Len(txnValues) /\ j \in again /\ txnValues[j] = x
      BY <1>1, <3>1 DEF Places
    <3>2. \A i, j \in Places(txnValues, x) : i # j => i < j \/ j < i
      BY <1>1 DEF Places
    <3>3. ASSUME NEW k \in 1..Len(txnValues), k \in again, txnValues[k] = x
          PROVE  \E i, j \in Places(txnValues, x) : i # j
      <4>1. PICK j \in 1..(k - 1) : txnValues[j] = x
        BY <3>3
      <4>2. j \in Places(txnValues, x) /\ k \in Places(txnValues, x) /\ j # k
        BY <1>1, <3>3, <4>1 DEF Places
      <4>. QED BY <4>2
    <3>. HIDE DEF again
    <3>. QED BY <3>1, <3>2, <3>3
  <2>3. IsFiniteSet(Places(txnValues, x)) /\ IsFiniteSet(Carrying(call, x))
        /\ Cardinality(Places(txnValues, x)) = Cardinality(Carrying(call, x))
    BY WholeUnit
  <2>4. (\E i, j \in Places(txnValues, x) : i # j) <=> \E i, j \in Carrying(call, x) : i # j
    BY <2>3, MoreThanOne
  <2>. QED BY <2>1, <2>2, <2>4
<1>4. dups \in Seq(Ids)
  <2>1. dups \in Seq({txnValues[j] : j \in 1..Len(txnValues)})
    BY <1>2 DEF OnceEach
  <2>2. {txnValues[j] : j \in 1..Len(txnValues)} \subseteq Ids
    BY <1>1
  <2>. QED BY <2>1, <2>2
<1>5. \A j, k \in 1..Len(dups) : j < k => dups[j] # dups[k]
  BY <1>2 DEF OnceEach
<1>. QED BY <1>3, <1>4, <1>5 DEF dups

(* A manifest lists as duplicates exactly the sequence numbers that two or *)
(* more records have, in ascending order, and exactly the transaction ids  *)
(* that two different records carry, each once.                            *)
THEOREM RepeatsListed == Spec => []DuplicatesExact
<1>1. (court = "posting_manifest" => UnitRead /\ Manifest) => DuplicatesExact
  <2>. SUFFICES ASSUME UnitRead, Manifest, pc = "done" PROVE PO!DuplicatesExact
    BY DEF DuplicatesExact, PO!DuplicatesExact
  <2>1. /\ idx = Len(call.data)
        /\ result.duplicates = PO!SeqDuplicates /\ result.txnDuplicates = PO!TxnDuplicates
    BY DEF Manifest
  <2>2. call.data \in Seq(PostingRecords)
    BY UnitTypes DEF UnitRead
  <2>3. PO!ToSet(result.duplicates) =
          {PO!SequenceOf(i) : i \in {i \in PO!Numbered : PO!Times(PO!SequenceOf(i)) > 1}}
    <3>1. \A n : PO!Times(n) = Cardinality(NumberedAs(call, n))
      <4>1. \A n : {i \in PO!Numbered : PO!SequenceOf(i) = n} = NumberedAs(call, n)
        BY DEF PO!Numbered, PO!SequenceOf, PO!HasNumber, NumberedAs
      <4>2. \A T : PO!Cardinality(T) = Cardinality(T)
        BY DEF PO!Cardinality, Cardinality
      <4>. QED BY <4>1, <4>2, Zenon DEF PO!Times
    <3>2. \A x : x \in PO!ToSet(result.duplicates) <=> Cardinality(NumberedAs(call, x)) > 1
      <4>1. DOMAIN PO!SeqDuplicates = 1..Len(PO!SeqDuplicates)
        BY <2>1, NumbersTwice
      <4>2. \A x : x \in PO!ToSet(result.duplicates) <=>
                   \E k \in 1..Len(PO!SeqDuplicates) : PO!SeqDuplicates[k] = x
        BY <2>1, <4>1 DEF PO!ToSet
      <4>. QED BY <2>1, <4>2, NumbersTwice
    <3>3. \A x : Cardinality(NumberedAs(call, x)) > 1 =>
                 \E i \in PO!Numbered : PO!SequenceOf(i) = x
      <4>1. \A x : IsFiniteSet(NumberedAs(call, x))
        BY <2>1, WholeUnit
      <4>2. \A x : Cardinality(NumberedAs(call, x)) > 1 => \E i : i \in NumberedAs(call, x)
        BY <4>1, MoreThanOne
      <4>. QED BY <4>2 DEF PO!Numbered, PO!SequenceOf, PO!HasNumber, NumberedAs
    <3>. QED BY <3>1, <3>2, <3>3
  <2>4. \A j, k \in DOMAIN result.duplicates :
          j < k => result.duplicates[j] < result.duplicates[k]
    <3>1. DOMAIN PO!SeqDuplicates = 1..Len(PO!SeqDuplicates)
      BY <2>1, NumbersTwice
    <3>. QED BY <2>1, <3>1, NumbersTwice
  <2>5. DOMAIN PO!TxnDuplicates = 1..Len(PO!TxnDuplicates) /\ Len(PO!TxnDuplicates) \in Nat
    BY <2>1, IdsTwice
  <2>6. PO!IsInjective(result.txnDuplicates)
    <3>1. \A j, k \in 1..Len(PO!TxnDuplicates) :
            j < k => PO!TxnDuplicates[j] # PO!TxnDuplicates[k]
      BY <2>1, IdsTwice
    <3>2. \A j, k \in 1..Len(PO!TxnDuplicates) : j = k \/ j < k \/ k < j
      BY <2>5
    <3>3. \A j, k \in 1..Len(PO!TxnDuplicates) :
            PO!TxnDuplicates[j] = PO!TxnDuplicates[k] => j = k
      BY <3>1, <3>2
    <3>. QED BY <2>1, <2>5, <3>3 DEF PO!IsInjective
  <2>7. PO!ToSet(result.txnDuplicates) =
          IF ~call.hasTxn THEN {}
          ELSE {t \in {rec.txn : rec \in PO!ToSet(call.data)} \ {NoField} :
                  \E i, j \in DOMAIN call.data :
                    i # j /\ call.data[i].txn = t /\ call.data[j].txn = t}
    <3>1. \A x : x \in PO!ToSet(result.txnDuplicates) <=> \E i, j \in Carrying(call, x) : i # j
      <4>1. \A x : x \in PO!ToSet(result.txnDuplicates) <=>
                   \E k \in 1..Len(PO!TxnDuplicates) : PO!TxnDuplicates[k] = x
        BY <2>1, <2>5 DEF PO!ToSet
      <4>. QED BY <2>1, <4>1, IdsTwice
    <3>2. CASE ~call.hasTxn
      BY <3>1, <3>2 DEF Carrying
    <3>3. CASE call.hasTxn
      <4>1. \A x : (\E i, j \in Carrying(call, x) : i # j) <=>
                   /\ x \in {rec.txn : rec \in PO!ToSet(call.data)} \ {NoField}
                   /\ \E i, j \in DOMAIN call.data :
                        i # j /\ call.data[i].txn = x /\ call.data[j].txn = x
        BY <3>3 DEF Carrying, PO!ToSet
      <4>. QED BY <3>1, <3>3, <4>1
    <3>. QED BY <3>2, <3>3
  <2>. QED BY <2>3, <2>4, <2>6, <2>7 DEF PO!DuplicatesExact
<1>. QED BY <1>1, UnitInvariant, PTL

LEMMA LeastAndGreatest ==
  ASSUME NEW list \in Seq(Nat), list # <<>>
  PROVE  LET lo == PO!Min(PO!ToSet(list))
             hi == PO!Max(PO!ToSet(list))
         IN  /\ lo \in Elements(list) /\ hi \in Elements(list) /\ lo \in Nat /\ hi \in Nat
             /\ lo <= hi /\ \A k \in 1..Len(list) : list[k] \in lo..hi
<1>1. /\ PO!ToSet(list) = Elements(list) /\ DOMAIN list = 1..Len(list) /\ Len(list) \in Nat
      /\ Elements(list) \subseteq Nat /\ Elements(list) # {} /\ DOMAIN list # {}
  BY DEF PO!ToSet, Elements
<1>. DEFINE lo == PO!Min(Elements(list))
            hi == PO!Max(Elements(list))
<1>2. lo \in Elements(list) /\ \A n \in Elements(list) : lo <= n
  <2>1. \E l \in Elements(list) : \A n \in Elements(list) : l <= n
    BY <1>1, LeastIn
  <2>. QED BY <2>1 DEF PO!Min
<1>3. hi \in Elements(list) /\ \A n \in Elements(list) : hi >= n
  <2>1. PICK j \in DOMAIN list : \A i \in DOMAIN list : list[i] <= list[j]
    BY <1>1, GreatestIn
  <2>2. list[j] \in Elements(list) /\ \A n \in Elements(list) : list[j] >= n
    BY <1>1, <2>1 DEF Elements
  <2>. QED BY <2>2 DEF PO!Max
<1>. HIDE DEF lo, hi
<1>4. lo \in Nat /\ hi \in Nat /\ lo <= hi
  BY <1>1, <1>2, <1>3
<1>5. \A k \in 1..Len(list) : list[k] \in lo..hi
  <2>1. \A k \in 1..Len(list) : list[k] \in Elements(list)
    BY <1>1 DEF Elements
  <2>. QED BY <1>1, <1>2, <1>3, <1>4, <2>1
<1>. QED BY <1>1, <1>2, <1>3, <1>4, <1>5 DEF lo, hi

LEMMA NoneMissing ==
  ASSUME NEW list \in Seq(Nat), NEW lo \in Nat, NEW hi \in Nat,
         PO!Missing(lo, hi, list) = <<>>
  PROVE  lo..hi \subseteq Elements(list)
<1>. SUFFICES ASSUME NEW n \in lo..hi, n \notin Elements(list) PROVE FALSE
  OBVIOUS
<1>. DEFINE range == [k \in 1..(hi - lo + 1) |-> lo + k - 1]
            gone == {k \in DOMAIN range : range[k] \notin Elements(list)}
<1>1. range \in Seq(Nat) /\ Len(range) = hi - lo + 1 /\ DOMAIN range = 1..(hi - lo + 1)
  <2>1. hi - lo + 1 \in Nat
    OBVIOUS
  <2>2. \A k \in 1..(hi - lo + 1) : lo + k - 1 \in Nat
    OBVIOUS
  <2>. QED BY <2>1, <2>2
<1>2. PO!ToSet(list) = Elements(list)
  BY DEF PO!ToSet, Elements
<1>3. PO!Collected(range, gone) = <<>>
  BY <1>2 DEF PO!Missing
<1>4. n - lo + 1 \in DOMAIN range /\ range[n - lo + 1] = n
  BY <1>1
<1>5. n - lo + 1 \in gone
  BY <1>4
<1>. HIDE DEF range, gone
<1>6. OnceEach(range, gone, Len(range), <<>>)
  BY <1>1, <1>3, CollectedOnce
<1>7. \E i \in 1..Len(<<>>) : <<>>[i] = n
  BY <1>1, <1>4, <1>5, <1>6 DEF OnceEach
<1>. QED BY <1>7

LEMMA OneForEach ==
  ASSUME NEW list \in Seq(Nat), NEW lo \in Nat, NEW hi \in Nat, lo <= hi,
         lo..hi \subseteq Elements(list), \A k \in 1..Len(list) : list[k] \in lo..hi,
         \A j, k \in 1..Len(list) : list[j] = list[k] => j = k
  PROVE  Len(list) = hi - lo + 1
<1>1. /\ DOMAIN list = 1..Len(list) /\ Len(list) \in Nat
      /\ IsFiniteSet(1..Len(list)) /\ Cardinality(1..Len(list)) = Len(list)
  BY Interval
<1>2. IsFiniteSet(lo..hi) /\ Cardinality(lo..hi) = hi - lo + 1
  BY FS_Interval
<1>3. ~(hi - lo + 1 < Len(list))
  <2>. SUFFICES ASSUME Cardinality(lo..hi) < Cardinality(1..Len(list)) PROVE FALSE
    BY <1>1, <1>2
  <2>1. list \in [1..Len(list) -> lo..hi]
    BY <1>1
  <2>2. \E j, k \in 1..Len(list) : j # k /\ list[j] = list[k]
    BY <1>1, <1>2, <2>1, FS_PigeonHole
  <2>. QED BY <2>2
<1>4. ~(Len(list) < hi - lo + 1)
  <2>. SUFFICES ASSUME Cardinality(1..Len(list)) < Cardinality(lo..hi) PROVE FALSE
    BY <1>1, <1>2
  <2>. DEFINE place == [n \in lo..hi |-> CHOOSE k \in 1..Len(list) : list[k] = n]
  <2>1. \A n \in lo..hi : place[n] \in 1..Len(list) /\ list[place[n]] = n
    BY <1>1 DEF Elements
  <2>2. place \in [lo..hi -> 1..Len(list)]
    BY <2>1
  <2>. HIDE DEF place
  <2>3. \E m, n \in lo..hi : m # n /\ place[m] = place[n]
    <3>1. IsFiniteSet(lo..hi) /\ IsFiniteSet(1..Len(list))
      BY <1>1, <1>2
    <3>. QED BY <2>2, <3>1, FS_PigeonHole, Zenon
  <2>. QED BY <2>1, <2>3
<1>. QED BY <1>1, <1>3, <1>4

(* A unit declared contiguous of which the manifest has nothing to say is  *)
(* complete: every number from the least to the greatest is on exactly one *)
(* record, and there are as many records as numbers.                       *)
THEOREM NothingToReport == Spec => []CleanContiguousIsComplete
<1>1. (court = "posting_manifest" => UnitRead /\ Manifest) => CleanContiguousIsComplete
  <2>. SUFFICES ASSUME UnitRead, Manifest, pc = "done", call.hasSeq, call.contiguous, findings = <<>>
                PROVE  IF call.data = <<>> THEN result.min = NoField
                       ELSE /\ \A n \in result.min..result.max : PO!Times(n) = 1
                            /\ result.count = result.max - result.min + 1
    BY DEF CleanContiguousIsComplete, PO!CleanContiguousIsComplete
  <2>1. /\ idx = Len(call.data) /\ Len(seqValues) = idx /\ seqValues \in Seq(Nat)
        /\ result.min = PO!SeqMin /\ result.max = PO!SeqMax /\ result.count = idx
        /\ PO!SeqDuplicates = <<>> /\ PO!SeqGaps = <<>>
    BY DEF UnitRead, Manifest
  <2>2. call.data \in Seq(PostingRecords)
    BY UnitTypes DEF UnitRead
  <2>3. CASE call.data = <<>>
    <3>1. seqValues = <<>>
      BY <2>1, <2>3
    <3>. QED BY <2>1, <2>3, <3>1 DEF PO!SeqMin
  <2>4. CASE call.data # <<>>
    <3>1. seqValues # <<>>
      BY <2>1, <2>2, <2>4
    <3>. DEFINE lo == PO!Min(PO!ToSet(seqValues))
                hi == PO!Max(PO!ToSet(seqValues))
    <3>2. /\ PO!SeqMin = lo /\ PO!SeqMax = hi /\ PO!Missing(lo, hi, seqValues) = <<>>
      BY <2>1, <3>1 DEF PO!SeqMin, PO!SeqMax, PO!SeqGaps
    <3>3. /\ lo \in Nat /\ hi \in Nat /\ lo <= hi
          /\ \A k \in 1..Len(seqValues) : seqValues[k] \in lo..hi
      BY <2>1, <3>1, LeastAndGreatest
    <3>. HIDE DEF lo, hi
    <3>4. lo..hi \subseteq Elements(seqValues)
      BY <2>1, <3>2, <3>3, NoneMissing
    <3>5. \A x : /\ ~(Cardinality(NumberedAs(call, x)) > 1)
                 /\ Cardinality(Places(seqValues, x)) = Cardinality(NumberedAs(call, x))
                 /\ IsFiniteSet(Places(seqValues, x))
      <4>1. \A x : ~\E k \in 1..Len(PO!SeqDuplicates) : PO!SeqDuplicates[k] = x
        BY <2>1
      <4>. QED BY <2>1, <4>1, NumbersTwice, WholeUnit
    <3>6. ASSUME NEW j \in 1..Len(seqValues), NEW k \in 1..Len(seqValues), seqValues[j] = seqValues[k]
          PROVE  j = k
      <4>1. ~\E a, b \in Places(seqValues, seqValues[k]) : a # b
        BY <3>5, MoreThanOne
      <4>2. j \in Places(seqValues, seqValues[k]) /\ k \in Places(seqValues, seqValues[k])
        BY <2>1, <3>6 DEF Places
      <4>. QED BY <4>1, <4>2
    <3>7. Len(seqValues) = hi - lo + 1
      BY <2>1, <3>3, <3>4, <3>6, OneForEach
    <3>8. ASSUME NEW n \in lo..hi PROVE PO!Times(n) = 1
      <4>1. Places(seqValues, n) # {}
        BY <3>4 DEF Elements, Places
      <4>2. Cardinality(Places(seqValues, n)) = 1
        <5>1. Cardinality(Places(seqValues, n)) \in Nat /\ Cardinality(Places(seqValues, n)) # 0
          BY <3>5, <4>1, FS_CardinalityType, FS_EmptySet
        <5>. QED BY <3>5, <5>1
      <4>3. {i \in PO!Numbered : PO!SequenceOf(i) = n} = NumberedAs(call, n)
        BY DEF PO!Numbered, PO!SequenceOf, PO!HasNumber, NumberedAs
      <4>4. \A T : PO!Cardinality(T) = Cardinality(T)
        BY DEF PO!Cardinality, Cardinality
      <4>5. PO!Times(n) = Cardinality(NumberedAs(call, n))
        BY <4>3, <4>4, Zenon DEF PO!Times
      <4>. QED BY <3>5, <4>2, <4>5
    <3>. QED BY <2>1, <2>4, <3>2, <3>7, <3>8
  <2>. QED BY <2>3, <2>4
<1>. QED BY <1>1, UnitInvariant, PTL

-----------------------------------------------------------------------------
(* The powers of ten up to the n-th.                                       *)
Multiplying(p, k) == IF k = 0 THEN 1 ELSE 10 * p[k - 1]
Multiplies(p, n) == p = [k \in 0..n |-> Multiplying(p, k)]
TensTo(n) == CHOOSE p : Multiplies(p, n)

LEMMA OnePowerMore ==
  ASSUME NEW p, NEW n \in Nat \ {0}, Multiplies(p, n - 1)
  PROVE  \E q : Multiplies(q, n)
<1>. DEFINE more == [k \in 0..n |-> IF k = n THEN 10 * p[n - 1] ELSE p[k]]
<1>1. /\ \A k \in 0..n : more[k] = IF k = n THEN 10 * p[n - 1] ELSE p[k]
      /\ DOMAIN more = 0..n /\ more = [k \in 0..n |-> more[k]]
  OBVIOUS
<1>. HIDE DEF more
<1>2. more[n] = Multiplying(more, n)
  BY <1>1 DEF Multiplying
<1>3. ASSUME NEW k \in 0..(n - 1) PROVE more[k] = Multiplying(more, k)
  <2>1. p[k] = Multiplying(p, k)
    BY DEF Multiplies
  <2>2. more[k] = p[k] /\ k \in 0..n
    BY <1>1
  <2>3. k # 0 => k - 1 \in 0..n /\ more[k - 1] = p[k - 1]
    BY <1>1
  <2>. QED BY <2>1, <2>2, <2>3 DEF Multiplying
<1>4. \A k \in 0..n : more[k] = Multiplying(more, k)
  BY <1>2, <1>3
<1>. QED BY <1>1, <1>4 DEF Multiplies

LEMMA TensMultiply ==
  ASSUME NEW n \in Nat
  PROVE  Multiplies(TensTo(n), n) /\ BC!TenTo(n) = TensTo(n)[n]
<1>. DEFINE open == {m \in 0..n : ~\E p : Multiplies(p, m)}
<1>1. open = {}
  <2>. SUFFICES ASSUME open # {} PROVE FALSE
    OBVIOUS
  <2>1. PICK m \in open : \A j \in open : m <= j
    <3>1. open \subseteq Nat
      OBVIOUS
    <3>. HIDE DEF open
    <3>. QED BY <3>1, LeastIn
  <2>2. m # 0
    <3>1. Multiplies([k \in 0..0 |-> 1], 0)
      BY DEF Multiplies, Multiplying
    <3>. QED BY <2>1, <3>1
  <2>3. m \in Nat \ {0} /\ m - 1 \in 0..n
    BY <2>1, <2>2
  <2>4. m - 1 \notin open
    <3>. HIDE DEF open
    <3>. QED BY <2>1, <2>3
  <2>. QED BY <2>1, <2>3, <2>4, OnePowerMore
<1>2. \E p : Multiplies(p, n)
  BY <1>1
<1>3. Multiplies(TensTo(n), n)
  BY <1>2 DEF TensTo
<1>4. BC!TenTo(n) = TensTo(n)[n]
  BY DEF BC!TenTo, TensTo, Multiplies, Multiplying
<1>. QED BY <1>3, <1>4

(* All lists of powers agree, and none has a zero in it.                   *)
LEMMA SameTens ==
  ASSUME NEW p, NEW q, NEW m \in Nat, NEW n \in Nat, Multiplies(p, m), Multiplies(q, n), m <= n
  PROVE  \A k \in 0..m : p[k] = q[k] /\ p[k] \in Nat \ {0}
<1>. DEFINE bad == {k \in 0..m : ~(p[k] = q[k] /\ p[k] \in Nat \ {0})}
<1>1. SUFFICES ASSUME bad # {} PROVE FALSE
  OBVIOUS
<1>2. PICK k \in bad : \A j \in bad : k <= j
  <2>1. bad \subseteq Nat
    OBVIOUS
  <2>. HIDE DEF bad
  <2>. QED BY <1>1, <2>1, LeastIn
<1>3. p[k] = Multiplying(p, k) /\ q[k] = Multiplying(q, k) /\ k \in 0..m
  <2>1. k \in 0..m /\ k \in 0..n
    OBVIOUS
  <2>. HIDE DEF bad
  <2>. QED BY <2>1 DEF Multiplies
<1>4. k # 0
  BY <1>2, <1>3 DEF Multiplying
<1>5. k - 1 \in 0..m /\ k - 1 \notin bad
  BY <1>2, <1>4
<1>6. p[k - 1] = q[k - 1] /\ p[k - 1] \in Nat \ {0}
  BY <1>5
<1>7. p[k] = 10 * p[k - 1] /\ q[k] = 10 * p[k - 1]
  BY <1>3, <1>4, <1>6 DEF Multiplying
<1>. QED BY <1>2, <1>6, <1>7

LEMMA TenMore ==
  /\ BC!TenTo(0) = 1
  /\ \A n \in Nat : BC!TenTo(n) \in Nat \ {0} /\ BC!TenTo(n + 1) = 10 * BC!TenTo(n)
<1>1. BC!TenTo(0) = 1
  <2>1. TensTo(0)[0] = Multiplying(TensTo(0), 0)
    BY TensMultiply DEF Multiplies
  <2>. QED BY <2>1, TensMultiply DEF Multiplying
<1>2. ASSUME NEW n \in Nat
      PROVE  BC!TenTo(n) \in Nat \ {0} /\ BC!TenTo(n + 1) = 10 * BC!TenTo(n)
  <2>1. Multiplies(TensTo(n), n) /\ Multiplies(TensTo(n + 1), n + 1)
    BY TensMultiply
  <2>2. TensTo(n)[n] = TensTo(n + 1)[n] /\ TensTo(n)[n] \in Nat \ {0}
    <3>1. n \in 0..n /\ n <= n + 1 /\ n + 1 \in Nat
      OBVIOUS
    <3>. QED BY <2>1, <3>1, SameTens
  <2>3. TensTo(n + 1)[n + 1] = 10 * TensTo(n + 1)[n]
    <3>1. TensTo(n + 1)[n + 1] = Multiplying(TensTo(n + 1), n + 1)
      BY <2>1 DEF Multiplies
    <3>. QED BY <3>1 DEF Multiplying
  <2>. QED BY <2>2, <2>3, TensMultiply
<1>. QED BY <1>1, <1>2

LEMMA TenTimes ==
  ASSUME NEW a \in Nat, NEW b \in Nat
  PROVE  BC!TenTo(a + b) = BC!TenTo(a) * BC!TenTo(b) /\ BC!TenTo(a) <= BC!TenTo(a + b)
<1>. DEFINE bad == {k \in Nat : BC!TenTo(a + k) # BC!TenTo(a) * BC!TenTo(k)}
<1>1. bad = {}
  <2>1. SUFFICES ASSUME bad # {} PROVE FALSE
    OBVIOUS
  <2>2. PICK k \in bad : \A j \in bad : k <= j
    <3>1. bad \subseteq Nat
      OBVIOUS
    <3>. HIDE DEF bad
    <3>. QED BY <2>1, <3>1, LeastIn
  <2>3. k # 0
    <3>1. BC!TenTo(a + 0) = BC!TenTo(a) * BC!TenTo(0)
      <4>1. a + 0 = a /\ BC!TenTo(0) = 1 /\ BC!TenTo(a) \in Nat
        BY TenMore
      <4>2. BC!TenTo(a) * 1 = BC!TenTo(a)
        BY <4>1
      <4>. QED BY <4>1, <4>2
    <3>. QED BY <2>2, <3>1
  <2>4. k - 1 \in Nat /\ k - 1 \notin bad
    BY <2>2, <2>3
  <2>. DEFINE x == BC!TenTo(a)
              y == BC!TenTo(k - 1)
  <2>5. BC!TenTo(a + (k - 1)) = x * y
    BY <2>4
  <2>6. BC!TenTo(k) = 10 * y /\ BC!TenTo(a + k) = 10 * BC!TenTo(a + (k - 1))
    <3>1. (k - 1) + 1 = k /\ (a + (k - 1)) + 1 = a + k /\ a + (k - 1) \in Nat
      BY <2>4
    <3>. QED BY <2>4, <3>1, TenMore
  <2>7. x \in Nat /\ y \in Nat
    BY <2>4, TenMore
  <2>. HIDE DEF x, y
  <2>8. 10 * (x * y) = x * (10 * y)
    BY <2>7, SMT
  <2>9. BC!TenTo(a + k) = x * BC!TenTo(k)
    BY <2>5, <2>6, <2>8
  <2>. QED BY <2>2, <2>9 DEF x
<1>2. BC!TenTo(a + b) = BC!TenTo(a) * BC!TenTo(b)
  BY <1>1
<1>3. \A x, y \in Nat \ {0} : x <= x * y
  OBVIOUS
<1>4. BC!TenTo(a) \in Nat \ {0} /\ BC!TenTo(b) \in Nat \ {0}
  BY TenMore
<1>. QED BY <1>2, <1>3, <1>4, Zenon

-----------------------------------------------------------------------------
(* What batch_control has added up after each of its terms.                *)
Adding(t, s, k) == IF k = 0 THEN 0 ELSE s[k - 1] + t[k]
AddsUp(t, s, m) == s = [k \in 0..m |-> Adding(t, s, k)]

LEMMA OneTermMore ==
  ASSUME NEW t, NEW s, NEW m \in Nat \ {0}, AddsUp(t, s, m - 1)
  PROVE  \E r : AddsUp(t, r, m)
<1>. DEFINE more == [k \in 0..m |-> IF k = m THEN s[m - 1] + t[m] ELSE s[k]]
<1>1. /\ \A k \in 0..m : more[k] = IF k = m THEN s[m - 1] + t[m] ELSE s[k]
      /\ DOMAIN more = 0..m /\ more = [k \in 0..m |-> more[k]]
  OBVIOUS
<1>. HIDE DEF more
<1>2. more[m] = Adding(t, more, m)
  BY <1>1 DEF Adding
<1>3. ASSUME NEW k \in 0..(m - 1) PROVE more[k] = Adding(t, more, k)
  <2>1. s[k] = Adding(t, s, k)
    BY DEF AddsUp
  <2>2. more[k] = s[k] /\ k \in 0..m
    BY <1>1
  <2>3. k # 0 => k - 1 \in 0..m /\ more[k - 1] = s[k - 1]
    BY <1>1
  <2>. QED BY <2>1, <2>2, <2>3 DEF Adding
<1>4. \A k \in 0..m : more[k] = Adding(t, more, k)
  BY <1>2, <1>3
<1>. QED BY <1>1, <1>4 DEF AddsUp

LEMMA SumsAddUp ==
  ASSUME NEW t, Len(t) \in Nat
  PROVE  AddsUp(t, BC!Sums(t), Len(t))
<1>. DEFINE open == {m \in 0..Len(t) : ~\E s : AddsUp(t, s, m)}
<1>1. open = {}
  <2>. SUFFICES ASSUME open # {} PROVE FALSE
    OBVIOUS
  <2>1. PICK m \in open : \A j \in open : m <= j
    <3>1. open \subseteq Nat
      OBVIOUS
    <3>. HIDE DEF open
    <3>. QED BY <3>1, LeastIn
  <2>2. m # 0
    <3>1. AddsUp(t, [k \in 0..0 |-> 0], 0)
      BY DEF AddsUp, Adding
    <3>. QED BY <2>1, <3>1
  <2>3. m \in Nat \ {0} /\ m - 1 \in 0..Len(t)
    BY <2>1, <2>2
  <2>4. m - 1 \notin open
    <3>. HIDE DEF open
    <3>. QED BY <2>1, <2>3
  <2>. QED BY <2>1, <2>3, <2>4, OneTermMore
<1>2. \E s : AddsUp(t, s, Len(t))
  BY <1>1
<1>3. BC!Sums(t) = CHOOSE s : AddsUp(t, s, Len(t))
  BY DEF BC!Sums, AddsUp, Adding
<1>. QED BY <1>2, <1>3

LEMMA EachSum ==
  ASSUME NEW t \in Seq(Int)
  PROVE  /\ Len(t) \in Nat /\ DOMAIN t = 1..Len(t)
         /\ BC!Sums(t)[0] = 0
         /\ \A k \in 1..Len(t) :
              k - 1 \in 0..Len(t) /\ BC!Sums(t)[k] = BC!Sums(t)[k - 1] + t[k]
         /\ \A k \in 0..Len(t) : BC!Sums(t)[k] \in Int
<1>. DEFINE s == BC!Sums(t)
            bad == {k \in 0..Len(t) : s[k] \notin Int}
<1>1. Len(t) \in Nat /\ DOMAIN t = 1..Len(t) /\ \A k \in 1..Len(t) : t[k] \in Int
  OBVIOUS
<1>2. \A k \in 0..Len(t) : s[k] = Adding(t, s, k)
  <2>1. AddsUp(t, s, Len(t))
    BY <1>1, SumsAddUp
  <2>. HIDE DEF s
  <2>. QED BY <2>1 DEF AddsUp
<1>. HIDE DEF s
<1>3. s[0] = 0
  BY <1>1, <1>2 DEF Adding
<1>4. \A k \in 1..Len(t) : k - 1 \in 0..Len(t) /\ s[k] = s[k - 1] + t[k]
  BY <1>1, <1>2 DEF Adding
<1>5. bad = {}
  <2>. SUFFICES ASSUME bad # {} PROVE FALSE
    OBVIOUS
  <2>1. PICK k \in bad : \A j \in bad : k <= j
    <3>1. bad \subseteq Nat
      OBVIOUS
    <3>. HIDE DEF bad
    <3>. QED BY <3>1, LeastIn
  <2>2. k \in 1..Len(t) /\ k - 1 \notin bad
    BY <1>3, <2>1
  <2>. QED BY <1>1, <1>4, <2>1, <2>2
<1>. QED BY <1>1, <1>3, <1>4, <1>5 DEF s

(* Terms p times as large have sums p times as large.                      *)
LEMMA SumsScaled ==
  ASSUME NEW t \in Seq(Int), NEW u \in Seq(Int), NEW p \in Int, NEW m \in Nat,
         m <= Len(t), m <= Len(u), \A k \in 1..m : u[k] = p * t[k]
  PROVE  BC!Sums(u)[m] = p * BC!Sums(t)[m]
<1>. DEFINE s == BC!Sums(t)
            r == BC!Sums(u)
            bad == {k \in 0..m : r[k] # p * s[k]}
<1>1. /\ s[0] = 0 /\ r[0] = 0
      /\ \A k \in 1..m : k - 1 \in 0..m /\ s[k] = s[k - 1] + t[k] /\ r[k] = r[k - 1] + u[k]
      /\ \A k \in 0..m : s[k] \in Int
      /\ \A k \in 1..m : t[k] \in Int
  BY EachSum
<1>. HIDE DEF s, r
<1>2. bad = {}
  <2>. SUFFICES ASSUME bad # {} PROVE FALSE
    OBVIOUS
  <2>1. PICK k \in bad : \A j \in bad : k <= j
    <3>1. bad \subseteq Nat
      OBVIOUS
    <3>. HIDE DEF bad
    <3>. QED BY <3>1, LeastIn
  <2>2. p * 0 = 0
    OBVIOUS
  <2>3. k \in 1..m /\ k - 1 \in 0..m /\ k - 1 \notin bad
    BY <1>1, <2>1, <2>2
  <2>4. r[k - 1] = p * s[k - 1]
    BY <2>3
  <2>5. \A x, y \in Int : p * x + p * y = p * (x + y)
    OBVIOUS
  <2>6. s[k - 1] \in Int /\ t[k] \in Int /\ s[k] = s[k - 1] + t[k] /\ r[k] = r[k - 1] + u[k]
    BY <1>1, <2>3
  <2>7. r[k] = p * s[k - 1] + p * t[k]
    BY <2>3, <2>4, <2>6
  <2>8. r[k] = p * s[k]
    BY <2>5, <2>6, <2>7, Zenon
  <2>. QED BY <2>1, <2>8
<1>3. m \in 0..m
  OBVIOUS
<1>. QED BY <1>2, <1>3 DEF s, r

(* The first m sums are of the first m terms.                              *)
LEMMA SumsOfPrefix ==
  ASSUME NEW t \in Seq(Int), NEW u \in Seq(Int), NEW m \in Nat,
         m <= Len(t), m <= Len(u), \A k \in 1..m : u[k] = t[k]
  PROVE  BC!Sums(u)[m] = BC!Sums(t)[m]
<1>1. \A k \in 1..m : t[k] \in Int
  OBVIOUS
<1>2. \A x \in Int : 1 * x = x
  OBVIOUS
<1>3. \A k \in 1..m : u[k] = 1 * t[k]
  BY <1>1, <1>2
<1>4. BC!Sums(u)[m] = 1 * BC!Sums(t)[m]
  <2>1. 1 \in Int
    OBVIOUS
  <2>. QED BY <1>3, <2>1, SumsScaled, Zenon
<1>5. BC!Sums(t)[m] \in Int
  <2>1. m \in 0..Len(t)
    OBVIOUS
  <2>. QED BY <2>1, EachSum
<1>. QED BY <1>2, <1>4, <1>5

-----------------------------------------------------------------------------
(* The machine integers of batch_control.                                  *)
LEMMA BatchCallTypes ==
  /\ IntMax \in Nat /\ NoNumber \notin BC!Decimals
  /\ \A c \in BatchCalls :
       /\ c.details \in Seq(BC!Decimals \cup {NoNumber})
       /\ c.total \in BC!Decimals \cup {NoNumber}
BY BatchCallsTyped DEF BC!CallsTyped

LEMMA BatchWraps ==
  ASSUME NEW n \in Int
  PROVE  BC!Wrap(n) \in Int /\ BC!Fits(BC!Wrap(n)) /\ (BC!Fits(n) => BC!Wrap(n) = n)
<1>. DEFINE w == 2 * (IntMax + 1)
<1>1. w \in Int /\ w > 0 /\ IntMax \in Nat
  BY BatchCallTypes
<1>2. (n + IntMax + 1) % w \in 0..(w - 1)
  <2>. HIDE DEF w
  <2>. QED BY <1>1
<1>3. ASSUME BC!Fits(n) PROVE (n + IntMax + 1) % w = n + IntMax + 1
  <2>1. n + IntMax + 1 \in 0..(w - 1)
    BY <1>1, <1>3 DEF BC!Fits
  <2>. HIDE DEF w
  <2>2. \A x \in 0..(w - 1) : x % w = x
    BY <1>1
  <2>. QED BY <2>1, <2>2
<1>4. BC!Wrap(n) = ((n + IntMax + 1) % w) - IntMax - 1
  BY DEF BC!Wrap
<1>. QED BY <1>1, <1>2, <1>3, <1>4 DEF BC!Fits

(* A decimal in the units of a scale that is fine enough for it.           *)
UnitsAt(d, s) == d.magnitude * BC!TenTo(s - d.scale)
SignedAt(d, s) == IF d.negative THEN -UnitsAt(d, s) ELSE UnitsAt(d, s)

LEMMA UnitsAreInt ==
  ASSUME NEW d \in BC!Decimals, NEW s \in Nat, d.scale <= s
  PROVE  UnitsAt(d, s) \in Nat /\ SignedAt(d, s) \in Int
<1>1. d.magnitude \in Nat /\ s - d.scale \in Nat
  BY DEF BC!Decimals
<1>2. BC!TenTo(s - d.scale) \in Nat
  BY <1>1, TenMore
<1>3. \A x, y \in Nat : x * y \in Nat
  OBVIOUS
<1>4. UnitsAt(d, s) \in Nat
  BY <1>1, <1>2, <1>3 DEF UnitsAt
<1>. QED BY <1>4 DEF SignedAt

(* Moving to a finer scale gives exactly the units, when they fit.         *)
LEMMA MovedExactly ==
  ASSUME NEW d \in BC!Decimals, NEW s \in Nat, d.scale <= s
  PROVE  /\ BC!Moved(d, s) = UnitsAt(d, s)
         /\ BC!SignedAtScale(d, s) \in Int
         /\ BC!MoveFits(d, s) => BC!SignedAtScale(d, s) = SignedAt(d, s)
<1>1. UnitsAt(d, s) \in Nat
  BY UnitsAreInt
<1>2. BC!Moved(d, s) = UnitsAt(d, s)
  BY DEF BC!Moved, UnitsAt
<1>3. BC!Wrap(UnitsAt(d, s)) \in Int
  BY <1>1, BatchWraps
<1>4. BC!SignedAtScale(d, s) \in Int
  BY <1>2, <1>3, BatchWraps DEF BC!SignedAtScale
<1>5. ASSUME BC!MoveFits(d, s) PROVE BC!SignedAtScale(d, s) = SignedAt(d, s)
  <2>1. BC!Fits(UnitsAt(d, s))
    BY <1>2, <1>5 DEF BC!MoveFits
  <2>2. BC!Wrap(UnitsAt(d, s)) = UnitsAt(d, s)
    BY <1>1, <2>1, BatchWraps
  <2>3. BC!Fits(-UnitsAt(d, s))
    BY <1>1, <2>1, BatchCallTypes DEF BC!Fits
  <2>4. BC!Wrap(-UnitsAt(d, s)) = -UnitsAt(d, s)
    BY <1>1, <2>3, BatchWraps
  <2>. QED BY <1>2, <2>2, <2>4 DEF BC!SignedAtScale, SignedAt
<1>. QED BY <1>2, <1>4, <1>5

(* Moving on to a finer scale multiplies the units.                        *)
LEMMA FinerUnits ==
  ASSUME NEW d \in BC!Decimals, NEW s \in Nat, NEW f \in Nat, d.scale <= s, s <= f
  PROVE  SignedAt(d, f) = BC!TenTo(f - s) * SignedAt(d, s)
<1>. DEFINE a == BC!TenTo(f - s)
            b == BC!TenTo(s - d.scale)
            m == d.magnitude
<1>1. /\ f - s \in Nat /\ s - d.scale \in Nat /\ f - d.scale = (f - s) + (s - d.scale)
      /\ m \in Nat
  BY DEF BC!Decimals
<1>2. a \in Nat /\ b \in Nat /\ BC!TenTo(f - d.scale) = a * b
  <2>1. BC!TenTo((f - s) + (s - d.scale)) = BC!TenTo(f - s) * BC!TenTo(s - d.scale)
    BY <1>1, TenTimes
  <2>2. BC!TenTo(f - s) \in Nat /\ BC!TenTo(s - d.scale) \in Nat
    BY <1>1, TenMore
  <2>. QED BY <1>1, <2>1, <2>2
<1>3. UnitsAt(d, f) = m * (a * b) /\ UnitsAt(d, s) = m * b
  BY <1>2 DEF UnitsAt
<1>. HIDE DEF a, b, m
<1>4. m * (a * b) = a * (m * b) /\ -(m * (a * b)) = a * (-(m * b))
  BY <1>1, <1>2, SMT
<1>5. BC!TenTo(f - s) = a
  BY DEF a
<1>. QED BY <1>3, <1>4, <1>5 DEF SignedAt

-----------------------------------------------------------------------------
(* The fields of a batch as numbers of one scale, a field without a number  *)
(* as none.                                                                  *)
Fields == BC!Decimals \cup {NoNumber}
TermsAt(list, s) ==
  [k \in DOMAIN list |-> IF list[k] = NoNumber THEN 0 ELSE SignedAt(list[k], s)]
FineFor(list, s) == \A k \in DOMAIN list : list[k] # NoNumber => list[k].scale <= s

LEMMA TermsAreInts ==
  ASSUME NEW list \in Seq(Fields), NEW s \in Nat, FineFor(list, s)
  PROVE  TermsAt(list, s) \in Seq(Int) /\ Len(TermsAt(list, s)) = Len(list)
<1>1. DOMAIN list = 1..Len(list) /\ Len(list) \in Nat
  OBVIOUS
<1>2. ASSUME NEW k \in DOMAIN list, list[k] # NoNumber PROVE SignedAt(list[k], s) \in Int
  <2>1. list[k] \in BC!Decimals /\ list[k].scale <= s
    BY <1>1, <1>2 DEF Fields, FineFor
  <2>. QED BY <2>1, UnitsAreInt
<1>3. \A k \in 1..Len(list) :
        (IF list[k] = NoNumber THEN 0 ELSE SignedAt(list[k], s)) \in Int
  BY <1>1, <1>2
<1>4. TermsAt(list, s) = [k \in 1..Len(list) |-> IF list[k] = NoNumber THEN 0 ELSE SignedAt(list[k], s)]
  BY <1>1 DEF TermsAt
<1>. QED BY <1>1, <1>3, <1>4

(* The finest scale of a list, and of one number more.                     *)
LEMMA FinestOf ==
  ASSUME NEW list \in Seq(Fields), NEW X, X \subseteq Nat, \A x, y \in X : x = y
  PROVE  LET top == BC!Max({0} \cup BC!Scales(list) \cup X) IN
         /\ top \in Nat /\ top \in {0} \cup BC!Scales(list) \cup X
         /\ FineFor(list, top) /\ \A x \in X : x <= top
<1>. DEFINE J == {k \in DOMAIN list : list[k] # NoNumber}
            scales == [k \in DOMAIN list |-> IF list[k] = NoNumber THEN 0 ELSE list[k].scale]
            S == {0} \cup BC!Scales(list) \cup X
            top == BC!Max(S)
<1>1. DOMAIN list = 1..Len(list) /\ Len(list) \in Nat
  OBVIOUS
<1>2. \A k \in J : list[k].scale \in Nat
  BY <1>1 DEF Fields, BC!Decimals
<1>3. scales \in Seq(Nat) /\ DOMAIN scales = DOMAIN list /\ \A k \in J : scales[k] = list[k].scale
  BY <1>1, <1>2
<1>4. BC!Scales(list) = {list[k].scale : k \in J}
  BY DEF BC!Scales
<1>5. S \subseteq Nat /\ 0 \in S
  <2>1. BC!Scales(list) \subseteq Nat
    <3>. HIDE DEF J
    <3>. QED BY <1>2, <1>4
  <2>2. 0 \in Nat
    OBVIOUS
  <2>. QED BY <2>1, <2>2, Zenon
<1>6. \E g \in {0} \cup BC!Scales(list) : \A y \in {0} \cup BC!Scales(list) : y <= g
  <2>1. CASE J = {}
    <3>1. BC!Scales(list) = {}
      <4>. HIDE DEF J
      <4>. QED BY <1>4, <2>1
    <3>. QED BY <3>1
  <2>2. CASE J # {}
    <3>1. J \subseteq DOMAIN scales
      BY <1>3
    <3>2. PICK j \in J : \A i \in J : scales[i] <= scales[j]
      <4>. HIDE DEF J, scales
      <4>. QED BY <1>3, <2>2, <3>1, GreatestIn
    <3>3. \A i \in J : list[i].scale <= list[j].scale
      <4>. HIDE DEF J, scales
      <4>. QED BY <1>3, <3>2
    <3>4. list[j].scale \in Nat
      BY <1>2
    <3>. HIDE DEF J
    <3>. QED BY <1>4, <3>3, <3>4
  <2>. QED BY <2>1, <2>2
<1>7. \E g \in S : \A y \in S : g >= y
  <2>1. PICK g \in {0} \cup BC!Scales(list) : \A y \in {0} \cup BC!Scales(list) : y <= g
    BY <1>6
  <2>2. g \in Nat /\ \A y \in {0} \cup BC!Scales(list) : y \in Nat
    BY <1>5, <2>1
  <2>3. CASE \A x \in X : x <= g
    BY <2>1, <2>2, <2>3
  <2>4. CASE \E x \in X : ~(x <= g)
    <3>1. PICK x \in X : ~(x <= g)
      BY <2>4
    <3>2. \A y \in X : y = x
      BY <3>1
    <3>3. x \in Nat /\ \A y \in {0} \cup BC!Scales(list) : y <= x
      BY <2>1, <2>2, <3>1
    <3>. QED BY <3>2, <3>3
  <2>. QED BY <2>3, <2>4
<1>8. top \in S /\ \A y \in S : top >= y
  <2>. HIDE DEF S
  <2>. QED BY <1>7 DEF BC!Max
<1>. HIDE DEF top
<1>9. top \in Nat /\ \A x \in X : x <= top
  BY <1>5, <1>8
<1>10. FineFor(list, top)
  <2>. SUFFICES ASSUME NEW k \in DOMAIN list, list[k] # NoNumber PROVE list[k].scale <= top
    BY DEF FineFor
  <2>1. list[k].scale \in BC!Scales(list)
    BY DEF BC!Scales
  <2>2. list[k].scale \in S /\ list[k].scale \in Nat
    BY <1>2, <2>1
  <2>. HIDE DEF S
  <2>. QED BY <1>8, <1>9, <2>2
<1>. QED BY <1>8, <1>9, <1>10 DEF top

(* The amounts found in the first n detail records: their scales are those *)
(* of the records' fields, and at every scale fine enough for the batch     *)
(* they add up to what the fields do.                                      *)
Found(c, list, n) ==
  /\ list \in Seq(BC!Decimals) /\ Len(list) <= n
  /\ BC!Scales(list) = {c.details[k].scale : k \in {k \in 1..n : c.details[k] # NoNumber}}
  /\ \A s \in Nat : FineFor(c.details, s) =>
       FineFor(list, s) /\
       BC!Sums(TermsAt(list, s))[Len(list)] = BC!Sums(TermsAt(c.details, s))[n]

LEMMA OneAppended ==
  ASSUME NEW S, NEW list \in Seq(S), NEW x \in S
  PROVE  /\ Append(list, x) \in Seq(S) /\ Len(Append(list, x)) = Len(list) + 1
         /\ Len(list) \in Nat /\ DOMAIN list = 1..Len(list)
         /\ DOMAIN Append(list, x) = 1..(Len(list) + 1)
         /\ DOMAIN Append(list, x) = DOMAIN list \cup {Len(list) + 1}
         /\ \A k \in 1..Len(list) : Append(list, x)[k] = list[k]
         /\ Append(list, x)[Len(list) + 1] = x
<1>1. 1..(Len(list) + 1) = (1..Len(list)) \cup {Len(list) + 1}
  OBVIOUS
<1>. QED BY <1>1

LEMMA NothingFound ==
  ASSUME NEW c \in BatchCalls
  PROVE  Found(c, <<>>, 0)
<1>1. c.details \in Seq(Fields)
  BY BatchCallTypes DEF Fields
<1>2. <<>> \in Seq(BC!Decimals) /\ Len(<<>>) = 0 /\ DOMAIN <<>> = {}
  OBVIOUS
<1>3. BC!Scales(<<>>) = {c.details[k].scale : k \in {k \in 1..0 : c.details[k] # NoNumber}}
  <2>1. {k \in 1..0 : c.details[k] # NoNumber} = {} /\ {k \in DOMAIN <<>> : <<>>[k] # NoNumber} = {}
    OBVIOUS
  <2>. QED BY <2>1 DEF BC!Scales
<1>4. ASSUME NEW s \in Nat, FineFor(c.details, s)
      PROVE  FineFor(<<>>, s) /\
             BC!Sums(TermsAt(<<>>, s))[Len(<<>>)] = BC!Sums(TermsAt(c.details, s))[0]
  <2>1. FineFor(<<>>, s)
    BY <1>2 DEF FineFor
  <2>2. <<>> \in Seq(Fields)
    OBVIOUS
  <2>3. TermsAt(<<>>, s) \in Seq(Int) /\ TermsAt(c.details, s) \in Seq(Int)
    BY <1>1, <1>4, <2>1, <2>2, TermsAreInts
  <2>4. BC!Sums(TermsAt(<<>>, s))[0] = 0 /\ BC!Sums(TermsAt(c.details, s))[0] = 0
    BY <2>3, EachSum
  <2>. QED BY <1>2, <2>1, <2>4
<1>. QED BY <1>2, <1>3, <1>4 DEF Found

LEMMA OneDetailMore ==
  ASSUME NEW c \in BatchCalls, NEW list, NEW n \in Nat, n + 1 \in DOMAIN c.details,
         Found(c, list, n)
  PROVE  LET d == c.details[n + 1]
         IN  Found(c, IF d = NoNumber THEN list ELSE Append(list, d), n + 1)
<1>. DEFINE d == c.details[n + 1]
            more == IF d = NoNumber THEN list ELSE Append(list, d)
<1>1. /\ c.details \in Seq(Fields) /\ Len(c.details) \in Nat /\ n + 1 \in 1..Len(c.details)
      /\ DOMAIN c.details = 1..Len(c.details)
  BY BatchCallTypes DEF Fields
<1>2. /\ list \in Seq(BC!Decimals) /\ Len(list) <= n /\ Len(list) \in Nat
      /\ list \in Seq(Fields) /\ DOMAIN list = 1..Len(list)
  <2>1. list \in Seq(BC!Decimals) /\ Len(list) <= n
    BY DEF Found
  <2>2. Seq(BC!Decimals) \subseteq Seq(Fields)
    <3>1. \A S, T : S \subseteq T => Seq(S) \subseteq Seq(T)
      OBVIOUS
    <3>2. BC!Decimals \subseteq Fields
      BY DEF Fields
    <3>. QED BY <3>1, <3>2, Zenon
  <2>3. list \in Seq(Fields)
    BY <2>1, <2>2
  <2>4. Len(list) \in Nat /\ DOMAIN list = 1..Len(list)
    BY <2>1
  <2>. QED BY <2>1, <2>3, <2>4, Zenon
<1>3. d \in Fields /\ (d # NoNumber => d \in BC!Decimals)
  <2>1. d \in Fields
    BY <1>1
  <2>. QED BY <2>1 DEF Fields
<1>4. 1..(n + 1) = (1..n) \cup {n + 1}
  OBVIOUS
<1>. HIDE DEF d
<1>8. d # NoNumber =>
        /\ Append(list, d) \in Seq(BC!Decimals) /\ Append(list, d) \in Seq(Fields)
        /\ Len(Append(list, d)) = Len(list) + 1 /\ DOMAIN Append(list, d) = 1..(Len(list) + 1)
        /\ DOMAIN Append(list, d) = DOMAIN list \cup {Len(list) + 1}
        /\ \A k \in DOMAIN list : Append(list, d)[k] = list[k]
        /\ Append(list, d)[Len(list) + 1] = d
  <2>. SUFFICES ASSUME d # NoNumber
                PROVE  /\ Append(list, d) \in Seq(BC!Decimals) /\ Append(list, d) \in Seq(Fields)
                       /\ Len(Append(list, d)) = Len(list) + 1
                       /\ DOMAIN Append(list, d) = 1..(Len(list) + 1)
                       /\ DOMAIN Append(list, d) = DOMAIN list \cup {Len(list) + 1}
                       /\ \A k \in DOMAIN list : Append(list, d)[k] = list[k]
                       /\ Append(list, d)[Len(list) + 1] = d
    OBVIOUS
  <2>1. list \in Seq(BC!Decimals) /\ list \in Seq(Fields) /\ d \in BC!Decimals /\ d \in Fields
    BY <1>2, <1>3
  <2>2. Append(list, d) \in Seq(Fields)
    BY <2>1, OneAppended
  <2>3. /\ Append(list, d) \in Seq(BC!Decimals) /\ Len(Append(list, d)) = Len(list) + 1
        /\ DOMAIN list = 1..Len(list)
        /\ DOMAIN Append(list, d) = 1..(Len(list) + 1)
        /\ DOMAIN Append(list, d) = DOMAIN list \cup {Len(list) + 1}
        /\ \A k \in 1..Len(list) : Append(list, d)[k] = list[k]
        /\ Append(list, d)[Len(list) + 1] = d
    BY <2>1, OneAppended
  <2>. QED BY <2>2, <2>3
<1>5. /\ more \in Seq(BC!Decimals) /\ Len(more) <= n + 1 /\ Len(more) \in Nat
      /\ more \in Seq(Fields) /\ DOMAIN more = 1..Len(more)
  <2>1. CASE d = NoNumber
    <3>1. more = list
      BY <2>1
    <3>2. Len(list) <= n + 1
      BY <1>2
    <3>. HIDE DEF more
    <3>. QED BY <1>2, <3>1, <3>2, Zenon
  <2>2. CASE d # NoNumber
    <3>0. more = Append(list, d)
      BY <2>2
    <3>. HIDE DEF more
    <3>1. /\ Append(list, d) \in Seq(BC!Decimals) /\ Append(list, d) \in Seq(Fields)
          /\ Len(Append(list, d)) = Len(list) + 1 /\ DOMAIN Append(list, d) = 1..(Len(list) + 1)
      BY <1>8, <2>2
    <3>2. Len(list) + 1 \in Nat /\ Len(list) + 1 <= n + 1
      BY <1>2
    <3>. QED BY <3>0, <3>1, <3>2, Zenon
  <2>. QED BY <2>1, <2>2
<1>6. BC!Scales(more) = {c.details[k].scale : k \in {k \in 1..(n + 1) : c.details[k] # NoNumber}}
  <2>1. BC!Scales(list) = {c.details[k].scale : k \in {k \in 1..n : c.details[k] # NoNumber}}
    BY DEF Found
  <2>2. {c.details[k].scale : k \in {k \in 1..(n + 1) : c.details[k] # NoNumber}}
          = BC!Scales(list) \cup (IF d = NoNumber THEN {} ELSE {d.scale})
    BY <1>4, <2>1 DEF d
  <2>3. CASE d = NoNumber
    BY <2>2, <2>3
  <2>4. CASE d # NoNumber
    <3>1. \A k \in DOMAIN list : Append(list, d)[k] = list[k]
      BY <1>8, <2>4
    <3>2. Append(list, d)[Len(list) + 1] = d /\ DOMAIN Append(list, d) = DOMAIN list \cup {Len(list) + 1}
      BY <1>8, <2>4
    <3>3. BC!Scales(Append(list, d)) = BC!Scales(list) \cup {d.scale}
      BY <2>4, <3>1, <3>2 DEF BC!Scales
    <3>. QED BY <2>2, <2>4, <3>3
  <2>. QED BY <2>3, <2>4
<1>7. ASSUME NEW s \in Nat, FineFor(c.details, s)
      PROVE  FineFor(more, s) /\
             BC!Sums(TermsAt(more, s))[Len(more)] = BC!Sums(TermsAt(c.details, s))[n + 1]
  <2>. DEFINE t == TermsAt(c.details, s)
              u == TermsAt(list, s)
              v == TermsAt(more, s)
  <2>1. FineFor(list, s) /\ BC!Sums(u)[Len(list)] = BC!Sums(t)[n]
    BY <1>7 DEF Found
  <2>2. d # NoNumber => d.scale <= s
    BY <1>1, <1>7 DEF FineFor, d
  <2>3. FineFor(more, s)
    <3>1. CASE d = NoNumber
      BY <2>1, <3>1
    <3>2. CASE d # NoNumber
      <4>1. /\ \A k \in DOMAIN list : Append(list, d)[k] = list[k]
            /\ Append(list, d)[Len(list) + 1] = d
            /\ DOMAIN Append(list, d) = DOMAIN list \cup {Len(list) + 1}
        BY <1>8, <3>2
      <4>. QED BY <2>1, <2>2, <3>2, <4>1 DEF FineFor
    <3>. QED BY <3>1, <3>2
  <2>4. /\ t \in Seq(Int) /\ Len(t) = Len(c.details)
        /\ u \in Seq(Int) /\ Len(u) = Len(list)
        /\ v \in Seq(Int) /\ Len(v) = Len(more)
    BY <1>1, <1>2, <1>5, <1>7, <2>1, <2>3, TermsAreInts
  <2>5. t[n + 1] = IF d = NoNumber THEN 0 ELSE SignedAt(d, s)
    BY <1>1 DEF TermsAt, d
  <2>6. CASE d = NoNumber
    <3>1. BC!Sums(t)[n + 1] = BC!Sums(t)[n] + t[n + 1] /\ BC!Sums(t)[n] \in Int
      <4>1. n \in 0..Len(t) /\ n + 1 \in 1..Len(t) /\ (n + 1) - 1 = n
        <5>1. Len(t) = Len(c.details)
          BY <2>4
        <5>. HIDE DEF t
        <5>. QED BY <1>1, <5>1
      <4>. HIDE DEF t
      <4>. QED BY <2>4, <4>1, EachSum
    <3>. HIDE DEF t, u
    <3>2. BC!Sums(t)[n + 1] = BC!Sums(t)[n]
      BY <2>5, <2>6, <3>1
    <3>3. more = list
      BY <2>6
    <3>. QED BY <2>1, <2>3, <3>2, <3>3 DEF t, u
  <2>7. CASE d # NoNumber
    <3>0. more = Append(list, d)
      BY <2>7
    <3>1. Len(more) = Len(list) + 1 /\ Len(list) + 1 \in 1..Len(more)
      <4>1. Len(Append(list, d)) = Len(list) + 1
        BY <1>2, <1>8, <2>7
      <4>2. Len(list) \in Nat
        BY <1>2
      <4>. HIDE DEF more
      <4>. QED BY <3>0, <4>1, <4>2
    <3>2. \A k \in 1..Len(list) : v[k] = u[k]
      <4>1. \A k \in 1..Len(list) : more[k] = list[k] /\ k \in DOMAIN more /\ k \in DOMAIN list
        <5>1. /\ \A k \in 1..Len(list) : Append(list, d)[k] = list[k]
              /\ DOMAIN Append(list, d) = DOMAIN list \cup {Len(list) + 1}
          BY <1>2, <1>8, <2>7
        <5>. HIDE DEF more
        <5>. QED BY <1>2, <3>0, <5>1, Zenon
      <4>. QED BY <4>1 DEF TermsAt
    <3>3. v[Len(list) + 1] = SignedAt(d, s)
      <4>1. more[Len(list) + 1] = d /\ Len(list) + 1 \in DOMAIN more
        <5>1. /\ Append(list, d)[Len(list) + 1] = d
              /\ DOMAIN Append(list, d) = DOMAIN list \cup {Len(list) + 1}
          BY <1>2, <1>8, <2>7
        <5>. HIDE DEF more
        <5>. QED BY <3>0, <5>1, Zenon
      <4>. QED BY <2>7, <4>1 DEF TermsAt
    <3>. HIDE DEF t, u, v, more
    <3>8. Len(list) \in Nat
      BY <1>2
    <3>4. BC!Sums(v)[Len(list)] = BC!Sums(u)[Len(list)]
      <4>1. Len(list) <= Len(u) /\ Len(list) <= Len(v)
        BY <2>4, <3>1, <3>8
      <4>. QED BY <2>4, <3>2, <3>8, <4>1, SumsOfPrefix, Zenon
    <3>5. BC!Sums(v)[Len(list) + 1] = BC!Sums(v)[Len(list)] + v[Len(list) + 1]
      <4>1. Len(list) + 1 \in 1..Len(v) /\ (Len(list) + 1) - 1 = Len(list)
        BY <2>4, <3>1, <3>8
      <4>. QED BY <2>4, <4>1, EachSum
    <3>6. BC!Sums(t)[n + 1] = BC!Sums(t)[n] + t[n + 1]
      <4>1. n + 1 \in 1..Len(t) /\ (n + 1) - 1 = n
        BY <1>1, <2>4
      <4>. QED BY <2>4, <4>1, EachSum
    <3>7. BC!Sums(v)[Len(more)] = BC!Sums(t)[n + 1]
      BY <2>1, <2>5, <2>7, <3>1, <3>3, <3>4, <3>5, <3>6
    <3>. QED BY <2>3, <3>7 DEF t, v, more
  <2>. QED BY <2>6, <2>7
<1>. QED BY <1>5, <1>6, <1>7 DEF Found, d

(* Of a whole batch the amounts found are summed at a scale no finer than   *)
(* that of all its numbers. When nothing overflows, the exact total is that *)
(* sum in the finer units.                                                 *)
LEMMA ExactlyAdded ==
  ASSUME call \in BatchCalls, Found(call, amounts, Len(call.details))
  PROVE  /\ BC!SumScale \in Nat /\ BC!Finest \in Nat /\ BC!SumScale <= BC!Finest
         /\ call.total # NoNumber =>
              /\ call.total \in BC!Decimals /\ call.total.scale <= BC!Finest
              /\ BC!Finest \in {BC!SumScale, call.total.scale}
         /\ BC!Total(BC!Terms) \in Int
         /\ BC!SumFits =>
              /\ BC!Fits(BC!Total(BC!Terms))
              /\ BC!ExactTotal = BC!TenTo(BC!Finest - BC!SumScale) * BC!Total(BC!Terms)
<1>. DEFINE S == BC!SumScale
            F == BC!Finest
            X == IF call.total = NoNumber THEN {} ELSE {call.total.scale}
            len == Len(amounts)
            t == TermsAt(amounts, S)
            u == TermsAt(amounts, F)
<1>1. /\ call.details \in Seq(Fields) /\ Len(call.details) \in Nat
      /\ DOMAIN call.details = 1..Len(call.details)
      /\ call.total # NoNumber => call.total \in BC!Decimals /\ call.total.scale \in Nat
  BY BatchCallTypes DEF Fields, BC!Decimals
<1>2. amounts \in Seq(BC!Decimals) /\ len \in Nat /\ DOMAIN amounts = 1..len
  BY DEF Found
<1>3. amounts \in Seq(Fields) /\ \A k \in DOMAIN amounts : amounts[k] # NoNumber
  BY <1>2, BatchCallTypes DEF Fields
<1>4. BC!Scales(amounts) = BC!Scales(call.details)
  BY <1>1 DEF Found, BC!Scales
<1>5. S \in Nat /\ S \in {0} \cup BC!Scales(amounts) /\ FineFor(amounts, S)
  <2>1. S = BC!Max({0} \cup BC!Scales(amounts) \cup {})
    BY DEF BC!SumScale
  <2>2. {} \subseteq Nat /\ \A x, y \in {} : x = y
    OBVIOUS
  <2>. HIDE DEF S
  <2>. QED BY <1>3, <2>1, <2>2, FinestOf
<1>6. /\ F \in Nat /\ F \in {0} \cup BC!Scales(call.details) \cup X
      /\ FineFor(call.details, F) /\ \A x \in X : x <= F
  <2>1. F = BC!Max({0} \cup BC!Scales(call.details) \cup X)
    BY DEF BC!Finest
  <2>2. X \subseteq Nat /\ \A x, y \in X : x = y
    BY <1>1
  <2>. HIDE DEF F, X
  <2>. QED BY <1>1, <2>1, <2>2, FinestOf
<1>. HIDE DEF S, F
<1>7. S <= F
  <2>1. \A x \in BC!Scales(call.details) : x <= F
    BY <1>6 DEF BC!Scales, FineFor
  <2>. QED BY <1>4, <1>5, <1>6, <2>1
<1>8. call.total # NoNumber => call.total.scale <= F /\ F \in {S, call.total.scale}
  <2>. SUFFICES ASSUME call.total # NoNumber
                PROVE  call.total.scale <= F /\ F \in {S, call.total.scale}
    OBVIOUS
  <2>1. X = {call.total.scale}
    OBVIOUS
  <2>2. \A x \in BC!Scales(amounts) : x <= S
    BY <1>5 DEF BC!Scales, FineFor
  <2>3. F \in {0} \cup BC!Scales(amounts) => F <= S
    BY <1>5, <2>2
  <2>. HIDE DEF X
  <2>. QED BY <1>4, <1>5, <1>6, <1>7, <2>1, <2>3
<1>9. \A k \in 1..len : BC!SignedAtScale(amounts[k], S) \in Int /\ amounts[k].scale <= S
  <2>. SUFFICES ASSUME NEW k \in 1..len
                PROVE  BC!SignedAtScale(amounts[k], S) \in Int /\ amounts[k].scale <= S
    OBVIOUS
  <2>1. amounts[k] \in BC!Decimals /\ amounts[k].scale <= S
    BY <1>2, <1>3, <1>5 DEF FineFor
  <2>. QED BY <1>5, <2>1, MovedExactly
<1>10. BC!Terms \in Seq(Int) /\ Len(BC!Terms) = len /\ BC!Terms = [k \in 1..len |-> BC!SignedAtScale(amounts[k], S)]
  <2>1. BC!Terms = [k \in 1..len |-> BC!SignedAtScale(amounts[k], S)]
    BY <1>2 DEF BC!Terms, S
  <2>. QED BY <1>2, <1>9, <2>1
<1>11. BC!Total(BC!Terms) \in Int
  <2>1. len \in 0..len
    BY <1>2
  <2>. QED BY <1>10, <2>1, EachSum DEF BC!Total
<1>12. ASSUME BC!SumFits
       PROVE  /\ BC!Fits(BC!Total(BC!Terms))
              /\ BC!ExactTotal = BC!TenTo(F - S) * BC!Total(BC!Terms)
  <2>1. BC!Fits(BC!Total(BC!Terms))
    <3>1. CASE len = 0
      <4>1. BC!Total(BC!Terms) = 0
        BY <1>10, <3>1, EachSum DEF BC!Total
      <4>. QED BY <4>1, BatchCallTypes DEF BC!Fits
    <3>2. CASE len # 0
      <4>1. len \in DOMAIN BC!Terms
        BY <1>2, <1>10, <3>2
      <4>. QED BY <1>10, <1>12, <4>1 DEF BC!SumFits, BC!Total
    <3>. QED BY <3>1, <3>2
  <2>2. BC!Terms = t
    <3>1. ASSUME NEW k \in 1..len PROVE BC!SignedAtScale(amounts[k], S) = SignedAt(amounts[k], S)
      <4>1. BC!MoveFits(amounts[k], S)
        BY <1>2, <1>12 DEF BC!SumFits, S
      <4>2. amounts[k] \in BC!Decimals /\ amounts[k].scale <= S
        BY <1>2, <1>9
      <4>. QED BY <1>5, <4>1, <4>2, MovedExactly
    <3>2. t = [k \in 1..len |-> SignedAt(amounts[k], S)]
      BY <1>2, <1>3 DEF TermsAt
    <3>. HIDE DEF t
    <3>. QED BY <1>10, <3>1, <3>2
  <2>3. FineFor(amounts, F)
    BY <1>6 DEF Found
  <2>4. t \in Seq(Int) /\ u \in Seq(Int) /\ Len(t) = len /\ Len(u) = len
    BY <1>3, <1>5, <1>6, <2>3, TermsAreInts
  <2>5. ASSUME NEW k \in 1..len PROVE u[k] = BC!TenTo(F - S) * t[k]
    <3>1. amounts[k] \in BC!Decimals /\ amounts[k].scale <= S
      BY <1>2, <1>9
    <3>2. u[k] = SignedAt(amounts[k], F) /\ t[k] = SignedAt(amounts[k], S)
      BY <1>2, <1>3 DEF TermsAt
    <3>. HIDE DEF t, u
    <3>. QED BY <1>5, <1>6, <1>7, <3>1, <3>2, FinerUnits
  <2>6. BC!TenTo(F - S) \in Int
    <3>1. F - S \in Nat
      BY <1>5, <1>6, <1>7
    <3>. QED BY <3>1, TenMore
  <2>7. BC!Sums(u)[len] = BC!TenTo(F - S) * BC!Sums(t)[len]
    <3>1. len <= Len(t) /\ len <= Len(u)
      BY <1>2, <2>4
    <3>. HIDE DEF t, u, len
    <3>. QED BY <1>2, <2>4, <2>5, <2>6, <3>1, SumsScaled
  <2>8. BC!ExactTotal = BC!Sums(u)[len]
    <3>1. BC!Sums(u)[len] = BC!Sums(TermsAt(call.details, F))[Len(call.details)]
      BY <1>6 DEF Found
    <3>2. TermsAt(call.details, F) =
            [k \in DOMAIN call.details |->
               IF call.details[k] = NoNumber THEN 0 ELSE BC!Exact(call.details[k])]
      BY DEF TermsAt, SignedAt, UnitsAt, BC!Exact, F
    <3>3. Len(TermsAt(call.details, F)) = Len(call.details)
      BY <1>1, <1>6, TermsAreInts
    <3>. QED BY <3>1, <3>2, <3>3 DEF BC!ExactTotal, BC!Total
  <2>9. BC!Total(BC!Terms) = BC!Sums(t)[len]
    BY <1>10, <2>2 DEF BC!Total
  <2>. QED BY <2>1, <2>7, <2>8, <2>9
<1>. QED BY <1>1, <1>5, <1>6, <1>7, <1>8, <1>11, <1>12 DEF S, F

LEMMA GreaterOfTwo ==
  ASSUME NEW a \in Nat, NEW b \in Nat, NEW g \in {a, b}, a <= g, b <= g
  PROVE  BC!Max({a, b}) = g
<1>1. \E x \in {a, b} : \A y \in {a, b} : x >= y
  OBVIOUS
<1>2. BC!Max({a, b}) \in {a, b} /\ \A y \in {a, b} : BC!Max({a, b}) >= y
  BY <1>1 DEF BC!Max
<1>. QED BY <1>2

LEMMA UnitsFit ==
  ASSUME NEW d \in BC!Decimals, NEW s \in Nat, d.scale <= s,
         BC!Fits(SignedAt(d, s)), SignedAt(d, s) # -IntMax - 1, BC!Fits(BC!TenTo(s))
  PROVE  BC!MoveFits(d, s)
<1>1. UnitsAt(d, s) \in Nat /\ BC!Moved(d, s) = UnitsAt(d, s)
  BY UnitsAreInt, MovedExactly
<1>2. BC!Fits(UnitsAt(d, s))
  BY <1>1, BatchCallTypes DEF BC!Fits, SignedAt
<1>3. BC!Fits(BC!TenTo(s - d.scale))
  <2>1. s - d.scale \in Nat /\ d.scale \in Nat /\ (s - d.scale) + d.scale = s
    BY DEF BC!Decimals
  <2>2. /\ BC!TenTo(s - d.scale) <= BC!TenTo(s)
        /\ BC!TenTo(s - d.scale) \in Nat /\ BC!TenTo(s) \in Nat
    BY <2>1, TenTimes, TenMore
  <2>. QED BY <2>2, BatchCallTypes DEF BC!Fits
<1>. QED BY <1>1, <1>2, <1>3 DEF BC!MoveFits

(* What the comparison with the trailer says of a sum without overflow.    *)
LEMMA VerdictAgrees ==
  ASSUME call \in BatchCalls, Found(call, amounts, Len(call.details)),
         observed = BC!Printed, BC!SumFits
  PROVE  /\ BC!CompareFits => (BC!TotalMatch => BC!TotalsAgree)
         /\ BC!NumbersFit => BC!CompareFits /\ (BC!TotalMatch <=> BC!TotalsAgree)
<1>. DEFINE S == BC!SumScale
            F == BC!Finest
            T == BC!Total(BC!Terms)
            P == BC!TenTo(F - S)
            least == -IntMax - 1
<1>1. /\ S \in Nat /\ F \in Nat /\ S <= F
      /\ T \in Int /\ BC!Fits(T) /\ BC!ExactTotal = P * T
      /\ call.total # NoNumber =>
           call.total \in BC!Decimals /\ call.total.scale <= F /\ F \in {S, call.total.scale}
  BY ExactlyAdded
<1>2. IntMax \in Nat /\ NoNumber \notin BC!Decimals
  BY BatchCallTypes
<1>3. BC!Wrap(T) = T
  BY <1>1, BatchWraps
<1>4. P \in Nat \ {0}
  <2>1. F - S \in Nat
    BY <1>1
  <2>. QED BY <2>1, TenMore
<1>5. observed = IF T = least THEN NoNumber
                 ELSE [negative |-> T < 0, magnitude |-> IF T < 0 THEN -T ELSE T, scale |-> S]
  BY <1>3 DEF BC!Printed, BC!Decimal
<1>6. call.total # NoNumber => BC!Exact(call.total) = SignedAt(call.total, F)
  BY DEF BC!Exact, SignedAt, UnitsAt
<1>. HIDE DEF S, F, T, P
<1>7. CASE T = least
  <2>1. ~BC!TotalMatch
    BY <1>5, <1>7 DEF BC!TotalMatch, BC!BothNumbers
  <2>2. ~BC!NumbersFit
    <3>1. \A x \in Nat \ {0}, y \in Nat : x * (-y - 1) <= -y - 1
      OBVIOUS
    <3>2. P * T <= least
      BY <1>2, <1>4, <1>7, <3>1
    <3>3. P * T \in Int
      BY <1>1, <1>4
    <3>. QED BY <1>1, <1>2, <3>2, <3>3 DEF BC!NumbersFit, BC!Fits
  <2>. QED BY <2>1, <2>2
<1>8. CASE T # least /\ call.total = NoNumber
  BY <1>8 DEF BC!TotalMatch, BC!BothNumbers, BC!TotalsAgree, BC!CompareFits
<1>9. CASE T # least /\ call.total # NoNumber
  <2>1. /\ observed \in BC!Decimals /\ observed.scale = S
        /\ observed.negative = (T < 0) /\ observed.magnitude = IF T < 0 THEN -T ELSE T
    <3>1. (IF T < 0 THEN -T ELSE T) \in 0..IntMax
      BY <1>1, <1>2, <1>9 DEF BC!Fits
    <3>2. (T < 0) \in BOOLEAN
      OBVIOUS
    <3>. QED BY <1>1, <1>5, <1>9, <3>1, <3>2 DEF BC!Decimals
  <2>2. SignedAt(observed, F) = BC!ExactTotal
    <3>1. \A x \in Int, y \in Nat :
            (IF x < 0 THEN -((IF x < 0 THEN -x ELSE x) * y) ELSE (IF x < 0 THEN -x ELSE x) * y)
              = y * x
      OBVIOUS
    <3>2. SignedAt(observed, F) =
            IF T < 0 THEN -((IF T < 0 THEN -T ELSE T) * P) ELSE (IF T < 0 THEN -T ELSE T) * P
      BY <2>1 DEF SignedAt, UnitsAt, P
    <3>3. SignedAt(observed, F) = P * T
      BY <1>1, <1>4, <3>1, <3>2, Zenon
    <3>. QED BY <1>1, <3>3
  <2>3. observed # NoNumber /\ BC!BothNumbers /\ BC!CommonScale = F
    <3>1. observed # NoNumber
      BY <1>2, <2>1
    <3>2. call.total.scale \in Nat
      BY <1>1, <1>9 DEF BC!Decimals
    <3>3. BC!Max({call.total.scale, S}) = F
      BY <1>1, <1>9, <3>2, GreaterOfTwo
    <3>. QED BY <1>9, <2>1, <3>1, <3>3 DEF BC!BothNumbers, BC!CommonScale
  <2>4. BC!CompareFits <=> BC!MoveFits(call.total, F) /\ BC!MoveFits(observed, F)
    BY <2>3 DEF BC!CompareFits
  <2>5. BC!CompareFits => (BC!TotalMatch <=> BC!TotalsAgree)
    <3>. SUFFICES ASSUME BC!CompareFits PROVE BC!TotalMatch <=> BC!TotalsAgree
      OBVIOUS
    <3>1. /\ BC!SignedAtScale(call.total, F) = SignedAt(call.total, F)
          /\ BC!SignedAtScale(observed, F) = SignedAt(observed, F)
      BY <1>1, <1>9, <2>1, <2>4, MovedExactly
    <3>2. BC!TotalMatch <=> SignedAt(call.total, F) = BC!ExactTotal
      BY <2>2, <2>3, <3>1 DEF BC!TotalMatch
    <3>. QED BY <1>6, <1>9, <3>2 DEF BC!TotalsAgree
  <2>6. ASSUME BC!NumbersFit PROVE BC!CompareFits
    <3>1. BC!Fits(BC!TenTo(F))
      BY <2>6 DEF BC!NumbersFit, F
    <3>2. BC!MoveFits(call.total, F)
      BY <1>1, <1>6, <1>9, <2>6, <3>1, UnitsFit DEF BC!NumbersFit
    <3>3. BC!MoveFits(observed, F)
      BY <1>1, <2>1, <2>2, <2>6, <3>1, UnitsFit DEF BC!NumbersFit
    <3>. QED BY <2>4, <3>2, <3>3
  <2>. QED BY <2>5, <2>6
<1>. QED BY <1>7, <1>8, <1>9

-----------------------------------------------------------------------------
(* A batch while it is read, summed and compared.                          *)
BatchInv ==
  /\ call \in BatchCalls
  /\ pc \in {"details", "summing", "trailer", "done", "error", "panic"}
  /\ idx \in 0..Len(call.details)
  /\ Found(call, amounts, idx)
  /\ observed # NoNumber => observed.magnitude \in 0..IntMax
  /\ verdict \in [count : BOOLEAN, total : BOOLEAN]
  /\ pc \notin {"details", "error"} => idx = Len(call.details)
  /\ pc \in {"trailer", "done"} =>
       observed = BC!Printed /\ (BC!OverflowChecks => BC!SumFits)
  /\ pc = "panic" /\ BC!SumFits => observed = BC!Printed /\ ~BC!CompareFits
  /\ pc = "done" =>
       verdict.total = BC!TotalMatch /\ (BC!OverflowChecks => BC!CompareFits)

LEMMA BatchStart == BC!Init => BatchInv
<1>. SUFFICES ASSUME BC!Init PROVE BatchInv
  OBVIOUS
<1>1. call \in BatchCalls /\ Len(call.details) \in Nat
  BY BatchCallTypes DEF BC!Init
<1>2. Found(call, <<>>, 0)
  BY <1>1, NothingFound
<1>. QED BY <1>1, <1>2 DEF BC!Init, BatchInv

LEMMA PrintedFits ==
  ASSUME call \in BatchCalls, Found(call, amounts, Len(call.details)), BC!Printed # NoNumber
  PROVE  BC!Printed.magnitude \in 0..IntMax
<1>. DEFINE W == BC!Wrap(BC!Total(BC!Terms))
<1>1. W \in Int /\ BC!Fits(W) /\ IntMax \in Nat
  BY ExactlyAdded, BatchWraps, BatchCallTypes
<1>2. BC!Printed = IF W = -IntMax - 1 THEN NoNumber
                   ELSE [negative |-> W < 0, magnitude |-> IF W < 0 THEN -W ELSE W,
                         scale |-> BC!SumScale]
  BY DEF BC!Printed, BC!Decimal
<1>. HIDE DEF W
<1>3. W # -IntMax - 1
  BY <1>2
<1>4. BC!Printed.magnitude = IF W < 0 THEN -W ELSE W
  BY <1>2, <1>3
<1>. QED BY <1>1, <1>3, <1>4 DEF BC!Fits

LEMMA BatchKept ==
  ASSUME UNCHANGED <<call, amounts>>
  PROVE  /\ BC!SumFits' = BC!SumFits /\ BC!Printed' = BC!Printed
         /\ BC!OverflowChecks' = BC!OverflowChecks
         /\ observed' = observed =>
              BC!CompareFits' = BC!CompareFits /\ BC!TotalMatch' = BC!TotalMatch
<1>1. /\ BC!SumScale' = BC!SumScale /\ BC!Terms' = BC!Terms
  BY DEF BC!SumScale, BC!Terms
<1>2. BC!SumFits' = BC!SumFits /\ BC!Printed' = BC!Printed
  BY <1>1 DEF BC!SumFits, BC!Printed
<1>3. BC!OverflowChecks' = BC!OverflowChecks
  BY DEF BC!OverflowChecks
<1>4. observed' = observed => BC!CompareFits' = BC!CompareFits /\ BC!TotalMatch' = BC!TotalMatch
  BY DEF BC!CompareFits, BC!TotalMatch, BC!BothNumbers, BC!CommonScale
<1>. QED BY <1>2, <1>3, <1>4

LEMMA BatchStep == BatchInv /\ BC!Next => BatchInv'
<1>. SUFFICES ASSUME BatchInv, BC!Next PROVE BatchInv'
  OBVIOUS
<1>0. /\ call \in BatchCalls /\ Len(call.details) \in Nat
      /\ idx \in 0..Len(call.details) /\ Found(call, amounts, idx)
      /\ DOMAIN call.details = 1..Len(call.details)
  BY BatchCallTypes DEF BatchInv
<1>1. CASE BC!ReadDetail
  <2>1. idx \in Nat /\ idx + 1 \in DOMAIN call.details
    BY <1>0, <1>1 DEF BC!ReadDetail
  <2>2. Found(call, amounts', idx + 1)
    BY <1>0, <1>1, <2>1, OneDetailMore DEF BC!ReadDetail
  <2>3. /\ call' = call /\ idx' = idx + 1 /\ observed' = observed /\ verdict' = verdict
        /\ pc' = IF idx + 1 = Len(call.details) THEN "summing" ELSE pc
        /\ pc = "details"
    BY <1>1 DEF BC!ReadDetail
  <2>4. idx + 1 \in 0..Len(call.details)
    BY <1>0, <2>1
  <2>. QED BY <1>0, <2>2, <2>3, <2>4 DEF BatchInv
<1>2. ASSUME UNCHANGED <<call, idx, amounts>>
      PROVE  /\ call' \in BatchCalls /\ idx' \in 0..Len(call'.details)
             /\ Found(call', amounts', idx')
  BY <1>0, <1>2
<1>3. CASE BC!RefuseDetail
  BY <1>2, <1>3 DEF BC!RefuseDetail, BatchInv
<1>4. CASE BC!NoDetails
  <2>1. Len(call.details) = 0
    BY <1>4 DEF BC!NoDetails
  <2>. QED BY <1>0, <1>2, <1>4, <2>1 DEF BC!NoDetails, BatchInv
<1>5. CASE BC!PanicSum
  <2>1. BC!SumFits' = BC!SumFits
    BY <1>5, BatchKept DEF BC!PanicSum
  <2>. QED BY <1>2, <1>5, <2>1 DEF BC!PanicSum, BatchInv
<1>6. CASE BC!Sum
  <2>1. /\ BC!SumFits' = BC!SumFits /\ BC!Printed' = BC!Printed
        /\ BC!OverflowChecks' = BC!OverflowChecks
    BY <1>6, BatchKept DEF BC!Sum
  <2>2. pc = "summing" /\ idx = Len(call.details)
    BY <1>6 DEF BC!Sum, BatchInv
  <2>3. observed' = BC!Printed /\ (BC!OverflowChecks => BC!SumFits) /\ pc' = "trailer"
        /\ UNCHANGED <<call, idx, amounts, verdict>>
    BY <1>6 DEF BC!Sum
  <2>4. observed' # NoNumber => observed'.magnitude \in 0..IntMax
    BY <1>0, <2>2, <2>3, PrintedFits
  <2>. QED BY <1>2, <2>1, <2>2, <2>3, <2>4 DEF BatchInv
<1>7. CASE BC!RefuseTrailer
  BY <1>2, <1>7 DEF BC!RefuseTrailer, BatchInv
<1>8. CASE BC!PanicCompare
  <2>1. UNCHANGED <<call, idx, amounts, observed, verdict>> /\ pc = "trailer" /\ pc' = "panic"
        /\ ~BC!CompareFits
    BY <1>8 DEF BC!PanicCompare
  <2>2. BC!SumFits' = BC!SumFits /\ BC!Printed' = BC!Printed /\ BC!CompareFits' = BC!CompareFits
    BY <2>1, BatchKept
  <2>. QED BY <1>2, <2>1, <2>2 DEF BatchInv
<1>9. CASE BC!Compare
  <2>1. /\ UNCHANGED <<call, idx, amounts, observed>> /\ pc = "trailer" /\ pc' = "done"
        /\ BC!OverflowChecks => BC!CompareFits
        /\ verdict' = [count |-> BC!CountMatch, total |-> BC!TotalMatch]
    BY <1>9 DEF BC!Compare
  <2>2. /\ BC!SumFits' = BC!SumFits /\ BC!Printed' = BC!Printed
        /\ BC!CompareFits' = BC!CompareFits /\ BC!TotalMatch' = BC!TotalMatch
        /\ BC!OverflowChecks' = BC!OverflowChecks
    BY <2>1, BatchKept
  <2>3. verdict' \in [count : BOOLEAN, total : BOOLEAN] /\ verdict'.total = BC!TotalMatch
    BY <2>1 DEF BC!CountMatch, BC!TotalMatch
  <2>. QED BY <1>2, <2>1, <2>2, <2>3 DEF BatchInv
<1>10. CASE BC!Terminated
  <2>1. UNCHANGED <<call, pc, idx, amounts, observed, verdict>>
    BY <1>10 DEF BC!Terminated, BC!vars
  <2>2. /\ BC!SumFits' = BC!SumFits /\ BC!Printed' = BC!Printed
        /\ BC!CompareFits' = BC!CompareFits /\ BC!TotalMatch' = BC!TotalMatch
        /\ BC!OverflowChecks' = BC!OverflowChecks
    BY <2>1, BatchKept
  <2>. QED BY <1>2, <2>1, <2>2 DEF BatchInv
<1>. QED
  BY <1>1, <1>3, <1>4, <1>5, <1>6, <1>7, <1>8, <1>9, <1>10 DEF BC!Next

LEMMA BatchInvariant == Spec => [](court = "batch_control" => BatchInv)
<1>. DEFINE IInv == court = "batch_control" => BatchInv
<1>1. Init => IInv
  BY BatchStart DEF Init
<1>2. IInv /\ [Next]_vars => IInv'
  <2>1. CASE UNCHANGED vars
    <3>. SUFFICES ASSUME BatchInv, UNCHANGED vars PROVE BatchInv'
      BY <2>1 DEF vars
    <3>1. UNCHANGED <<call, pc, idx, amounts, observed, verdict>>
      BY DEF vars, batchVars
    <3>2. /\ BC!SumFits' = BC!SumFits /\ BC!Printed' = BC!Printed
          /\ BC!CompareFits' = BC!CompareFits /\ BC!TotalMatch' = BC!TotalMatch
          /\ BC!OverflowChecks' = BC!OverflowChecks
      BY <3>1, BatchKept
    <3>. QED BY <3>1, <3>2 DEF BatchInv
  <2>2. CASE court = "batch_control" /\ BC!Next /\ court' = court
    BY <2>2, BatchStep
  <2>. QED BY <2>1, <2>2 DEF Next
<1>. QED BY <1>1, <1>2, PTL DEF Spec

(* batch_control decides every batch whose numbers fit, and decides it      *)
(* exactly, however the scales differ; where they do not, a build with      *)
(* overflow checks matches no total that is not the exact sum.              *)
THEOREM TotalsDecided == Spec => []MatchExact
<1>1. (court = "batch_control" => BatchInv) => MatchExact
  <2>. SUFFICES ASSUME BatchInv, pc \in {"done", "panic"} PROVE BC!MatchExact
    BY DEF MatchExact, BC!MatchExact
  <2>1. call \in BatchCalls /\ Found(call, amounts, Len(call.details))
    BY DEF BatchInv
  <2>2. ASSUME BC!NumbersFit
        PROVE  pc = "done" /\ (verdict.total <=> BC!TotalsAgree)
    <3>1. BC!SumFits
      BY <2>2 DEF BC!NumbersFit
    <3>2. observed = BC!Printed
      BY <3>1 DEF BatchInv
    <3>3. BC!CompareFits /\ (BC!TotalMatch <=> BC!TotalsAgree)
      BY <2>1, <2>2, <3>1, <3>2, VerdictAgrees
    <3>. QED BY <3>1, <3>3 DEF BatchInv
  <2>3. ASSUME pc = "done", BC!OverflowChecks, verdict.total
        PROVE  BC!TotalsAgree
    <3>1. observed = BC!Printed /\ BC!SumFits /\ BC!CompareFits /\ BC!TotalMatch
      BY <2>3 DEF BatchInv
    <3>. QED BY <2>1, <3>1, VerdictAgrees
  <2>. QED BY <2>2, <2>3 DEF BC!MatchExact
<1>. QED BY <1>1, BatchInvariant, PTL

-----------------------------------------------------------------------------
LEMMA SameArithmetic ==
  /\ \A n : TR!TenTo(n) = BC!TenTo(n)
  /\ \A t : TR!Sums(t) = BC!Sums(t)
<1>1. ASSUME NEW n PROVE TR!TenTo(n) = BC!TenTo(n)
  BY DEF TR!TenTo, BC!TenTo
<1>2. ASSUME NEW t PROVE TR!Sums(t) = BC!Sums(t)
  BY DEF TR!Sums, BC!Sums
<1>. QED BY <1>1, <1>2

(* What reading the digits of a number gives after k of them.              *)
Reading(ds, v, k) == IF k = 0 THEN 0 ELSE 10 * v[k - 1] + (ds[k] % 10)
Reads(ds, v, m) == v = [k \in 0..m |-> Reading(ds, v, k)]
ReadingOf(ds) == CHOOSE v : Reads(ds, v, Len(ds))

LEMMA OneDigitMore ==
  ASSUME NEW ds, NEW v, NEW m \in Nat \ {0}, Reads(ds, v, m - 1)
  PROVE  \E w : Reads(ds, w, m)
<1>. DEFINE more == [k \in 0..m |-> IF k = m THEN 10 * v[m - 1] + (ds[m] % 10) ELSE v[k]]
<1>1. /\ \A k \in 0..m : more[k] = IF k = m THEN 10 * v[m - 1] + (ds[m] % 10) ELSE v[k]
      /\ DOMAIN more = 0..m /\ more = [k \in 0..m |-> more[k]]
  OBVIOUS
<1>. HIDE DEF more
<1>2. more[m] = Reading(ds, more, m)
  <2>1. more[m - 1] = v[m - 1]
    BY <1>1
  <2>2. more[m] = 10 * v[m - 1] + (ds[m] % 10)
    BY <1>1
  <2>. QED BY <2>1, <2>2 DEF Reading
<1>3. ASSUME NEW k \in 0..(m - 1) PROVE more[k] = Reading(ds, more, k)
  <2>1. v[k] = Reading(ds, v, k)
    BY DEF Reads
  <2>2. more[k] = v[k] /\ k \in 0..m
    BY <1>1
  <2>3. k # 0 => k - 1 \in 0..m /\ more[k - 1] = v[k - 1]
    BY <1>1
  <2>. QED BY <2>1, <2>2, <2>3 DEF Reading
<1>4. \A k \in 0..m : more[k] = Reading(ds, more, k)
  BY <1>2, <1>3
<1>. QED BY <1>1, <1>4 DEF Reads

LEMMA DigitsRead ==
  ASSUME NEW ds, Len(ds) \in Nat
  PROVE  Reads(ds, ReadingOf(ds), Len(ds)) /\ TR!Magnitude(ds) = ReadingOf(ds)[Len(ds)]
<1>. DEFINE open == {m \in 0..Len(ds) : ~\E v : Reads(ds, v, m)}
<1>1. open = {}
  <2>. SUFFICES ASSUME open # {} PROVE FALSE
    OBVIOUS
  <2>1. PICK m \in open : \A j \in open : m <= j
    <3>1. open \subseteq Nat
      OBVIOUS
    <3>. HIDE DEF open
    <3>. QED BY <3>1, LeastIn
  <2>2. m # 0
    <3>1. Reads(ds, [k \in 0..0 |-> 0], 0)
      BY DEF Reads, Reading
    <3>. QED BY <2>1, <3>1
  <2>3. m \in Nat \ {0} /\ m - 1 \in 0..Len(ds)
    BY <2>1, <2>2
  <2>4. m - 1 \notin open
    <3>. HIDE DEF open
    <3>. QED BY <2>1, <2>3
  <2>. QED BY <2>1, <2>3, <2>4, OneDigitMore
<1>2. \E v : Reads(ds, v, Len(ds))
  BY <1>1
<1>3. Reads(ds, ReadingOf(ds), Len(ds))
  BY <1>2 DEF ReadingOf
<1>4. TR!Magnitude(ds) = ReadingOf(ds)[Len(ds)]
  BY DEF TR!Magnitude, ReadingOf, Reads, Reading
<1>. QED BY <1>3, <1>4

(* A number of m digits is below the m-th power of ten.                    *)
LEMMA EachDigit ==
  ASSUME NEW ds, Len(ds) \in Nat, \A k \in 1..Len(ds) : ds[k] \in Nat
  PROVE  /\ ReadingOf(ds)[0] = 0
         /\ \A k \in 1..Len(ds) :
              k - 1 \in 0..Len(ds) /\ ReadingOf(ds)[k] = 10 * ReadingOf(ds)[k - 1] + (ds[k] % 10)
         /\ \A k \in 0..Len(ds) : ReadingOf(ds)[k] \in Nat /\ ReadingOf(ds)[k] < BC!TenTo(k)
<1>. DEFINE v == ReadingOf(ds)
            bad == {k \in 0..Len(ds) : ~(v[k] \in Nat /\ v[k] < BC!TenTo(k))}
<1>2. \A k \in 0..Len(ds) : v[k] = Reading(ds, v, k)
  <2>1. Reads(ds, v, Len(ds))
    BY DigitsRead
  <2>. HIDE DEF v
  <2>. QED BY <2>1 DEF Reads
<1>. HIDE DEF v
<1>3. v[0] = 0
  BY <1>2 DEF Reading
<1>4. \A k \in 1..Len(ds) : k - 1 \in 0..Len(ds) /\ v[k] = 10 * v[k - 1] + (ds[k] % 10)
  BY <1>2 DEF Reading
<1>5. bad = {}
  <2>. SUFFICES ASSUME bad # {} PROVE FALSE
    OBVIOUS
  <2>1. PICK k \in bad : \A j \in bad : k <= j
    <3>1. bad \subseteq Nat
      OBVIOUS
    <3>. HIDE DEF bad
    <3>. QED BY <3>1, LeastIn
  <2>0. v[0] \in Nat /\ v[0] < BC!TenTo(0)
    BY <1>3, TenMore
  <2>2. k \in 1..Len(ds) /\ k - 1 \notin bad /\ k - 1 \in 0..Len(ds)
    BY <2>0, <2>1
  <2>. DEFINE x == v[k - 1]
              p == BC!TenTo(k - 1)
              d == ds[k] % 10
  <2>3. x \in Nat /\ x < p
    BY <2>2
  <2>4. p \in Nat /\ BC!TenTo(k) = 10 * p
    <3>1. k - 1 \in Nat /\ (k - 1) + 1 = k
      BY <2>2
    <3>. QED BY <3>1, TenMore
  <2>5. d \in 0..9
    <3>1. ds[k] \in Nat
      BY <2>2
    <3>2. \A n \in Nat : n % 10 \in 0..9
      OBVIOUS
    <3>. QED BY <3>1, <3>2
  <2>6. v[k] = 10 * x + d
    BY <1>4, <2>2
  <2>. HIDE DEF x, p, d
  <2>7. v[k] \in Nat /\ v[k] < 10 * p
    BY <2>3, <2>4, <2>5, <2>6
  <2>. QED BY <2>1, <2>4, <2>7
<1>. QED BY <1>3, <1>4, <1>5 DEF v

(* The digits of a number, which its length holds, are read as the number. *)
LEMMA LessOneDigit ==
  ASSUME NEW n \in Nat, NEW p \in Nat \ {0}
  PROVE  n \div p = 10 * (n \div (10 * p)) + ((n \div p) % 10)
<1>. DEFINE x == n \div p
            y == x \div 10
            z == x % 10
            r == n % p
<1>1. n = p * x + r /\ r \in 0..(p - 1) /\ x \in Nat
  OBVIOUS
<1>2. x = 10 * y + z /\ z \in 0..9 /\ y \in Nat
  <2>. HIDE DEF x
  <2>. QED BY <1>1
<1>3. n \div (10 * p) = y
  <2>. HIDE DEF x, y, z, r
  <2>1. n = (10 * p) * y + (p * z + r)
    <3>1. p * (10 * y + z) = (10 * p) * y + p * z
      BY <1>2
    <3>2. (10 * p) * y \in Int /\ p * z \in Int
      BY <1>2
    <3>. DEFINE a == (10 * p) * y
                b == p * z
    <3>3. n = (a + b) + r
      BY <1>1, <1>2, <3>1
    <3>. HIDE DEF a, b
    <3>4. n = a + (b + r)
      BY <1>1, <3>2, <3>3 DEF a, b
    <3>. QED BY <3>4 DEF a, b
  <2>2. p * z + r \in 0..(10 * p - 1)
    <3>1. p * z \in Nat /\ p * z <= p * 9
      BY <1>2
    <3>. DEFINE b == p * z
    <3>. HIDE DEF b
    <3>2. b \in Nat /\ b <= 9 * p
      BY <3>1 DEF b
    <3>3. b + r \in 0..(10 * p - 1)
      BY <1>1, <3>2
    <3>. QED BY <3>3 DEF b
  <2>. DEFINE w == 10 * p
              s == p * z + r
  <2>3. w \in Nat \ {0} /\ s \in 0..(w - 1) /\ n = w * y + s
    BY <2>1, <2>2
  <2>. HIDE DEF w, s
  <2>4. n \div w = y
    BY <1>2, <2>3
  <2>. QED BY <2>4 DEF w
<1>. QED BY <1>2, <1>3

LEMMA NumberRead ==
  ASSUME NEW n \in Nat, NEW size \in Nat, n < BC!TenTo(size),
         NEW ds, Len(ds) = size, \A k \in 1..size : ds[k] \in Nat,
         \A k \in 1..size : ds[k] % 10 = (n \div BC!TenTo(size - k)) % 10
  PROVE  TR!Magnitude(ds) = n
<1>. DEFINE v == ReadingOf(ds)
            bad == {k \in 0..size : v[k] # n \div BC!TenTo(size - k)}
<1>1. /\ v[0] = 0
      /\ \A k \in 1..size : k - 1 \in 0..size /\ v[k] = 10 * v[k - 1] + (ds[k] % 10)
  BY EachDigit
<1>2. TR!Magnitude(ds) = v[size]
  BY DigitsRead
<1>. HIDE DEF v
<1>3. ASSUME NEW p \in Nat, n < p PROVE n \div p = 0
  <2>1. p \in Nat \ {0}
    BY <1>3
  <2>2. n = p * 0 + n /\ n \in 0..(p - 1)
    BY <1>3
  <2>. QED BY <2>1, <2>2
<1>4. bad = {}
  <2>. SUFFICES ASSUME bad # {} PROVE FALSE
    OBVIOUS
  <2>1. PICK k \in bad : \A j \in bad : k <= j
    <3>1. bad \subseteq Nat
      OBVIOUS
    <3>. HIDE DEF bad
    <3>. QED BY <3>1, LeastIn
  <2>2. v[0] = n \div BC!TenTo(size - 0)
    <3>1. size - 0 = size /\ BC!TenTo(size) \in Nat
      BY TenMore
    <3>. QED BY <1>1, <1>3, <3>1
  <2>3. k \in 1..size /\ k - 1 \notin bad /\ k - 1 \in 0..size
    <3>1. v[k] # n \div BC!TenTo(size - k) /\ k \in 0..size
      BY <2>1
    <3>2. k # 0
      <4>. HIDE DEF bad
      <4>. QED BY <2>2, <3>1, Zenon
    <3>3. k \in 1..size /\ k - 1 \in 0..size /\ ~(k <= k - 1)
      BY <3>1, <3>2
    <3>4. k - 1 \notin bad
      <4>. HIDE DEF bad
      <4>. QED BY <2>1, <3>3
    <3>. HIDE DEF bad
    <3>. QED BY <3>3, <3>4
  <2>. DEFINE p == BC!TenTo(size - k)
  <2>4. p \in Nat \ {0} /\ BC!TenTo(size - (k - 1)) = 10 * p
    <3>1. size - k \in Nat /\ (size - k) + 1 = size - (k - 1)
      BY <2>3
    <3>. QED BY <3>1, TenMore
  <2>5. v[k - 1] = n \div (10 * p)
    BY <2>3, <2>4
  <2>6. v[k] = 10 * v[k - 1] + ((n \div p) % 10)
    BY <1>1, <2>3
  <2>. HIDE DEF p
  <2>7. n \div p = 10 * (n \div (10 * p)) + ((n \div p) % 10)
    BY <2>4, LessOneDigit
  <2>. QED BY <2>1, <2>5, <2>6, <2>7 DEF p
<1>5. v[size] = n \div BC!TenTo(size - size)
  <2>1. size \in 0..size
    OBVIOUS
  <2>. QED BY <1>4, <2>1
<1>6. size - size = 0 /\ n \div 1 = n
  OBVIOUS
<1>. QED BY <1>2, <1>5, <1>6, TenMore

(* A field of size bytes holds the numbers that have no more digits.       *)
LEMMA DigitsTyped ==
  ASSUME NEW n \in Int, NEW size \in Nat
  PROVE  /\ TR!Digits(n, size) = [k \in 1..size |-> (n \div BC!TenTo(size - k)) % 10]
         /\ \A k \in 1..size : (n \div BC!TenTo(size - k)) % 10 \in 0..9
<1>1. ASSUME NEW k \in 1..size PROVE (n \div BC!TenTo(size - k)) % 10 \in 0..9
  <2>1. size - k \in Nat
    OBVIOUS
  <2>2. BC!TenTo(size - k) \in Nat \ {0}
    BY <2>1, TenMore
  <2>3. \A p \in Nat \ {0} : n \div p \in Int
    OBVIOUS
  <2>4. \A q \in Int : q % 10 \in 0..9
    OBVIOUS
  <2>. QED BY <2>2, <2>3, <2>4
<1>2. TR!Digits(n, size) = [k \in 1..size |-> (n \div BC!TenTo(size - k)) % 10]
  BY SameArithmetic DEF TR!Digits
<1>. QED BY <1>1, <1>2

LEMMA StoredTyped ==
  ASSUME NEW item, item.size \in Nat, NEW n \in Int
  PROVE  TR!Stored(n, item) \in [1..item.size -> 0..19]
<1>1. ASSUME NEW m \in Int
      PROVE  TR!Digits(m, item.size) \in [1..item.size -> 0..9]
  <2>. DEFINE size == item.size
  <2>1. size \in Nat
    OBVIOUS
  <2>. HIDE DEF size
  <2>2. /\ TR!Digits(m, size) = [k \in 1..size |-> (m \div BC!TenTo(size - k)) % 10]
        /\ \A k \in 1..size : (m \div BC!TenTo(size - k)) % 10 \in 0..9
    BY <2>1, DigitsTyped
  <2>3. TR!Digits(m, size) \in [1..size -> 0..9]
    BY <2>2
  <2>. QED BY <2>3 DEF size
<1>2. TR!Digits(-n, item.size) \in [1..item.size -> 0..9]
      /\ TR!Digits(n, item.size) \in [1..item.size -> 0..9]
  BY <1>1
<1>3. ASSUME NEW d \in [1..item.size -> 0..9]
      PROVE  d \in [1..item.size -> 0..19] /\ [d EXCEPT ![item.size] = @ + 10] \in [1..item.size -> 0..19]
  <2>. DEFINE e == [d EXCEPT ![item.size] = @ + 10]
  <2>1. DOMAIN e = 1..item.size /\ e = [k \in 1..item.size |-> e[k]]
    OBVIOUS
  <2>2. ASSUME NEW k \in 1..item.size PROVE e[k] \in 0..19 /\ d[k] \in 0..19
    <3>1. d[k] \in 0..9 /\ (e[k] = d[k] \/ e[k] = d[k] + 10)
      OBVIOUS
    <3>. HIDE DEF e
    <3>. QED BY <3>1
  <2>. HIDE DEF e
  <2>3. e \in [1..item.size -> 0..19] /\ d \in [1..item.size -> 0..19]
    BY <2>1, <2>2
  <2>. QED BY <2>3 DEF e
<1>. QED BY <1>2, <1>3 DEF TR!Stored

LEMMA StoredRead ==
  ASSUME NEW item, item.size \in Nat \ {0}, item.signed \in BOOLEAN, NEW n \in TR!Values(item)
  PROVE  n \in Int /\ TR!Number(TR!Stored(n, item)) = n
<1>. DEFINE size == item.size
            limit == BC!TenTo(size)
<1>0. size \in Nat /\ size # 0
  OBVIOUS
<1>1. limit \in Nat \ {0} /\ TR!TenTo(size) = limit
  BY <1>0, TenMore, SameArithmetic
<1>2. n \in Int /\ n < limit /\ -n < limit /\ (n < 0 => item.signed)
  <2>1. n \in (IF item.signed THEN -limit + 1 ELSE 0)..(limit - 1)
    BY <1>1 DEF TR!Values
  <2>. HIDE DEF limit
  <2>2. CASE item.signed
    <3>1. n \in (-limit + 1)..(limit - 1)
      BY <2>1, <2>2
    <3>. QED BY <1>1, <2>2, <3>1
  <2>3. CASE ~item.signed
    <3>1. n \in 0..(limit - 1)
      BY <2>1, <2>3
    <3>. QED BY <1>1, <3>1
  <2>. QED BY <2>2, <2>3
<1>. HIDE DEF size
<1>3. CASE n < 0
  <2>. DEFINE digits == TR!Digits(-n, size)
              ds == [digits EXCEPT ![size] = @ + 10]
  <2>1. -n \in Nat
    BY <1>2, <1>3
  <2>2. /\ digits = [k \in 1..size |-> ((-n) \div BC!TenTo(size - k)) % 10]
        /\ \A k \in 1..size : ((-n) \div BC!TenTo(size - k)) % 10 \in 0..9
    <3>1. -n \in Int
      BY <2>1
    <3>. QED BY <1>0, <3>1, DigitsTyped, Zenon
  <2>. HIDE DEF digits
  <2>3. /\ Len(ds) = size /\ size \in 1..size /\ size \in Nat
        /\ ds[size] = digits[size] + 10
        /\ \A k \in 1..size : k # size => ds[k] = digits[k]
    BY <1>0, <2>2
  <2>. HIDE DEF ds
  <2>4. \A k \in 1..size : digits[k] \in 0..9 /\ digits[k] = ((-n) \div BC!TenTo(size - k)) % 10
    BY <2>2
  <2>5. \A d \in 0..9 : d % 10 = d /\ (d + 10) % 10 = d /\ d \in Nat /\ d + 10 \in Nat /\ d + 10 >= 10
    OBVIOUS
  <2>6. ASSUME NEW k \in 1..size
        PROVE  ds[k] \in Nat /\ ds[k] % 10 = ((-n) \div BC!TenTo(size - k)) % 10
    <3>1. digits[k] \in 0..9 /\ digits[k] = ((-n) \div BC!TenTo(size - k)) % 10
      BY <2>4
    <3>2. ds[k] = digits[k] \/ ds[k] = digits[k] + 10
      BY <2>3
    <3>3. ds[k] \in Nat /\ ds[k] % 10 = digits[k]
      BY <2>5, <3>1, <3>2
    <3>. QED BY <3>1, <3>3
  <2>7. TR!Magnitude(ds) = -n
    <3>1. -n < BC!TenTo(size)
      BY <1>2
    <3>. QED BY <1>0, <2>1, <2>3, <2>6, <3>1, NumberRead
  <2>8. TR!Stored(n, item) = ds
    BY <1>2, <1>3 DEF TR!Stored, ds, digits, size
  <2>9. TR!Last(ds) >= 10
    BY <2>3, <2>4, <2>5 DEF TR!Last
  <2>10. TR!Number(ds) = -TR!Magnitude(ds)
    BY <2>9 DEF TR!Number
  <2>. QED BY <1>2, <2>7, <2>8, <2>10
<1>4. CASE ~(n < 0)
  <2>. DEFINE ds == TR!Digits(n, size)
  <2>1. n \in Nat
    BY <1>2, <1>4
  <2>2. /\ ds = [k \in 1..size |-> (n \div BC!TenTo(size - k)) % 10]
        /\ \A k \in 1..size : (n \div BC!TenTo(size - k)) % 10 \in 0..9
    <3>1. n \in Int
      BY <2>1
    <3>. QED BY <1>0, <3>1, DigitsTyped, Zenon
  <2>. HIDE DEF ds
  <2>3. Len(ds) = size /\ size \in 1..size
    BY <1>0, <2>2
  <2>4. \A k \in 1..size : ds[k] \in 0..9 /\ ds[k] = (n \div BC!TenTo(size - k)) % 10
    BY <2>2
  <2>5. \A d \in 0..9 : d % 10 = d /\ d \in Nat /\ ~(d >= 10)
    OBVIOUS
  <2>6. \A k \in 1..size : ds[k] \in Nat /\ ds[k] % 10 = (n \div BC!TenTo(size - k)) % 10
    BY <2>4, <2>5
  <2>7. TR!Magnitude(ds) = n
    <3>1. n < BC!TenTo(size)
      BY <1>2
    <3>. QED BY <1>0, <2>1, <2>3, <2>6, <3>1, NumberRead
  <2>8. TR!Stored(n, item) = ds
    BY <1>4 DEF TR!Stored, ds, size
  <2>9. ~(TR!Last(ds) >= 10)
    BY <2>3, <2>4, <2>5 DEF TR!Last
  <2>10. TR!Number(ds) = TR!Magnitude(ds)
    BY <2>9 DEF TR!Number
  <2>. QED BY <1>2, <2>7, <2>8, <2>10
<1>. QED BY <1>2, <1>3, <1>4

LEMMA ListOf ==
  ASSUME NEW S, NEW n \in Nat, NEW w \in [1..n -> S]
  PROVE  w \in Seq(S) /\ Len(w) = n
<1>1. w \in Seq(S)
  BY SeqDef
<1>. QED BY <1>1

LEMMA PartOf ==
  ASSUME NEW S, NEW list \in Seq(S), NEW o \in Nat, NEW n \in Nat, o + n <= Len(list)
  PROVE  /\ SubSeq(list, o + 1, o + n) \in Seq(S) /\ Len(SubSeq(list, o + 1, o + n)) = n
         /\ SubSeq(list, o + 1, o + n) = [i \in 1..n |-> list[i + o]]
         /\ \A i \in 1..n : list[i + o] \in S
<1>. DEFINE part == SubSeq(list, o + 1, o + n)
<1>1. o + 1 \in Int /\ o + n \in Int /\ \A i \in (o + 1)..(o + n) : list[i] \in S
  OBVIOUS
<1>2. /\ part \in Seq(S) /\ Len(part) = IF o + 1 <= o + n THEN (o + n) - (o + 1) + 1 ELSE 0
      /\ \A i \in 1..((o + n) - (o + 1) + 1) : part[i] = list[(o + 1) + i - 1]
  BY <1>1, SubSeqProperties
<1>. HIDE DEF part
<1>3. Len(part) = n /\ \A i \in 1..n : part[i] = list[i + o]
  BY <1>2
<1>4. part = [i \in 1..n |-> part[i]]
  BY <1>2, <1>3
<1>5. \A i \in 1..n : list[i + o] \in S
  <2>1. \A i \in 1..n : i + o \in (o + 1)..(o + n)
    OBVIOUS
  <2>. QED BY <1>1, <2>1
<1>. QED BY <1>2, <1>3, <1>4, <1>5 DEF part

(* What a field holds is a number, and only writing to its bytes alters it. *)
LEMMA BytesHeld ==
  ASSUME NEW rec \in Seq(0..19), NEW item, item.offset \in Nat, item.size \in Nat,
         item.offset + item.size <= Len(rec)
  PROVE  /\ TR!Bytes(rec, item) = [i \in 1..item.size |-> rec[i + item.offset]]
         /\ TR!Number(TR!Bytes(rec, item)) \in Int
<1>. DEFINE o == item.offset
            s == item.size
            b == SubSeq(rec, o + 1, o + s)
<1>1. o \in Nat /\ s \in Nat /\ o + s <= Len(rec) /\ TR!Bytes(rec, item) = b
  BY DEF TR!Bytes
<1>. HIDE DEF o, s
<1>2. /\ b = [i \in 1..s |-> rec[i + o]] /\ \A i \in 1..s : rec[i + o] \in 0..19
      /\ Len(b) = s
  <2>. DEFINE D == 0..19
  <2>1. rec \in Seq(D)
    OBVIOUS
  <2>. HIDE DEF D
  <2>2. /\ b = [i \in 1..s |-> rec[i + o]] /\ \A i \in 1..s : rec[i + o] \in D
        /\ Len(b) = s
    BY <1>1, <2>1, PartOf
  <2>. QED BY <2>2 DEF D
<1>. HIDE DEF b
<1>3. Len(b) = s /\ \A k \in 1..Len(b) : b[k] \in Nat
  <2>1. \A i \in 1..s : b[i] = rec[i + o]
    BY <1>2
  <2>2. ASSUME NEW i \in 1..s PROVE b[i] \in Nat
    <3>1. rec[i + o] \in 0..19 /\ b[i] = rec[i + o]
      BY <1>2, <2>1
    <3>2. \A x \in 0..19 : x \in Nat
      OBVIOUS
    <3>. QED BY <3>1, <3>2, Zenon
  <2>. QED BY <1>2, <2>2
<1>4. TR!Magnitude(b) \in Nat
  <2>1. Len(b) \in Nat /\ Len(b) \in 0..Len(b)
    BY <1>1, <1>3
  <2>. QED BY <1>3, <2>1, EachDigit, DigitsRead
<1>5. TR!Number(b) \in Int
  BY <1>4 DEF TR!Number
<1>. QED BY <1>1, <1>2, <1>5 DEF o, s

LEMMA WriteTyped ==
  ASSUME NEW rec \in Seq(0..19), NEW item, item.offset \in Nat, item.size \in Nat,
         NEW b \in [1..item.size -> 0..19]
  PROVE  /\ TR!Write(rec, item, b) \in Seq(0..19)
         /\ TR!Write(rec, item, b) \in [DOMAIN rec -> 0..19]
         /\ Len(TR!Write(rec, item, b)) = Len(rec)
<1>. DEFINE w == TR!Write(rec, item, b)
<1>1. DOMAIN rec = 1..Len(rec) /\ Len(rec) \in Nat /\ \A k \in DOMAIN rec : rec[k] \in 0..19
  OBVIOUS
<1>2. \A k \in 1..item.size : b[k] \in 0..19
  OBVIOUS
<1>3. /\ w = [k \in DOMAIN rec |-> w[k]] /\ DOMAIN w = DOMAIN rec
      /\ \A k \in DOMAIN rec : w[k] \in 0..19
  BY <1>1, <1>2 DEF TR!Write
<1>. HIDE DEF w
<1>4. w \in [1..Len(rec) -> 0..19]
  BY <1>1, <1>3
<1>5. w \in Seq(0..19) /\ Len(w) = Len(rec)
  BY <1>1, <1>4, ListOf
<1>. QED BY <1>1, <1>4, <1>5 DEF w

LEMMA BytesWritten ==
  ASSUME NEW rec \in Seq(0..19), NEW item, item.offset \in Nat, item.size \in Nat,
         item.offset + item.size <= Len(rec), NEW b \in [1..item.size -> 0..19]
  PROVE  TR!Bytes(TR!Write(rec, item, b), item) = b
<1>. DEFINE w == TR!Write(rec, item, b)
<1>1. w \in Seq(0..19) /\ Len(w) = Len(rec)
  BY WriteTyped
<1>2. \A i \in 1..item.size : w[i + item.offset] = b[i]
  <2>. SUFFICES ASSUME NEW i \in 1..item.size PROVE w[i + item.offset] = b[i]
    OBVIOUS
  <2>1. i + item.offset \in DOMAIN rec /\ (i + item.offset) - item.offset = i /\ i \in DOMAIN b
    OBVIOUS
  <2>. QED BY <2>1 DEF TR!Write
<1>. HIDE DEF w
<1>3. TR!Bytes(w, item) = [i \in 1..item.size |-> w[i + item.offset]]
  BY <1>1, BytesHeld
<1>4. b = [i \in 1..item.size |-> b[i]]
  OBVIOUS
<1>. QED BY <1>2, <1>3, <1>4 DEF w

LEMMA BytesElsewhere ==
  ASSUME NEW rec \in Seq(0..19), NEW item, item.offset \in Nat, item.size \in Nat,
         item.offset + item.size <= Len(rec),
         NEW other, other.offset \in Nat, other.size \in Nat,
         TR!Storage({other}) \cap TR!Storage({item}) = {},
         NEW b \in [1..other.size -> 0..19]
  PROVE  TR!Bytes(TR!Write(rec, other, b), item) = TR!Bytes(rec, item)
<1>. DEFINE w == TR!Write(rec, other, b)
<1>1. w \in Seq(0..19) /\ Len(w) = Len(rec)
  BY WriteTyped
<1>2. \A i \in 1..item.size : w[i + item.offset] = rec[i + item.offset]
  <2>. SUFFICES ASSUME NEW i \in 1..item.size PROVE w[i + item.offset] = rec[i + item.offset]
    OBVIOUS
  <2>1. i + item.offset \in DOMAIN rec /\ i + item.offset \in Nat
        /\ i + item.offset \in (item.offset + 1)..(item.offset + item.size)
    OBVIOUS
  <2>2. i + item.offset \in TR!Storage({item})
    BY <2>1 DEF TR!Storage
  <2>3. i + item.offset \notin TR!Storage({other})
    BY <2>2
  <2>4. DOMAIN b \subseteq 1..other.size
    OBVIOUS
  <2>. DEFINE k == i + item.offset
  <2>5. k \notin (other.offset + 1)..(other.offset + other.size)
    BY <2>3 DEF TR!Storage
  <2>6. k \in DOMAIN rec /\ k \in Nat
    BY <2>1
  <2>. HIDE DEF k
  <2>7. k - other.offset \notin DOMAIN b
    BY <2>4, <2>5, <2>6
  <2>8. w[k] = rec[k]
    BY <2>6, <2>7 DEF TR!Write
  <2>. HIDE DEF w
  <2>. QED BY <2>8 DEF k
<1>. HIDE DEF w
<1>3. /\ TR!Bytes(w, item) = [i \in 1..item.size |-> w[i + item.offset]]
      /\ TR!Bytes(rec, item) = [i \in 1..item.size |-> rec[i + item.offset]]
  BY <1>1, BytesHeld
<1>. QED BY <1>2, <1>3 DEF w

(* An amount of no more digits than the field has is the operand itself.   *)
LEMMA OperandIs ==
  ASSUME NEW a \in TR!Amounts, NEW item, item.size \in Nat, item.scale \in Nat,
         Len(a.whole) <= item.size - item.scale
  PROVE  LET cents == SubSeq(a.fraction \o [k \in 1..item.scale |-> 0], 1, item.scale)
             magnitude == TR!Magnitude(a.whole \o cents)
         IN  /\ magnitude \in Nat
             /\ TR!Operand(a, item) = IF a.negative THEN -magnitude ELSE magnitude
<1>. DEFINE f == a.fraction
            z == [k \in 1..item.scale |-> 0]
            cents == SubSeq(f \o z, 1, item.scale)
            ds == a.whole \o cents
            magnitude == TR!Magnitude(ds)
            whole == IF item.size > item.scale THEN item.size - item.scale ELSE 1
<1>1. /\ a.whole \in Seq(0..9) /\ f \in Seq(0..9) /\ a.negative \in BOOLEAN
  BY DEF TR!Amounts
<1>2. z \in Seq(0..9) /\ Len(z) = item.scale
  OBVIOUS
<1>. HIDE DEF f, z
<1>3. cents \in Seq(0..9) /\ Len(cents) = item.scale
  <2>1. f \o z \in Seq(0..9) /\ Len(f \o z) = Len(f) + Len(z) /\ Len(f) \in Nat
    <3>. DEFINE D == 0..9
    <3>1. f \in Seq(D) /\ z \in Seq(D) /\ Len(f) \in Nat
      BY <1>1, <1>2
    <3>. HIDE DEF D
    <3>2. f \o z \in Seq(D) /\ Len(f \o z) = Len(f) + Len(z)
      BY <3>1, ConcatProperties
    <3>. QED BY <3>1, <3>2 DEF D
  <2>. DEFINE g == f \o z
  <2>2. g \in Seq(0..9) /\ item.scale <= Len(g)
    BY <1>2, <2>1
  <2>. HIDE DEF g
  <2>3. SubSeq(g, 1, item.scale) \in Seq(0..9) /\ Len(SubSeq(g, 1, item.scale)) = item.scale
    BY <2>2
  <2>. QED BY <2>3 DEF g
<1>. HIDE DEF cents
<1>4. ds \in Seq(0..9) /\ Len(ds) = Len(a.whole) + item.scale /\ Len(ds) \in Nat
  <2>. DEFINE D == 0..9
              w == a.whole
  <2>1. w \in Seq(D) /\ cents \in Seq(D) /\ Len(w) \in Nat
    BY <1>1, <1>3
  <2>. HIDE DEF D, w
  <2>2. w \o cents \in Seq(D) /\ Len(w \o cents) = Len(w) + Len(cents)
    BY <2>1, ConcatProperties
  <2>3. Len(w \o cents) \in Nat
    BY <2>2
  <2>. QED BY <1>3, <2>2, <2>3 DEF D, w
<1>. HIDE DEF ds
<1>5. magnitude \in Nat /\ magnitude < BC!TenTo(Len(ds))
  <2>1. Len(ds) \in 0..Len(ds) /\ \A k \in 1..Len(ds) : ds[k] \in Nat
    BY <1>4
  <2>. QED BY <1>4, <2>1, EachDigit, DigitsRead
<1>6. whole + item.scale \in Nat /\ Len(ds) <= whole + item.scale
  <2>1. Len(a.whole) \in Nat
    BY <1>1
  <2>. QED BY <1>4, <2>1
<1>. HIDE DEF magnitude
<1>7. magnitude < BC!TenTo(whole + item.scale) /\ BC!TenTo(whole + item.scale) \in Nat
  <2>. DEFINE n == whole + item.scale
  <2>1. n \in Nat /\ Len(ds) <= n
    BY <1>6
  <2>. HIDE DEF n
  <2>2. n - Len(ds) \in Nat /\ Len(ds) + (n - Len(ds)) = n
    BY <1>4, <2>1
  <2>3. BC!TenTo(Len(ds)) <= BC!TenTo(n)
    BY <1>4, <2>2, TenTimes
  <2>4. BC!TenTo(Len(ds)) \in Nat /\ BC!TenTo(n) \in Nat
    BY <1>4, <2>1, TenMore
  <2>5. magnitude < BC!TenTo(n)
    BY <1>5, <2>3, <2>4
  <2>. QED BY <2>4, <2>5 DEF n
<1>8. magnitude % TR!TenTo(whole + item.scale) = magnitude
  <2>1. \A m, p \in Nat : m < p => m % p = m
    <3>. SUFFICES ASSUME NEW m \in Nat, NEW p \in Nat, m < p PROVE m % p = m
      OBVIOUS
    <3>1. p \in Nat \ {0}
      OBVIOUS
    <3>2. m = p * 0 + m /\ m \in 0..(p - 1)
      BY <3>1
    <3>. QED BY <3>1, <3>2
  <2>. QED BY <1>5, <1>7, <2>1, SameArithmetic
<1>9. TR!Operand(a, item) = IF a.negative THEN -magnitude ELSE magnitude
  BY <1>8 DEF TR!Operand, magnitude, ds, cents, f, z
<1>. QED BY <1>5, <1>9 DEF magnitude, ds, cents, f, z

-----------------------------------------------------------------------------
(* What TransformsCompose says, with the call and the applied transforms as *)
(* parameters.                                                              *)
WritersIn(c, a, item) ==
  {k \in DOMAIN a : TR!Storage(ItemIn(c, c.transforms[a[k]])) \cap TR!Storage({item}) # {}}
TermsIn(c, a, item) ==
  [k \in DOMAIN a |->
     IF k \in WritersIn(c, a, item) THEN TR!Declared(c.transforms[a[k]], item) ELSE 0]
HeldAfter(c, a, item, n) ==
  TR!Number(TR!Bytes(c.record, item)) + BC!Sums(TermsIn(c, a, item))[n]
AddsTo(t, item) ==
  /\ t.op # "set" /\ t.target = item.name /\ t.amount # Malformed
  /\ Len(t.amount.whole) <= item.size - item.scale
AddedIn(c, a, item) ==
  /\ TR!FirstNamed(c.laid, item.name) = {item}
  /\ \A k \in WritersIn(c, a, item) : AddsTo(c.transforms[a[k]], item)
  /\ \A k \in WritersIn(c, a, item) : HeldAfter(c, a, item, k) \in TR!Values(item)
Given(t) == t.op # "set" => t.amount # NoAmount
ListedIn(c, a) ==
  a \in Seq(Nat) /\ \A k \in DOMAIN a : a[k] \in DOMAIN c.transforms /\ Given(c.transforms[a[k]])
InCall(c, item) ==
  /\ item \in TR!ToSet(c.laid) /\ item.kind = "numeric"
  /\ item.offset + item.size <= Len(c.record)

LEMMA TransformCallTypes ==
  ASSUME NEW c \in TransformCalls
  PROVE  /\ c.laid \in Seq(TR!Items) /\ c.record \in Seq(0..19)
         /\ \A t \in DOMAIN c.transforms :
              c.transforms[t].op # "set" =>
                /\ c.transforms[t].op \in {"add", "subtract"}
                /\ c.transforms[t].amount \in TR!Amounts \cup {NoAmount, Malformed}
         /\ \A item \in TR!ToSet(c.laid) :
              item.offset \in Nat /\ item.size \in Nat /\ item.scale \in Nat /\ item.signed \in BOOLEAN
<1>1. /\ c.laid \in Seq(TR!Items) /\ c.record \in Seq(0..19)
      /\ c.transforms \in Seq([op : {"set", "add", "subtract"}, target : STRING,
                               amount : TR!Amounts \cup {NoAmount, Malformed}])
  BY TransformCallsTyped DEF TR!CallsTyped
<1>2. \A item \in TR!ToSet(c.laid) : item \in TR!Items
  BY <1>1 DEF TR!ToSet
<1>3. ASSUME NEW t \in DOMAIN c.transforms
      PROVE  c.transforms[t] \in [op : {"set", "add", "subtract"}, target : STRING,
                                  amount : TR!Amounts \cup {NoAmount, Malformed}]
  <2>. DEFINE R == [op : {"set", "add", "subtract"}, target : STRING,
                    amount : TR!Amounts \cup {NoAmount, Malformed}]
              list == c.transforms
  <2>1. list \in Seq(R) /\ t \in DOMAIN list
    BY <1>1
  <2>. HIDE DEF R, list
  <2>2. list[t] \in R
    BY <2>1
  <2>. QED BY <2>2 DEF R, list
<1>. QED BY <1>1, <1>2, <1>3 DEF TR!Items

LEMMA DeclaredTyped ==
  ASSUME NEW c \in TransformCalls, NEW p \in DOMAIN c.transforms, Given(c.transforms[p]),
         NEW item \in TR!ToSet(c.laid), AddsTo(c.transforms[p], item)
  PROVE  /\ TR!Declared(c.transforms[p], item) \in Int
         /\ TR!Declared(c.transforms[p], item) =
              IF c.transforms[p].op = "add" THEN TR!Operand(c.transforms[p].amount, item)
              ELSE -TR!Operand(c.transforms[p].amount, item)
<1>. DEFINE t == c.transforms[p]
            cents == SubSeq(t.amount.fraction \o [k \in 1..item.scale |-> 0], 1, item.scale)
            m == TR!Magnitude(t.amount.whole \o cents)
<1>1. t.amount \in TR!Amounts
  BY TransformCallTypes DEF AddsTo, Given
<1>2. item.size \in Nat /\ item.scale \in Nat /\ Len(t.amount.whole) <= item.size - item.scale
  BY TransformCallTypes DEF AddsTo
<1>3. m \in Nat /\ TR!Operand(t.amount, item) = IF t.amount.negative THEN -m ELSE m
  BY <1>1, <1>2, OperandIs
<1>4. TR!Declared(t, item) = IF (t.op = "add") # t.amount.negative THEN m ELSE -m
  BY DEF TR!Declared
<1>5. t.amount.negative \in BOOLEAN
  BY <1>1 DEF TR!Amounts
<1>. SUFFICES /\ TR!Declared(t, item) \in Int
              /\ TR!Declared(t, item) =
                   IF t.op = "add" THEN TR!Operand(t.amount, item) ELSE -TR!Operand(t.amount, item)
  OBVIOUS
<1>. HIDE DEF t, m
<1>6. \A n \in Nat : -(-n) = n /\ -n \in Int /\ n \in Int
  OBVIOUS
<1>7. CASE t.op = "add"
  <2>1. CASE t.amount.negative = TRUE
    BY <1>3, <1>4, <1>6, <1>7, <2>1
  <2>2. CASE t.amount.negative = FALSE
    BY <1>3, <1>4, <1>6, <1>7, <2>2
  <2>. QED BY <1>5, <2>1, <2>2
<1>8. CASE t.op # "add"
  <2>1. CASE t.amount.negative = TRUE
    BY <1>3, <1>4, <1>6, <1>8, <2>1
  <2>2. CASE t.amount.negative = FALSE
    BY <1>3, <1>4, <1>6, <1>8, <2>2
  <2>. QED BY <1>5, <2>1, <2>2
<1>. QED BY <1>7, <1>8

LEMMA TermsTyped ==
  ASSUME NEW c \in TransformCalls, NEW a, ListedIn(c, a), NEW item \in TR!ToSet(c.laid),
         \A k \in WritersIn(c, a, item) : AddsTo(c.transforms[a[k]], item)
  PROVE  /\ TermsIn(c, a, item) \in Seq(Int) /\ Len(TermsIn(c, a, item)) = Len(a)
         /\ Len(a) \in Nat /\ DOMAIN a = 1..Len(a)
<1>. DEFINE T == TermsIn(c, a, item)
<1>1. Len(a) \in Nat /\ DOMAIN a = 1..Len(a)
  BY DEF ListedIn
<1>2. ASSUME NEW k \in DOMAIN a PROVE T[k] \in Int
  <2>1. CASE k \in WritersIn(c, a, item)
    <3>1. TR!Declared(c.transforms[a[k]], item) \in Int
      <4>. DEFINE p == a[k]
      <4>1. p \in DOMAIN c.transforms /\ Given(c.transforms[p]) /\ AddsTo(c.transforms[p], item)
        BY <2>1 DEF ListedIn
      <4>. HIDE DEF p
      <4>2. TR!Declared(c.transforms[p], item) \in Int
        BY <4>1, DeclaredTyped
      <4>. QED BY <4>2 DEF p
    <3>. QED BY <2>1, <3>1 DEF TermsIn
  <2>2. CASE k \notin WritersIn(c, a, item)
    BY <2>2 DEF TermsIn
  <2>. QED BY <2>1, <2>2
<1>3. T = [k \in DOMAIN a |-> T[k]]
  BY DEF TermsIn
<1>. HIDE DEF T
<1>4. T \in [1..Len(a) -> Int]
  BY <1>1, <1>2, <1>3
<1>5. T \in Seq(Int) /\ Len(T) = Len(a)
  BY <1>1, <1>4, ListOf
<1>. QED BY <1>1, <1>5 DEF T

(* One more applied transform leaves the sums before it as they were.      *)
LEMMA OneMoreAdded ==
  ASSUME NEW c \in TransformCalls, NEW a, ListedIn(c, a), NEW p \in DOMAIN c.transforms,
         p \in Nat, Given(c.transforms[p]), NEW item, InCall(c, item),
         AddedIn(c, Append(a, p), item)
  PROVE  LET b == Append(a, p)
             m == Len(a) + 1
         IN  /\ ListedIn(c, b) /\ Len(a) \in Nat /\ Len(b) = m /\ m \in DOMAIN b /\ b[m] = p
             /\ AddedIn(c, a, item)
             /\ HeldAfter(c, a, item, Len(a)) \in Int
             /\ TermsIn(c, b, item)[m] \in Int
             /\ HeldAfter(c, b, item, m) = HeldAfter(c, a, item, Len(a)) + TermsIn(c, b, item)[m]
<1>. DEFINE b == Append(a, p)
            m == Len(a) + 1
            A == TermsIn(c, a, item)
            B == TermsIn(c, b, item)
            first == TR!Number(TR!Bytes(c.record, item))
<1>1. /\ Len(a) \in Nat /\ DOMAIN a = 1..Len(a) /\ b \in Seq(Nat)
      /\ Len(b) = m /\ DOMAIN b = 1..m /\ b[m] = p /\ \A k \in DOMAIN a : b[k] = a[k]
  BY DEF ListedIn
<1>. HIDE DEF b
<1>2. DOMAIN b = DOMAIN a \cup {m} /\ m \notin DOMAIN a
  BY <1>1
<1>3. ListedIn(c, b)
  BY <1>1, <1>2 DEF ListedIn
<1>4. item \in TR!ToSet(c.laid)
  BY DEF InCall
<1>5. \A k \in DOMAIN a : k \in WritersIn(c, b, item) <=> k \in WritersIn(c, a, item)
  BY <1>1, <1>2 DEF WritersIn
<1>6. \A k \in WritersIn(c, a, item) :
        k \in DOMAIN a /\ k \in WritersIn(c, b, item) /\ b[k] = a[k]
  BY <1>1, <1>5 DEF WritersIn
<1>7. \A k \in WritersIn(c, b, item) : AddsTo(c.transforms[b[k]], item)
  BY DEF AddedIn, b
<1>8. \A k \in WritersIn(c, a, item) : AddsTo(c.transforms[a[k]], item)
  BY <1>6, <1>7
<1>9. /\ A \in Seq(Int) /\ Len(A) = Len(a) /\ B \in Seq(Int) /\ Len(B) = Len(b)
  BY <1>3, <1>4, <1>7, <1>8, TermsTyped
<1>10. \A k \in DOMAIN a : B[k] = A[k]
  BY <1>1, <1>2, <1>5 DEF TermsIn
<1>11. first \in Int
  <2>1. /\ c.record \in Seq(0..19) /\ item.offset \in Nat /\ item.size \in Nat
        /\ item.offset + item.size <= Len(c.record)
    BY <1>4, TransformCallTypes DEF InCall
  <2>. QED BY <2>1, BytesHeld
<1>. HIDE DEF A, B, first
<1>12. ASSUME NEW k \in 0..Len(a) PROVE BC!Sums(A)[k] = BC!Sums(B)[k]
  <2>1. k \in Nat /\ k <= Len(A) /\ k <= Len(B) /\ \A j \in 1..k : j \in DOMAIN a
    BY <1>1, <1>9
  <2>2. \A j \in 1..k : A[j] = B[j]
    BY <1>10, <2>1
  <2>. QED BY <1>9, <2>1, <2>2, SumsOfPrefix
<1>13. /\ m \in 1..Len(B) /\ m - 1 = Len(a) /\ Len(a) \in 0..Len(A)
  BY <1>1, <1>9
<1>14. BC!Sums(B)[m] = BC!Sums(B)[Len(a)] + B[m] /\ B[m] \in Int /\ BC!Sums(A)[Len(a)] \in Int
  <2>1. BC!Sums(B)[m] = BC!Sums(B)[m - 1] + B[m]
    BY <1>9, <1>13, EachSum
  <2>2. B[m] \in Int
    BY <1>9, <1>13
  <2>3. BC!Sums(A)[Len(a)] \in Int
    BY <1>9, <1>13, EachSum
  <2>. QED BY <1>13, <2>1, <2>2, <2>3
<1>15. BC!Sums(A)[Len(a)] = BC!Sums(B)[Len(a)]
  <2>1. Len(a) \in 0..Len(a)
    BY <1>1
  <2>. QED BY <1>12, <2>1
<1>16. /\ HeldAfter(c, a, item, Len(a)) = first + BC!Sums(A)[Len(a)]
       /\ HeldAfter(c, b, item, m) = first + BC!Sums(B)[m]
  BY DEF HeldAfter, A, B, first
<1>17. /\ HeldAfter(c, a, item, Len(a)) \in Int
       /\ HeldAfter(c, b, item, m) = HeldAfter(c, a, item, Len(a)) + B[m]
  BY <1>11, <1>14, <1>15, <1>16
<1>18. ASSUME NEW k \in WritersIn(c, a, item)
       PROVE  HeldAfter(c, a, item, k) \in TR!Values(item)
  <2>1. k \in 0..Len(a)
    BY <1>1, <1>6
  <2>2. HeldAfter(c, b, item, k) \in TR!Values(item)
    BY <1>6 DEF AddedIn, b
  <2>3. HeldAfter(c, a, item, k) = HeldAfter(c, b, item, k)
    BY <1>12, <2>1 DEF HeldAfter, A, B
  <2>. QED BY <2>2, <2>3
<1>19. AddedIn(c, a, item)
  BY <1>8, <1>18 DEF AddedIn
<1>. QED BY <1>1, <1>2, <1>3, <1>14, <1>17, <1>19 DEF b, B

LEMMA OperandTyped ==
  ASSUME NEW a \in TR!Amounts, NEW item, item.size \in Nat, item.scale \in Nat
  PROVE  TR!Operand(a, item) \in Int
<1>. DEFINE f == a.fraction
            z == [k \in 1..item.scale |-> 0]
            cents == SubSeq(f \o z, 1, item.scale)
            ds == a.whole \o cents
            whole == IF item.size > item.scale THEN item.size - item.scale ELSE 1
            D == 0..9
<1>1. a.whole \in Seq(D) /\ f \in Seq(D)
  BY DEF TR!Amounts
<1>2. z \in Seq(D) /\ Len(z) = item.scale
  OBVIOUS
<1>3. \A x \in D : x \in Nat
  OBVIOUS
<1>. HIDE DEF f, z, D
<1>4. f \o z \in Seq(D) /\ Len(f \o z) = Len(f) + Len(z) /\ Len(f) \in Nat
  BY <1>1, <1>2, ConcatProperties
<1>5. cents \in Seq(D)
  <2>. DEFINE g == f \o z
              n == item.scale
  <2>1. g \in Seq(D) /\ n \in Nat /\ 0 \in Nat /\ 0 + n <= Len(g)
    BY <1>2, <1>4
  <2>. HIDE DEF g, n
  <2>2. SubSeq(g, 0 + 1, 0 + n) \in Seq(D)
    BY <2>1, PartOf
  <2>3. 0 + 1 = 1 /\ 0 + n = n
    BY <2>1
  <2>. QED BY <2>2, <2>3 DEF g, n
<1>. HIDE DEF cents
<1>6. ds \in Seq(D)
  BY <1>1, <1>5, ConcatProperties
<1>. HIDE DEF ds
<1>7. TR!Magnitude(ds) \in Nat
  <2>1. Len(ds) \in Nat /\ Len(ds) \in 0..Len(ds) /\ \A k \in 1..Len(ds) : ds[k] \in Nat
    BY <1>3, <1>6
  <2>. QED BY <2>1, EachDigit, DigitsRead
<1>8. BC!TenTo(whole + item.scale) \in Nat \ {0}
  <2>1. whole + item.scale \in Nat
    OBVIOUS
  <2>. QED BY <2>1, TenMore
<1>. DEFINE m == TR!Magnitude(ds) % TR!TenTo(whole + item.scale)
<1>9. m \in Int
  <2>1. \A x \in Nat : \A p \in Nat \ {0} : x % p \in Int
    OBVIOUS
  <2>. QED BY <1>7, <1>8, <2>1, SameArithmetic
<1>10. TR!Operand(a, item) = IF a.negative THEN -m ELSE m
  BY DEF TR!Operand, ds, cents, f, z
<1>. HIDE DEF m
<1>. QED BY <1>9, <1>10

TransformShape ==
  /\ call \in TransformCalls
  /\ pc \in {"applying", "done", "error", "panic"}
  /\ at \in 1..(Len(call.transforms) + 1)
  /\ after \in [DOMAIN call.record -> 0..19]
  /\ ListedIn(call, applied)
  /\ findings \in Seq({"undeclared", "failed"} \X Nat)
  /\ \A k \in 1..(at - 1) :
       (\E j \in DOMAIN applied : applied[j] = k) \/ (\E j \in DOMAIN findings : findings[j][2] = k)
  /\ \A j \in DOMAIN applied : applied[j] \in 1..(at - 1)
  /\ \A j \in DOMAIN findings : findings[j][2] \in 1..(at - 1)
  /\ Len(applied) + Len(findings) = at - 1

LEMMA ShapeTyped ==
  ASSUME TransformShape
  PROVE  /\ after \in Seq(0..19) /\ Len(after) = Len(call.record) /\ Len(after) \in Nat
         /\ at \in Nat /\ Len(call.transforms) \in Nat
         /\ at <= Len(call.transforms) =>
              at \in DOMAIN call.transforms /\ TR!Current = call.transforms[at]
<1>1. DOMAIN call.record = 1..Len(call.record) /\ Len(call.record) \in Nat
  BY TransformCallTypes DEF TransformShape
<1>2. after \in Seq(0..19) /\ Len(after) = Len(call.record)
  <2>. DEFINE D == 0..19
              n == Len(call.record)
  <2>1. n \in Nat /\ after \in [1..n -> D]
    BY <1>1 DEF TransformShape
  <2>. HIDE DEF D, n
  <2>2. after \in Seq(D) /\ Len(after) = n
    BY <2>1, ListOf
  <2>. QED BY <2>2 DEF D, n
<1>3. DOMAIN call.transforms = 1..Len(call.transforms) /\ Len(call.transforms) \in Nat
  BY TransformCallsTyped DEF TransformShape, TR!CallsTyped
<1>4. at \in Nat /\ 1 <= at
  BY <1>3 DEF TransformShape
<1>. QED BY <1>1, <1>2, <1>3, <1>4 DEF TR!Current

(* The kernel gives the digits of the field, or nothing.                   *)
LEMMA ResultTyped ==
  ASSUME TransformShape, TR!Applying, ~TR!NeedsAmount,
         NEW item \in TR!ToSet(call.laid), TR!InRecord(item),
         NEW bytes \in TR!Results(item), Len(bytes) = item.size
  PROVE  bytes \in [1..item.size -> 0..19]
<1>0. /\ item.offset \in Nat /\ item.size \in Nat /\ item.scale \in Nat
      /\ at \in DOMAIN call.transforms /\ TR!Current = call.transforms[at]
  BY ShapeTyped, TransformCallTypes DEF TransformShape, TR!Applying
<1>1. CASE TR!Current.op = "set"
  <2>1. PICK c \in TR!Condition : bytes = c.literal
    BY <1>1 DEF TR!Results
  <2>2. c \in [name : STRING, parent : STRING, literal : Seq(0..19)]
    BY NamedIsListed, TransformCallsTyped DEF TR!Condition, TR!CallsTyped, TransformShape
  <2>. DEFINE D == 0..19
              n == item.size
  <2>3. bytes \in Seq(D) /\ Len(bytes) = n
    BY <2>1, <2>2
  <2>. HIDE DEF D, n
  <2>4. bytes \in [1..n -> D]
    BY <2>3
  <2>. QED BY <2>4 DEF D, n
<1>2. CASE TR!Current.op # "set"
  <2>1. PICK operand \in TR!Operands(item) : bytes \in TR!Arith(item, operand)
    BY <1>2 DEF TR!Results
  <2>2. operand \in Int
    <3>1. CASE TR!Current.amount = Malformed
      BY <2>1, <3>1, TransformCallsTyped DEF TR!Operands, TR!CallsTyped
    <3>2. CASE TR!Current.amount # Malformed
      <4>1. TR!Current.amount \in TR!Amounts
        BY <1>0, <1>2, <3>2, TransformCallTypes DEF TransformShape, TR!NeedsAmount
      <4>2. operand = TR!Operand(TR!Current.amount, item)
        BY <2>1, <3>2 DEF TR!Operands
      <4>. QED BY <1>0, <4>1, <4>2, OperandTyped
    <3>. QED BY <3>1, <3>2
  <2>. DEFINE held == TR!Number(TR!Bytes(after, item))
              n == held + (IF TR!Current.op = "add" THEN operand ELSE -operand)
              limit == TR!TenTo(item.size)
  <2>3. held \in Int
    BY <1>0, ShapeTyped, BytesHeld DEF TR!InRecord
  <2>4. limit \in Nat \ {0}
    BY <1>0, TenMore, SameArithmetic
  <2>. HIDE DEF held, limit
  <2>5. n \in Int
    BY <2>2, <2>3
  <2>. HIDE DEF n
  <2>6. \A p \in Nat \ {0} : \A x \in Int : x % p \in Int /\ -((-x) % p) \in Int
    OBVIOUS
  <2>7. n % limit \in Int /\ -((-n) % limit) \in Int
    BY <2>4, <2>5, <2>6
  <2>8. TR!Arith(item, operand) =
          IF n \in (-limit + 1)..(limit - 1) THEN {TR!Stored(n, item)}
          ELSE {<<>>, TR!Stored(IF n < 0 THEN -((-n) % limit) ELSE n % limit, item)}
    BY DEF TR!Arith, n, held, limit
  <2>9. bytes = <<>> \/ \E x \in Int : bytes = TR!Stored(x, item)
    BY <2>1, <2>5, <2>7, <2>8
  <2>10. CASE bytes = <<>>
    <3>1. item.size = 0
      BY <2>10
    <3>. QED BY <2>10, <3>1
  <2>11. ASSUME NEW x \in Int, bytes = TR!Stored(x, item) PROVE bytes \in [1..item.size -> 0..19]
    BY <1>0, <2>11, StoredTyped
  <2>. QED BY <2>9, <2>10, <2>11
<1>. QED BY <1>1, <1>2

(* What Apply writes, and where.                                           *)
LEMMA WhatIsApplied ==
  ASSUME TransformShape, TR!Apply
  PROVE  /\ call' = call /\ pc' = pc /\ findings' = findings
         /\ at' = at + 1 /\ applied' = Append(applied, at)
         /\ at \in DOMAIN call.transforms /\ TR!Current = call.transforms[at]
         /\ Given(call.transforms[at])
         /\ \E item \in ItemIn(call, call.transforms[at]) :
              /\ item \in TR!ToSet(call.laid) /\ item.offset + item.size <= Len(after)
              /\ \E bytes \in [1..item.size -> 0..19] :
                   bytes \in TR!Results(item) /\ after' = TR!Write(after, item, bytes)
<1>1. /\ TR!Applying /\ ~TR!NeedsAmount
      /\ call' = call /\ pc' = pc /\ findings' = findings
      /\ at' = at + 1 /\ applied' = Append(applied, at)
      /\ \E item \in TR!TargetItem :
           /\ TR!InRecord(item)
           /\ \E bytes \in TR!Results(item) :
                Len(bytes) = item.size /\ after' = TR!Write(after, item, bytes)
  BY DEF TR!Apply
<1>2. at \in DOMAIN call.transforms /\ TR!Current = call.transforms[at]
  BY <1>1, ShapeTyped DEF TR!Applying
<1>3. Given(call.transforms[at])
  BY <1>1, <1>2 DEF Given, TR!NeedsAmount
<1>4. PICK item \in TR!TargetItem :
         /\ TR!InRecord(item)
         /\ \E bytes \in TR!Results(item) :
              Len(bytes) = item.size /\ after' = TR!Write(after, item, bytes)
  BY <1>1
<1>5. PICK bytes \in TR!Results(item) : Len(bytes) = item.size /\ after' = TR!Write(after, item, bytes)
  BY <1>4
<1>6. item \in ItemIn(call, call.transforms[at])
  BY <1>2, OneTarget
<1>7. item \in TR!ToSet(call.laid)
  <2>1. call.laid \in Seq(TR!ToSet(call.laid))
    <3>. DEFINE S == TR!ToSet(call.laid)
    <3>1. call.laid \in Seq(TR!Items) /\ \A k \in DOMAIN call.laid : call.laid[k] \in S
      BY TransformCallTypes DEF TransformShape, TR!ToSet
    <3>. HIDE DEF S
    <3>2. call.laid \in [1..Len(call.laid) -> S] /\ Len(call.laid) \in Nat
      BY <3>1
    <3>3. call.laid \in Seq(S)
      BY <3>2, ListOf
    <3>. QED BY <3>3 DEF S
  <2>2. PICK name : item \in TR!FirstNamed(call.laid, name)
    BY <1>4 DEF TR!TargetItem
  <2>. QED BY <2>1, <2>2, NamedIsListed
<1>8. bytes \in [1..item.size -> 0..19]
  BY <1>1, <1>4, <1>5, <1>7, ResultTyped
<1>9. item.offset + item.size <= Len(after)
  BY <1>4 DEF TR!InRecord
<1>. QED BY <1>1, <1>2, <1>3, <1>5, <1>6, <1>7, <1>8, <1>9

Composes ==
  \A item : InCall(call, item) /\ AddedIn(call, applied, item)
    => TR!Number(TR!Bytes(after, item)) = HeldAfter(call, applied, item, Len(applied))

(* One addition within the range of the field.                             *)
LEMMA AddedExactly ==
  ASSUME TransformShape, TR!Applying, ~TR!NeedsAmount,
         NEW item \in TR!ToSet(call.laid), item.offset + item.size <= Len(after), item.size # 0,
         AddsTo(call.transforms[at], item),
         NEW n \in TR!Values(item),
         n = TR!Number(TR!Bytes(after, item)) + TR!Declared(call.transforms[at], item),
         NEW bytes \in TR!Results(item)
  PROVE  TR!Number(bytes) = n
<1>1. /\ item.offset \in Nat /\ item.size \in Nat \ {0} /\ item.scale \in Nat /\ item.signed \in BOOLEAN
      /\ at \in DOMAIN call.transforms /\ TR!Current = call.transforms[at]
  BY ShapeTyped, TransformCallTypes DEF TransformShape, TR!Applying
<1>. DEFINE t == call.transforms[at]
            operand == TR!Operand(t.amount, item)
            held == TR!Number(TR!Bytes(after, item))
            limit == TR!TenTo(item.size)
<1>2. t.op # "set" /\ t.amount # Malformed /\ Given(t)
  BY <1>1 DEF AddsTo, TR!NeedsAmount, Given
<1>3. t.amount \in TR!Amounts
  BY <1>1, <1>2, TransformCallTypes DEF TransformShape, Given
<1>4. operand \in Int /\ TR!Declared(t, item) = IF t.op = "add" THEN operand ELSE -operand
  <2>1. TR!Declared(t, item) = IF t.op = "add" THEN operand ELSE -operand
    BY <1>1, <1>2, DeclaredTyped DEF TransformShape
  <2>2. operand \in Int
    BY <1>1, <1>3, OperandTyped
  <2>. QED BY <2>1, <2>2
<1>5. bytes \in TR!Arith(item, operand)
  BY <1>1, <1>2 DEF TR!Results, TR!Operands
<1>6. n \in Int /\ TR!Number(TR!Stored(n, item)) = n
  BY <1>1, StoredRead
<1>7. n = held + (IF t.op = "add" THEN operand ELSE -operand)
  BY <1>4
<1>8. n \in (-limit + 1)..(limit - 1)
  <2>1. limit \in Nat \ {0}
    BY <1>1, TenMore, SameArithmetic
  <2>2. n \in (IF item.signed THEN -limit + 1 ELSE 0)..(limit - 1)
    BY DEF TR!Values
  <2>. HIDE DEF limit
  <2>3. CASE item.signed
    BY <2>2, <2>3
  <2>4. CASE ~item.signed
    <3>1. n \in 0..(limit - 1)
      BY <2>2, <2>4
    <3>. QED BY <2>1, <3>1
  <2>. QED BY <2>3, <2>4
<1>9. TR!Arith(item, operand) = {TR!Stored(n, item)}
  <2>. DEFINE r == held + (IF TR!Current.op = "add" THEN operand ELSE -operand)
  <2>1. r = n
    BY <1>1, <1>7
  <2>2. TR!Arith(item, operand) =
          IF r \in (-limit + 1)..(limit - 1) THEN {TR!Stored(r, item)}
          ELSE {<<>>, TR!Stored(IF r < 0 THEN -((-r) % limit) ELSE r % limit, item)}
    BY DEF TR!Arith
  <2>. HIDE DEF r, limit
  <2>. QED BY <1>8, <2>1, <2>2
<1>. QED BY <1>5, <1>6, <1>9

LEMMA ComposesApplied ==
  ASSUME TransformShape, Composes, TR!Apply PROVE Composes'
<1>. DEFINE t == call.transforms[at]
            b == Append(applied, at)
            m == Len(applied) + 1
<1>1. /\ call' = call /\ applied' = b
      /\ at \in DOMAIN call.transforms /\ TR!Current = t /\ Given(t)
      /\ TR!Applying /\ ~TR!NeedsAmount
  BY WhatIsApplied DEF TR!Apply
<1>2. PICK target \in ItemIn(call, t) :
         /\ target \in TR!ToSet(call.laid) /\ target.offset + target.size <= Len(after)
         /\ \E bytes \in [1..target.size -> 0..19] :
              bytes \in TR!Results(target) /\ after' = TR!Write(after, target, bytes)
  BY WhatIsApplied
<1>3. PICK bytes \in [1..target.size -> 0..19] :
         bytes \in TR!Results(target) /\ after' = TR!Write(after, target, bytes)
  BY <1>2
<1>4. SUFFICES ASSUME NEW item, InCall(call, item), AddedIn(call, b, item)
               PROVE  TR!Number(TR!Bytes(after', item)) = HeldAfter(call, b, item, Len(b))
  BY <1>1 DEF Composes
<1>. DEFINE term == TermsIn(call, b, item)[m]
            before == HeldAfter(call, applied, item, Len(applied))
<1>5. /\ Len(b) = m /\ m \in DOMAIN b /\ b[m] = at
      /\ AddedIn(call, applied, item) /\ before \in Int /\ term \in Int
      /\ HeldAfter(call, b, item, m) = before + term
  <2>1. at \in Nat
    BY ShapeTyped
  <2>. QED BY <1>1, <1>4, <2>1, OneMoreAdded DEF TransformShape
<1>6. TR!Number(TR!Bytes(after, item)) = before
  BY <1>4, <1>5 DEF Composes
<1>7. /\ item \in TR!ToSet(call.laid) /\ item.offset \in Nat /\ item.size \in Nat
      /\ item.offset + item.size <= Len(after) /\ after \in Seq(0..19)
      /\ target.offset \in Nat /\ target.size \in Nat
  BY <1>2, <1>4, ShapeTyped, TransformCallTypes DEF InCall, TransformShape
<1>8. CASE m \notin WritersIn(call, b, item)
  <2>1. TR!Storage(ItemIn(call, t)) \cap TR!Storage({item}) = {}
    BY <1>5, <1>8 DEF WritersIn
  <2>2. TR!Storage({target}) \subseteq TR!Storage(ItemIn(call, t))
    BY <1>2 DEF TR!Storage
  <2>3. TR!Storage({target}) \cap TR!Storage({item}) = {}
    BY <2>1, <2>2
  <2>4. TR!Bytes(after', item) = TR!Bytes(after, item)
    BY <1>3, <1>7, <2>3, BytesElsewhere
  <2>5. term = 0
    BY <1>5, <1>8 DEF TermsIn
  <2>6. before + 0 = before
    BY <1>5
  <2>. QED BY <1>5, <1>6, <2>4, <2>5, <2>6
<1>9. CASE m \in WritersIn(call, b, item)
  <2>1. /\ AddsTo(t, item) /\ HeldAfter(call, b, item, m) \in TR!Values(item)
        /\ TR!FirstNamed(call.laid, item.name) = {item}
    BY <1>4, <1>5, <1>9 DEF AddedIn
  <2>2. ItemIn(call, t) = {item}
    BY <2>1 DEF AddsTo, ItemIn
  <2>3. target = item
    BY <1>2, <2>2
  <2>4. item.size # 0
    <3>1. TR!Storage({item}) # {}
      BY <1>9 DEF WritersIn
    <3>2. (item.offset + 1)..(item.offset + item.size) # {}
      BY <3>1 DEF TR!Storage
    <3>3. item.size = 0 => (item.offset + 1)..(item.offset + item.size) = {}
      BY <1>7
    <3>. QED BY <3>2, <3>3
  <2>5. term = TR!Declared(t, item)
    BY <1>5, <1>9 DEF TermsIn
  <2>. DEFINE n == HeldAfter(call, b, item, m)
  <2>6. n \in TR!Values(item) /\ n = TR!Number(TR!Bytes(after, item)) + TR!Declared(t, item)
    BY <1>5, <1>6, <2>1, <2>5
  <2>. HIDE DEF n
  <2>7. TR!Number(bytes) = n
    BY <1>1, <1>3, <1>7, <2>1, <2>3, <2>4, <2>6, AddedExactly
  <2>8. TR!Bytes(after', item) = bytes
    BY <1>3, <1>7, <2>3, BytesWritten
  <2>. QED BY <1>5, <2>7, <2>8 DEF n
<1>. QED BY <1>8, <1>9

LEMMA OneTried ==
  ASSUME NEW x \in Nat, NEW y \in Nat, NEW z \in Nat, x + y = z - 1,
         NEW u, NEW v, (u = x + 1 /\ v = y) \/ (u = x /\ v = y + 1)
  PROVE  u + v = z
<1>1. x + y + 1 = z
  OBVIOUS
<1>. QED BY <1>1

(* The transforms tried so far are the ones applied and the ones reported.  *)
LEMMA OneTransformMore ==
  ASSUME TransformShape, at <= Len(call.transforms), pc' = pc, call' = call, at' = at + 1,
         after' \in [DOMAIN call.record -> 0..19],
         \/ /\ applied' = Append(applied, at) /\ findings' = findings
            /\ Given(call.transforms[at])
         \/ /\ applied' = applied
            /\ \E rule \in {"undeclared", "failed"} : findings' = Append(findings, <<rule, at>>)
  PROVE  TransformShape'
<1>. DEFINE R == {"undeclared", "failed"} \X Nat
<1>1. /\ at \in Nat /\ 1 <= at /\ at \in DOMAIN call.transforms /\ Len(call.transforms) \in Nat
      /\ applied \in Seq(Nat) /\ findings \in Seq(R)
      /\ Len(applied) \in Nat /\ Len(findings) \in Nat /\ Len(applied) + Len(findings) = at - 1
  <2>1. /\ at \in Nat /\ 1 <= at /\ at \in DOMAIN call.transforms /\ Len(call.transforms) \in Nat
    BY ShapeTyped DEF TransformShape
  <2>2. applied \in Seq(Nat) /\ findings \in Seq(R) /\ Len(applied) + Len(findings) = at - 1
    BY DEF TransformShape, ListedIn
  <2>. HIDE DEF R
  <2>3. Len(applied) \in Nat /\ Len(findings) \in Nat
    BY <2>2
  <2>. QED BY <2>1, <2>2, <2>3
<1>2. at' \in 1..(Len(call.transforms) + 1) /\ (at' - 1) = at
  BY <1>1
<1>3. \A k \in 1..at : k \in 1..(at - 1) \/ k = at
  BY <1>1
<1>4. 1..(at - 1) \subseteq 1..at /\ at \in 1..at
  BY <1>1
<1>. HIDE DEF R
<1>5. CASE /\ applied' = Append(applied, at) /\ findings' = findings
           /\ Given(call.transforms[at])
  <2>1. /\ applied' \in Seq(Nat) /\ DOMAIN applied' = DOMAIN applied \cup {Len(applied) + 1}
        /\ applied'[Len(applied) + 1] = at /\ Len(applied') = Len(applied) + 1
        /\ \A j \in DOMAIN applied : applied'[j] = applied[j]
    BY <1>1, <1>5
  <2>2. ListedIn(call, applied')
    BY <1>1, <1>5, <2>1 DEF ListedIn, TransformShape
  <2>3. \A j \in DOMAIN applied' : applied'[j] \in 1..at
    BY <1>4, <2>1 DEF TransformShape
  <2>4. ASSUME NEW k \in 1..at
        PROVE  \/ \E j \in DOMAIN applied' : applied'[j] = k
               \/ \E j \in DOMAIN findings : findings[j][2] = k
    <3>1. CASE k = at
      BY <2>1, <3>1
    <3>2. CASE k \in 1..(at - 1)
      BY <2>1, <3>2 DEF TransformShape
    <3>. QED BY <1>3, <3>1, <3>2
  <2>5. \A j \in DOMAIN findings : findings[j][2] \in 1..at
    BY <1>4 DEF TransformShape
  <2>6. Len(applied') + Len(findings') = at
    <3>1. Len(applied') = Len(applied) + 1 /\ findings' = findings
      BY <1>5, <2>1
    <3>2. Len(findings') = Len(findings)
      BY <3>1
    <3>. QED BY <1>1, <3>1, <3>2, OneTried
  <2>. QED BY <1>2, <1>5, <2>2, <2>3, <2>4, <2>5, <2>6 DEF TransformShape
<1>6. ASSUME NEW rule \in {"undeclared", "failed"},
             applied' = applied, findings' = Append(findings, <<rule, at>>)
      PROVE  TransformShape'
  <2>0. <<rule, at>> \in R
    BY <1>1 DEF R
  <2>1. /\ findings' \in Seq(R) /\ DOMAIN findings' = DOMAIN findings \cup {Len(findings) + 1}
        /\ findings'[Len(findings) + 1] = <<rule, at>> /\ Len(findings') = Len(findings) + 1
        /\ \A j \in DOMAIN findings : findings'[j] = findings[j]
    BY <1>1, <1>6, <2>0
  <2>2. findings'[Len(findings) + 1][2] = at
    BY <2>1
  <2>3. \A j \in DOMAIN findings' : findings'[j][2] \in 1..at
    BY <1>4, <2>1, <2>2 DEF TransformShape
  <2>4. ASSUME NEW k \in 1..at
        PROVE  \/ \E j \in DOMAIN applied : applied[j] = k
               \/ \E j \in DOMAIN findings' : findings'[j][2] = k
    <3>1. CASE k = at
      BY <2>1, <2>2, <3>1
    <3>2. CASE k \in 1..(at - 1)
      BY <2>1, <3>2 DEF TransformShape
    <3>. QED BY <1>3, <3>1, <3>2
  <2>5. \A j \in DOMAIN applied : applied[j] \in 1..at
    BY <1>4 DEF TransformShape
  <2>6. Len(applied') + Len(findings') = at
    <3>1. Len(findings') = Len(findings) + 1 /\ applied' = applied
      BY <1>6, <2>1
    <3>2. Len(applied') = Len(applied)
      BY <3>1
    <3>. QED BY <1>1, <3>1, <3>2, OneTried
  <2>7. findings' \in Seq({"undeclared", "failed"} \X Nat)
    BY <2>1 DEF R
  <2>. QED BY <1>2, <1>6, <2>3, <2>4, <2>5, <2>6, <2>7 DEF TransformShape
<1>. QED BY <1>5, <1>6

ComposeInv == TransformShape /\ Composes

LEMMA ComposeStart == TR!Init => ComposeInv
<1>. SUFFICES ASSUME TR!Init PROVE ComposeInv
  OBVIOUS
<1>1. /\ call \in TransformCalls /\ pc = "applying" /\ at = 1 /\ after = call.record
      /\ applied = <<>> /\ findings = <<>>
  BY DEF TR!Init
<1>2. Len(call.transforms) \in Nat
  BY <1>1, TransformCallsTyped DEF TR!CallsTyped
<1>3. after \in [DOMAIN call.record -> 0..19]
  <2>. DEFINE D == 0..19
              rec == call.record
  <2>1. rec \in Seq(D)
    BY <1>1, TransformCallTypes
  <2>. HIDE DEF D, rec
  <2>2. rec \in [DOMAIN rec -> D]
    BY <2>1
  <2>. QED BY <1>1, <2>2 DEF D, rec
<1>4. ListedIn(call, applied)
  BY <1>1 DEF ListedIn
<1>5. TransformShape
  BY <1>1, <1>2, <1>3, <1>4 DEF TransformShape
<1>6. ASSUME NEW item, InCall(call, item), AddedIn(call, applied, item)
      PROVE  TR!Number(TR!Bytes(after, item)) = HeldAfter(call, applied, item, Len(applied))
  <2>1. /\ item \in TR!ToSet(call.laid) /\ item.offset \in Nat /\ item.size \in Nat
        /\ item.offset + item.size <= Len(call.record) /\ call.record \in Seq(0..19)
    BY <1>1, <1>6, TransformCallTypes DEF InCall
  <2>2. TR!Number(TR!Bytes(call.record, item)) \in Int
    BY <2>1, BytesHeld
  <2>3. TermsIn(call, applied, item) \in Seq(Int)
    BY <1>1, <1>4, <1>6, <2>1, TermsTyped DEF AddedIn
  <2>4. BC!Sums(TermsIn(call, applied, item))[0] = 0 /\ Len(applied) = 0
    BY <1>1, <2>3, EachSum
  <2>. QED BY <1>1, <2>2, <2>4 DEF HeldAfter
<1>. QED BY <1>5, <1>6 DEF ComposeInv, Composes

LEMMA ComposeStep == ComposeInv /\ TR!Next => ComposeInv'
<1>. SUFFICES ASSUME TransformShape, Composes, TR!Next PROVE ComposeInv'
  BY DEF ComposeInv
<1>1. CASE TR!Apply
  <2>1. /\ call' = call /\ pc' = pc /\ findings' = findings /\ at' = at + 1
        /\ applied' = Append(applied, at) /\ Given(call.transforms[at])
        /\ at <= Len(call.transforms)
    BY <1>1, WhatIsApplied DEF TR!Apply, TR!Applying
  <2>2. PICK target \in TR!ToSet(call.laid) :
           \E bytes \in [1..target.size -> 0..19] : after' = TR!Write(after, target, bytes)
    BY <1>1, WhatIsApplied
  <2>3. after' \in [DOMAIN call.record -> 0..19]
    <3>1. after \in Seq(0..19) /\ target.offset \in Nat /\ target.size \in Nat
      BY <2>2, ShapeTyped, TransformCallTypes DEF TransformShape
    <3>2. after' \in [DOMAIN after -> 0..19]
      <4>1. PICK bytes \in [1..target.size -> 0..19] : after' = TR!Write(after, target, bytes)
        BY <2>2
      <4>2. TR!Write(after, target, bytes) \in [DOMAIN after -> 0..19]
        BY <3>1, WriteTyped
      <4>. QED BY <4>1, <4>2
    <3>3. DOMAIN after = DOMAIN call.record
      BY DEF TransformShape
    <3>. QED BY <3>2, <3>3
  <2>4. TransformShape'
    BY <2>1, <2>3, OneTransformMore
  <2>. QED BY <1>1, <2>4, ComposesApplied DEF ComposeInv
<1>2. CASE TR!Undeclared \/ TR!Fail
  <2>1. /\ at <= Len(call.transforms) /\ UNCHANGED <<call, pc, after, applied>> /\ at' = at + 1
        /\ \E rule \in {"undeclared", "failed"} : findings' = Append(findings, <<rule, at>>)
    BY <1>2 DEF TR!Undeclared, TR!Fail, TR!Report, TR!Applying
  <2>2. after' \in [DOMAIN call.record -> 0..19]
    BY <2>1 DEF TransformShape
  <2>3. TransformShape'
    BY <2>1, <2>2, OneTransformMore
  <2>4. Composes'
    BY <2>1 DEF Composes
  <2>. QED BY <2>3, <2>4 DEF ComposeInv
<1>3. CASE \/ TR!Refuse \/ TR!OutOfRecord \/ TR!MalformedAmount \/ TR!Finish \/ TR!Terminated
  <2>1. /\ UNCHANGED <<call, at, after, applied, findings>>
        /\ pc' \in {"applying", "done", "error", "panic"}
    BY <1>3 DEF TR!Refuse, TR!OutOfRecord, TR!MalformedAmount, TR!Finish, TR!Terminated, TR!vars,
                TransformShape
  <2>. QED BY <2>1 DEF ComposeInv, TransformShape, Composes
<1>. QED BY <1>1, <1>2, <1>3 DEF TR!Next

LEMMA ComposeInvariant == Spec => [](court = "reconcile_transform" => ComposeInv)
<1>. DEFINE IInv == court = "reconcile_transform" => ComposeInv
<1>1. Init => IInv
  BY ComposeStart DEF Init
<1>2. IInv /\ [Next]_vars => IInv'
  <2>1. CASE UNCHANGED vars
    BY <2>1 DEF vars, transformVars, ComposeInv, TransformShape, Composes
  <2>2. CASE court = "reconcile_transform" /\ TR!Next /\ court' = court
    BY <2>2, ComposeStep
  <2>. QED BY <2>1, <2>2 DEF Next
<1>. QED BY <1>1, <1>2, PTL DEF Spec

(* Transforms are tried in order, each on what the ones before it left: a   *)
(* field into which nothing but its own additions wrote, of amounts it can  *)
(* hold, has its first value and all of them, with nothing lost to the      *)
(* digits it is stored as.                                                  *)
THEOREM AmountsAddUp == Spec => []TransformsCompose
<1>1. (court = "reconcile_transform" => ComposeInv) => TransformsCompose
  <2>. SUFFICES ASSUME ComposeInv,
                       NEW item \in TR!ToSet(call.laid), item.kind = "numeric",
                       TR!InRecord(item), TR!AddedOnly(item)
                PROVE  TR!Number(TR!Bytes(after, item)) = TR!Net(item, Len(applied))
    BY DEF TransformsCompose, TR!TransformsCompose
  <2>1. TR!Writers(item) = WritersIn(call, applied, item)
    BY ItemIs DEF TR!Writers, WritersIn, TR!AppliedTo
  <2>2. ASSUME NEW n PROVE TR!Net(item, n) = HeldAfter(call, applied, item, n)
    <3>1. TermsIn(call, applied, item) =
            [k \in DOMAIN applied |->
               IF k \in TR!Writers(item) THEN TR!Declared(call.transforms[applied[k]], item) ELSE 0]
      BY <2>1 DEF TermsIn
    <3>. QED BY <3>1, SameArithmetic DEF TR!Net, HeldAfter
  <2>3. AddedIn(call, applied, item)
    BY <2>1, <2>2 DEF TR!AddedOnly, AddedIn, AddsTo
  <2>4. InCall(call, item)
    BY ShapeTyped DEF InCall, TR!InRecord, ComposeInv
  <2>. QED BY <2>2, <2>3, <2>4 DEF ComposeInv, Composes
<1>. QED BY <1>1, ComposeInvariant, PTL

-----------------------------------------------------------------------------
(* The shape of what each court keeps.                                     *)
Seen == Len(entries) + (IF pc = "error" THEN 1 ELSE 0)
RouteShape ==
  /\ pc \in {"routing", "done", "error"}
  /\ pc = "error" => Len(entries) < Len(call.records)
  /\ routed \in 0..Seen /\ unmatched \in 0..Seen
  /\ byType \in [DOMAIN call.types -> 0..Seen]
  /\ output # NoOutput => pc = "done"

LEMMA OneMoreSeen ==
  ASSUME NEW n \in Nat, NEW D, NEW f \in [D -> 0..n], NEW k
  PROVE  f \in [D -> 0..(n + 1)] /\ [f EXCEPT ![k] = @ + 1] \in [D -> 0..(n + 1)]
<1>1. \A x \in 0..n : x \in 0..(n + 1) /\ x + 1 \in 0..(n + 1)
  OBVIOUS
<1>. DEFINE A == 0..n
            B == 0..(n + 1)
<1>2. \A x \in A : x \in B /\ x + 1 \in B
  BY <1>1
<1>3. f \in [D -> A]
  OBVIOUS
<1>. HIDE DEF A, B
<1>4. f \in [D -> B] /\ [f EXCEPT ![k] = @ + 1] \in [D -> B]
  BY <1>2, <1>3
<1>. QED BY <1>4 DEF B

LEMMA RouteShaped ==
  ASSUME RouteInv, RouteShape, VR!Next PROVE RouteShape'
<1>0. /\ Len(entries) \in Nat /\ Len(entries) <= Len(call.records) /\ Len(call.records) \in Nat
      /\ call \in RouteCalls
  BY RouteCallTypes DEF RouteInv, RouteTypes
<1>1. ASSUME pc = "routing", VR!More, call' = call, output' = output,
             \/ /\ Len(entries') = Len(entries) + 1 /\ pc' = pc
             \/ /\ entries' = entries /\ pc' = "error",
             \/ /\ routed' = routed + 1 /\ unmatched' = unmatched
                /\ \E k : byType' = [byType EXCEPT ![k] = @ + 1]
             \/ routed' = routed /\ unmatched' = unmatched + 1 /\ byType' = byType
      PROVE  RouteShape'
  <2>. DEFINE n == Len(entries)
  <2>1. n \in Nat /\ n < Len(call.records) /\ Seen = n
    BY <1>0, <1>1 DEF VR!More, Seen
  <2>2. Seen' = n + 1
    BY <1>1, <2>1 DEF Seen
  <2>3. routed \in 0..n /\ unmatched \in 0..n /\ byType \in [DOMAIN call.types -> 0..n]
    BY <2>1 DEF RouteShape
  <2>. HIDE DEF n
  <2>4. routed' \in 0..(n + 1) /\ unmatched' \in 0..(n + 1)
    BY <1>1, <2>1, <2>3
  <2>5. byType' \in [DOMAIN call.types -> 0..(n + 1)]
    <3>1. byType \in [DOMAIN call.types -> 0..(n + 1)]
          /\ \A k : [byType EXCEPT ![k] = @ + 1] \in [DOMAIN call.types -> 0..(n + 1)]
      BY <2>1, <2>3, OneMoreSeen
    <3>. QED BY <1>1, <3>1
  <2>6. pc' = "error" => Len(entries') < Len(call'.records)
    BY <1>1, <2>1 DEF n
  <2>. QED BY <1>1, <2>2, <2>4, <2>5, <2>6 DEF RouteShape
<1>2. CASE VR!RouteRecord \/ VR!RefuseRecord
  <2>1. \E e : entries' = Append(entries, e)
    BY <1>2 DEF VR!RouteRecord, VR!RefuseRecord
  <2>2. Len(entries') = Len(entries) + 1
    <3>1. entries \in Seq(DOMAIN call.types \cup {NoType})
      BY DEF RouteInv, RouteTypes
    <3>. QED BY <2>1, <3>1
  <2>3. /\ pc = "routing" /\ VR!More /\ call' = call /\ output' = output /\ pc' = pc
        /\ \/ /\ routed' = routed + 1 /\ unmatched' = unmatched
              /\ \E k : byType' = [byType EXCEPT ![k] = @ + 1]
           \/ routed' = routed /\ unmatched' = unmatched + 1 /\ byType' = byType
    BY <1>2 DEF VR!RouteRecord, VR!RefuseRecord
  <2>. QED BY <1>1, <2>2, <2>3
<1>3. CASE VR!FailRecord
  <2>1. /\ pc = "routing" /\ VR!More /\ call' = call /\ output' = output
        /\ entries' = entries /\ pc' = "error"
        /\ routed' = routed + 1 /\ unmatched' = unmatched
        /\ \E k : byType' = [byType EXCEPT ![k] = @ + 1]
    BY <1>3 DEF VR!FailRecord
  <2>. QED BY <1>1, <2>1
<1>4. CASE VR!Finish
  <2>1. /\ pc = "routing" /\ pc' = "done" /\ UNCHANGED <<call, entries, byType, routed, unmatched>>
    BY <1>4 DEF VR!Finish
  <2>2. Seen' = Seen
    BY <2>1 DEF Seen
  <2>. QED BY <2>1, <2>2 DEF RouteShape
<1>5. CASE VR!Terminated
  <2>1. UNCHANGED <<call, pc, entries, byType, routed, unmatched, output>>
    BY <1>5 DEF VR!Terminated, VR!vars
  <2>. QED BY <2>1 DEF RouteShape, Seen
<1>. QED BY <1>2, <1>3, <1>4, <1>5 DEF VR!Next

LEMMA RouteShapeStart == VR!Init => RouteShape
<1>. SUFFICES ASSUME VR!Init PROVE RouteShape
  OBVIOUS
<1>1. /\ pc = "routing" /\ entries = <<>> /\ routed = 0 /\ unmatched = 0 /\ output = NoOutput
      /\ byType = [k \in DOMAIN call.types |-> 0]
  BY DEF VR!Init
<1>2. Seen = 0
  BY <1>1 DEF Seen
<1>. QED BY <1>1, <1>2 DEF RouteShape

DiffShape == at \in 1..6 /\ matched \in BOOLEAN /\ (matched => at = 6)

LEMMA DiffShaped == DiffShape /\ DF!Next => DiffShape'
<1>. SUFFICES ASSUME DiffShape, DF!Next PROVE DiffShape'
  OBVIOUS
<1>0. Len(DF!Dimensions) = 4
  BY DEF DF!Dimensions
<1>1. CASE DF!Compare \/ DF!Skip
  <2>1. at \in 1..4 /\ at' = at + 1 /\ matched' = matched
    BY <1>0, <1>1 DEF DF!Compare, DF!Skip, DiffShape
  <2>2. ~matched /\ at' \in 1..6
    BY <2>1 DEF DiffShape
  <2>. QED BY <2>1, <2>2 DEF DiffShape
<1>2. CASE DF!Conclude
  <2>1. at' = 6
    BY <1>0, <1>2 DEF DF!Conclude
  <2>2. matched' \in BOOLEAN
    BY <1>2, Zenon DEF DF!Conclude
  <2>. QED BY <2>1, <2>2 DEF DiffShape
<1>3. CASE DF!Terminated
  BY <1>3 DEF DF!Terminated, DF!vars, DiffShape
<1>. QED BY <1>1, <1>2, <1>3 DEF DF!Next

FindingsTo(n) == [rule : PO!Rules, record : 0..n]
PostingShape ==
  /\ pc \in {"start", "reading", "done", "error"}
  /\ findings \in Seq(FindingsTo(idx))
  /\ (chain = <<>>) <=> (idx = 0)
  /\ result # NoField => pc = "done"

LEMMA OneFinding ==
  ASSUME NEW n \in Nat
  PROVE  /\ <<>> \in Seq(FindingsTo(n))
         /\ FindingsTo(n) \subseteq FindingsTo(n + 1)
         /\ \A list : \A rule \in PO!Rules : PO!ReportIfAny(list, rule) \in Seq(FindingsTo(n))
         /\ \A rec : PO!SequenceFinding(rec, n) \in Seq(FindingsTo(n))
         /\ \A a, b \in Seq(FindingsTo(n)) : a \o b \in Seq(FindingsTo(n))
<1>1. \A rule \in PO!Rules : PO!Finding(rule, 0) \in FindingsTo(n) /\ PO!Finding(rule, n) \in FindingsTo(n)
  BY DEF PO!Finding, FindingsTo
<1>2. FindingsTo(n) \subseteq FindingsTo(n + 1)
  <2>1. 0..n \subseteq 0..(n + 1)
    OBVIOUS
  <2>. QED BY <2>1 DEF FindingsTo
<1>. DEFINE F == FindingsTo(n)
<1>. HIDE DEF F
<1>3. <<>> \in Seq(F) /\ \A f \in F : <<f>> \in Seq(F)
  OBVIOUS
<1>4. "NO-SEQUENCE" \in PO!Rules /\ "DIRTY-SEQUENCE" \in PO!Rules
  BY DEF PO!Rules
<1>5. \A list : \A rule \in PO!Rules : PO!ReportIfAny(list, rule) \in Seq(F)
  BY <1>1, <1>3 DEF PO!ReportIfAny, F
<1>6. \A rec : PO!SequenceFinding(rec, n) \in Seq(F)
  BY <1>1, <1>3, <1>4 DEF PO!SequenceFinding, F
<1>7. \A a, b \in Seq(F) : a \o b \in Seq(F)
  BY ConcatProperties
<1>. QED BY <1>2, <1>3, <1>5, <1>6, <1>7 DEF F

LEMMA PostingShaped ==
  ASSUME UnitRead, PostingShape, PO!Next PROVE PostingShape'
<1>0. idx \in Nat
  <2>1. Len(call.data) \in Nat /\ idx \in 0..Len(call.data)
    BY UnitTypes DEF UnitRead
  <2>. QED BY <2>1
<1>1. CASE PO!ReadRecord
  <2>1. /\ pc = "reading" /\ pc' = pc /\ idx' = idx + 1 /\ result' = result
        /\ chain' = PO!Extend(chain, PO!Rec.raw)
        /\ findings' = findings \o PO!SequenceFinding(PO!Rec, idx + 1)
    BY <1>1 DEF PO!ReadRecord
  <2>2. chain' # <<>> /\ idx' # 0
    BY <1>0, <2>1, LinksDiffer
  <2>3. findings \in Seq(FindingsTo(idx + 1))
    <3>1. FindingsTo(idx) \subseteq FindingsTo(idx + 1) /\ findings \in Seq(FindingsTo(idx))
      BY <1>0, OneFinding DEF PostingShape
    <3>. QED BY <3>1, SeqMonotonic
  <2>4. findings' \in Seq(FindingsTo(idx + 1))
    <3>1. idx + 1 \in Nat
      BY <1>0
    <3>2. PO!SequenceFinding(PO!Rec, idx + 1) \in Seq(FindingsTo(idx + 1))
      BY <3>1, OneFinding
    <3>. QED BY <2>1, <2>3, <3>1, <3>2, OneFinding
  <2>. QED BY <2>1, <2>2, <2>4 DEF PostingShape
<1>2. CASE PO!Finish
  <2>. DEFINE a == PO!ReportIfAny(PO!SeqDuplicates, "DUPLICATE-SEQUENCE")
              b == PO!ReportIfAny(PO!SeqGaps, "SEQUENCE-GAP")
              c == PO!ReportIfAny(PO!TxnDuplicates, "DUPLICATE-TXN-ID")
  <2>1. /\ idx' = idx /\ chain' = chain /\ pc' = "done"
        /\ findings' = ((findings \o a) \o b) \o c
    BY <1>2 DEF PO!Finish
  <2>2. /\ "DUPLICATE-SEQUENCE" \in PO!Rules /\ "SEQUENCE-GAP" \in PO!Rules
        /\ "DUPLICATE-TXN-ID" \in PO!Rules
    BY DEF PO!Rules
  <2>3. a \in Seq(FindingsTo(idx)) /\ b \in Seq(FindingsTo(idx)) /\ c \in Seq(FindingsTo(idx))
    BY <1>0, <2>2, OneFinding
  <2>. HIDE DEF a, b, c
  <2>4. findings \o a \in Seq(FindingsTo(idx))
    BY <1>0, <2>3, OneFinding DEF PostingShape
  <2>5. (findings \o a) \o b \in Seq(FindingsTo(idx))
    BY <1>0, <2>3, <2>4, OneFinding
  <2>6. findings' \in Seq(FindingsTo(idx))
    BY <1>0, <2>1, <2>3, <2>5, OneFinding
  <2>. QED BY <2>1, <2>6 DEF PostingShape
<1>3. CASE PO!Refuse \/ PO!Accept
  <2>1. /\ pc = "start" /\ pc' \in {"reading", "error"}
        /\ UNCHANGED <<idx, chain, findings, result>>
    BY <1>3 DEF PO!Refuse, PO!Accept
  <2>. QED BY <2>1 DEF PostingShape
<1>4. CASE PO!Terminated
  BY <1>4 DEF PO!Terminated, PO!vars, PostingShape
<1>. QED BY <1>1, <1>2, <1>3, <1>4 DEF PO!Next

LEMMA PostingShapeStart == PO!Init => PostingShape
<1>1. PO!Init => findings \in Seq(FindingsTo(idx))
  BY OneFinding DEF PO!Init
<1>. QED BY <1>1 DEF PO!Init, PostingShape

CourtsShape ==
  /\ court = "variant_route" => RouteInv /\ RouteShape
  /\ court = "diff_artifacts" => DiffShape
  /\ court = "posting_manifest" => UnitRead /\ Manifest /\ PostingShape

(* What is said of a call holds of the values its court keeps: no counter   *)
(* of a routing exceeds its records, no verdict of a diff is given before   *)
(* the end, a record under transforms keeps its length and its digits while *)
(* each transform is applied or reported, a posting unit has a hash from    *)
(* its first record on, and only a court that is done has a result.         *)
THEOREM CourtsTyped == Spec => []TypeOK
<1>1. Init => CourtsShape
  <2>1. DF!Init => DiffShape
    <3>1. 1 \in 1..6
      OBVIOUS
    <3>. QED BY <3>1, Zenon DEF DF!Init, DiffShape
  <2>. QED BY <2>1, RouteStart, RouteShapeStart, UnitStart, PostingShapeStart DEF Init, CourtsShape
<1>2. CourtsShape /\ [Next]_vars => CourtsShape'
  <2>. SUFFICES ASSUME CourtsShape, [Next]_vars PROVE CourtsShape'
    OBVIOUS
  <2>1. CASE UNCHANGED vars
    <3>1. UNCHANGED <<court, call, pc, idx, at, findings, matched>>
          /\ UNCHANGED <<entries, byType, routed, unmatched, output>>
          /\ UNCHANGED <<chain, seqValues, txnValues, result>>
      BY <2>1 DEF vars, diffVars, routeVars, postingVars
    <3>2. (RouteInv => RouteInv') /\ (RouteShape => RouteShape') /\ (DiffShape => DiffShape')
      BY <3>1 DEF RouteInv, RouteTypes, RouteCounts, RouteShape, Seen, DiffShape
    <3>3. /\ PO!SeqDuplicates' = PO!SeqDuplicates /\ PO!SeqGaps' = PO!SeqGaps
          /\ PO!TxnDuplicates' = PO!TxnDuplicates /\ PO!SeqMin' = PO!SeqMin /\ PO!SeqMax' = PO!SeqMax
      BY <3>1 DEF PO!SeqDuplicates, PO!SeqGaps, PO!TxnDuplicates, PO!SeqMin, PO!SeqMax
    <3>4. (UnitRead => UnitRead') /\ (Manifest => Manifest') /\ (PostingShape => PostingShape')
      BY <3>1, <3>3 DEF UnitRead, Manifest, PostingShape
    <3>. QED BY <3>1, <3>2, <3>4 DEF CourtsShape
  <2>2. CASE court = "variant_route" /\ VR!Next /\ court' = court
    BY <2>2, RouteStep, RouteShaped DEF CourtsShape
  <2>3. CASE court = "diff_artifacts" /\ DF!Next /\ court' = court
    BY <2>3, DiffShaped DEF CourtsShape
  <2>4. CASE court = "posting_manifest" /\ PO!Next /\ court' = court
    BY <2>4, UnitStep, PostingShaped DEF CourtsShape
  <2>5. CASE court \in {"batch_control", "reconcile_transform"} /\ court' = court
    BY <2>5 DEF CourtsShape
  <2>. QED BY <2>1, <2>2, <2>3, <2>4, <2>5 DEF Next
<1>3. (court = "batch_control" => BatchInv) /\ court = "batch_control" => BC!TypeOK
  BY DEF BatchInv, Found, BC!TypeOK
<1>4. RouteInv /\ RouteShape => VR!TypeOK
  <2>. SUFFICES ASSUME RouteInv, RouteShape PROVE VR!TypeOK
    OBVIOUS
  <2>1. /\ call \in RouteCalls /\ entries \in Seq(DOMAIN call.types \cup {NoType})
        /\ Len(entries) <= Len(call.records) /\ Len(entries) \in Nat /\ Len(call.records) \in Nat
    BY RouteCallTypes DEF RouteInv, RouteTypes
  <2>2. VR!ToSet(entries) \subseteq DOMAIN call.types \cup {NoType}
    BY <2>1 DEF VR!ToSet
  <2>3. Seen \in Nat /\ Seen <= Len(call.records)
    BY <2>1 DEF Seen, RouteShape
  <2>4. 0..Seen \subseteq 0..Len(call.records)
    BY <2>1, <2>3
  <2>5. byType \in [DOMAIN call.types -> 0..Len(call.records)]
    BY <2>4 DEF RouteShape
  <2>6. {routed, unmatched} \subseteq 0..Len(call.records)
    BY <2>4 DEF RouteShape
  <2>. QED BY <2>1, <2>2, <2>5, <2>6 DEF RouteShape, VR!TypeOK
<1>5. DiffShape => DF!TypeOK
  BY DEF DiffShape, DF!TypeOK, DF!Dimensions, DF!Concluded
<1>6. ComposeInv => TR!TypeOK
  <2>. SUFFICES ASSUME TransformShape PROVE TR!TypeOK
    BY DEF ComposeInv
  <2>1. TR!ToSet(applied) \cup {f[2] : f \in TR!ToSet(findings)} = 1..(at - 1)
    <3>1. /\ TR!ToSet(applied) = {applied[j] : j \in DOMAIN applied}
          /\ TR!ToSet(findings) = {findings[j] : j \in DOMAIN findings}
      BY DEF TR!ToSet
    <3>2. {f[2] : f \in TR!ToSet(findings)} = {findings[j][2] : j \in DOMAIN findings}
      BY <3>1
    <3>. QED BY <3>1, <3>2 DEF TransformShape
  <2>. QED BY <2>1 DEF TransformShape, TR!TypeOK
<1>7. UnitRead /\ PostingShape => PO!TypeOK
  BY DEF UnitRead, PostingShape, PO!TypeOK, Ids, FindingsTo
<1>8. /\ court = "batch_control" => BatchInv
      /\ court = "reconcile_transform" => ComposeInv
      /\ CourtsShape
      => TypeOK
  BY <1>3, <1>4, <1>5, <1>6, <1>7 DEF TypeOK, CourtsShape
<1>. QED BY <1>1, <1>2, <1>8, BatchInvariant, ComposeInvariant, PTL DEF Spec
=============================================================================
