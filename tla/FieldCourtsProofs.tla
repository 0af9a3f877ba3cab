----------------------------- MODULE FieldCourtsProofs -----------------------------
(***************************************************************************)
(* The four sequential courts of the fields, for every call they can be    *)
(* given.                                                                  *)
(*                                                                         *)
(* Redaction. The redacted evidence and the tooling map, made in two       *)
(* passes that decide by themselves, hide the same fields (OneDecision).   *)
(* The passes need not be compared step by step: each keeps the fields     *)
(* that are not groups, in their order (Lists); there is only one such     *)
(* list (OneList), so entry k of either is of the same field, and for one  *)
(* field the two decisions agree (SameDecision).                           *)
(*                                                                         *)
(* Indicators. Every pair that was passed has left one object, and a value *)
(* in it only by a rule that gives one (PairJudged): NothingByDefault.     *)
(*                                                                         *)
(* Profiles. The hits are the markers that were found (HitsTo) and the     *)
(* statuses one for each date the record has, in their order (JudgedTo);   *)
(* a day the code counts is a day of the calendar (ValidIsReal): every     *)
(* date is judged once (EachDateJudged).                                   *)
(*                                                                         *)
(* Operator. Each item of a record is text, summed, dirty or unread        *)
(* (FourWays), so the cells of the records read so far are counted         *)
(* (CountedTo: EveryCell), and each sum is the exact one unless that one   *)
(* has left the integer (SumsTo: ExactSums).                               *)
(***************************************************************************)
EXTENDS FieldCourts, TLAPS, WellFoundedInduction, FiniteSetTheorems, SequenceTheorems

LEMMA LeastIn ==
  ASSUME NEW S, S \subseteq Nat, S # {}
  PROVE  \E k \in S : \A j \in S : k <= j
<1>1. PICK k \in S : \A j \in S : ~(<<j, k>> \in OpToRel(<, Nat))
  BY NatLessThanWellFounded, WFMin
<1>2. ASSUME NEW j \in S PROVE k <= j
  <2>1. SUFFICES ASSUME j < k PROVE FALSE
    OBVIOUS
  <2>2. <<j, k>> \in Nat \X Nat /\ <<j, k>>[1] < <<j, k>>[2]
    BY <2>1
  <2>. QED BY <1>1, <2>2, Zenon DEF OpToRel
<1>. QED BY <1>2

Visible(c, n) == {i \in 1..n : c.fields[i].category # "group"}

(* places is the list, in order and of that length, of the numbers in S.   *)
Lists(places, len, S) ==
  /\ places \in [1..len -> S]
  /\ \A j, k \in 1..len : j < k => places[j] < places[k]
  /\ \A i \in S : \E k \in 1..len : places[k] = i

LEMMA OneList ==
  ASSUME NEW S, S \subseteq Nat, NEW m \in Nat, NEW n \in Nat,
         NEW p, NEW q, Lists(p, m, S), Lists(q, n, S)
  PROVE  m = n /\ \A k \in 1..m : p[k] = q[k]
<1>. DEFINE Differ == {k \in Nat : k \in 1..m /\ k \in 1..n /\ p[k] # q[k]}
<1>0. ASSUME NEW r, NEW l \in Nat, Lists(r, l, S), NEW j \in 1..l, NEW k \in 1..l
      PROVE  /\ r[j] \in Nat /\ r[k] \in Nat
             /\ j < k => r[j] < r[k]
             /\ k < j => r[k] < r[j]
  BY <1>0 DEF Lists
<1>1. ASSUME NEW a, NEW b, NEW l \in Nat, NEW o \in Nat, Lists(a, l, S), Lists(b, o, S),
             NEW k, k \in 1..l, k \in 1..o, a[k] < b[k],
             \A j \in 1..(k - 1) : a[j] = b[j]
      PROVE  FALSE
  <2>1. PICK j \in 1..o : b[j] = a[k]
    BY <1>1 DEF Lists
  <2>2. CASE j < k
    BY <1>0, <1>1, <2>1, <2>2
  <2>3. CASE j >= k
    <3>1. j \in 1..o /\ k \in 1..o /\ j \in Nat /\ k \in Nat
      BY <1>1, <2>1
    <3>2. b[j] \in Nat /\ b[k] \in Nat /\ (k < j => b[k] < b[j])
      BY <1>0, <1>1, <3>1
    <3>3. b[k] <= b[j]
      BY <2>3, <3>1, <3>2
    <3>4. b[j] < b[k]
      BY <1>1, <2>1
    <3>. QED BY <3>2, <3>3, <3>4
  <2>4. j \in Int /\ k \in Int
    BY <1>1, <2>1
  <2>. QED BY <2>2, <2>3, <2>4
<1>2. Differ = {}
  <2>. SUFFICES ASSUME Differ # {} PROVE FALSE
    OBVIOUS
  <2>1. PICK k \in Differ : \A j \in Differ : k <= j
    <3>1. Differ \subseteq Nat
      OBVIOUS
    <3>. HIDE DEF Differ
    <3>. QED BY <3>1, LeastIn
  <2>2. k \in 1..m /\ k \in 1..n /\ p[k] # q[k] /\ \A j \in 1..(k - 1) : p[j] = q[j]
    BY <2>1
  <2>3. p[k] \in Nat /\ q[k] \in Nat
    BY <1>0, <2>2
  <2>4. p[k] < q[k] \/ q[k] < p[k]
    BY <2>2, <2>3
  <2>. QED BY <1>1, <2>2, <2>4
<1>3. ASSUME NEW a, NEW b, NEW l \in Nat, NEW o \in Nat, Lists(a, l, S), Lists(b, o, S), l < o,
             \A k \in 1..l : a[k] = b[k]
      PROVE  FALSE
  <2>1. l + 1 \in 1..o
    BY <1>3
  <2>2. PICK k \in 1..l : a[k] = b[l + 1]
    BY <1>3, <2>1 DEF Lists
  <2>3. b[k] < b[l + 1]
    BY <1>3, <2>1 DEF Lists
  <2>4. b[l + 1] \in Nat
    BY <1>0, <1>3, <2>1
  <2>. QED BY <1>3, <2>2, <2>3, <2>4
<1>4. \A k \in 1..m : k \in 1..n => p[k] = q[k]
  BY <1>2
<1>5. ~(m < n)
  <2>1. m < n => \A k \in 1..m : p[k] = q[k]
    BY <1>4
  <2>. QED BY <1>3, <2>1
<1>6. ~(n < m)
  <2>1. n < m => \A k \in 1..n : q[k] = p[k]
    BY <1>4
  <2>. QED BY <1>3, <2>1
<1>. QED BY <1>4, <1>5, <1>6

(* One more field: a group is passed over, any other one is added.         *)
LEMMA ListGroup ==
  ASSUME NEW c, NEW n \in Nat, c.fields[n + 1].category = "group"
  PROVE  Visible(c, n + 1) = Visible(c, n)
  BY DEF Visible

LEMMA ListField ==
  ASSUME NEW c, NEW n \in Nat, c.fields[n + 1].category # "group",
         NEW l \in Nat, NEW p, Lists(p, l, Visible(c, n))
  PROVE  Lists([k \in 1..(l + 1) |-> IF k = l + 1 THEN n + 1 ELSE p[k]], l + 1, Visible(c, n + 1))
<1>. DEFINE q == [k \in 1..(l + 1) |-> IF k = l + 1 THEN n + 1 ELSE p[k]]
<1>1. Visible(c, n + 1) = Visible(c, n) \cup {n + 1} /\ Visible(c, n) \subseteq 1..n
  BY DEF Visible
<1>2. \A k \in 1..l : p[k] \in Visible(c, n)
  BY DEF Lists
<1>3. q \in [1..(l + 1) -> Visible(c, n + 1)]
  BY <1>1, <1>2
<1>4. ASSUME NEW j \in 1..(l + 1), NEW k \in 1..(l + 1), j < k PROVE q[j] < q[k]
  <2>1. j \in 1..l /\ p[j] \in 1..n
    BY <1>1, <1>2, <1>4
  <2>2. CASE k = l + 1
    BY <2>1, <2>2
  <2>3. CASE k # l + 1
    BY <1>4, <2>1, <2>3 DEF Lists
  <2>. QED BY <2>2, <2>3
<1>5. ASSUME NEW i \in Visible(c, n + 1) PROVE \E k \in 1..(l + 1) : q[k] = i
  <2>1. CASE i = n + 1
    BY <2>1
  <2>2. CASE i \in Visible(c, n)
    <3>1. PICK k \in 1..l : p[k] = i
      BY <2>2 DEF Lists
    <3>. QED BY <3>1
  <2>. QED BY <1>1, <2>1, <2>2
<1>. HIDE DEF q
<1>6. Lists(q, l + 1, Visible(c, n + 1))
  BY <1>3, <1>4, <1>5 DEF Lists
<1>. QED BY <1>6 DEF q

LEMMA AppendFacts ==
  ASSUME NEW s, s \in Seq(ToSet(s)), NEW e
  PROVE  /\ Append(s, e) \in Seq(ToSet(Append(s, e)))
         /\ Len(s) \in Nat /\ Len(Append(s, e)) = Len(s) + 1
         /\ Append(s, e)[Len(s) + 1] = e
         /\ \A k \in 1..Len(s) : Append(s, e)[k] = s[k]
         /\ DOMAIN s = 1..Len(s) /\ DOMAIN Append(s, e) = 1..(Len(s) + 1)
<1>. DEFINE S == ToSet(s) \cup {e}
            t == Append(s, e)
<1>1. s \in Seq(S) /\ e \in S
  OBVIOUS
<1>. HIDE DEF S
<1>2. /\ t \in Seq(S) /\ Len(t) = Len(s) + 1 /\ Len(s) \in Nat
      /\ t[Len(s) + 1] = e /\ \A k \in 1..Len(s) : t[k] = s[k]
      /\ DOMAIN s = 1..Len(s) /\ DOMAIN t = 1..(Len(s) + 1)
  BY <1>1
<1>. HIDE DEF t
<1>3. t \in Seq(ToSet(t))
  BY <1>2 DEF ToSet
<1>. QED BY <1>2, <1>3 DEF t

(* What either pass makes of the first n fields.                           *)
RedactedAs(c, f) == RD!Redacted(f, RD!ActionFor(c.policy, f.name), c.policy.scope)
ExportedAs(c, f) == RD!Exported(f, RD!Status(c.exportPolicy, f.name))

EvidenceTo(c, n, out) ==
  \E p : /\ Lists(p, Len(out), Visible(c, n))
         /\ \A k \in 1..Len(out) : out[k] = RedactedAs(c, c.fields[p[k]])
ExportTo(c, n, out) ==
  \E p : /\ Lists(p, Len(out), Visible(c, n))
         /\ \A k \in 1..Len(out) : out[k] = ExportedAs(c, c.fields[p[k]])

LEMMA NothingYet ==
  ASSUME NEW c
  PROVE  EvidenceTo(c, 0, <<>>) /\ ExportTo(c, 0, <<>>)
<1>1. Lists(<<>>, Len(<<>>), Visible(c, 0)) /\ Len(<<>>) = 0
  BY DEF Lists, Visible
<1>. QED BY <1>1 DEF EvidenceTo, ExportTo

LEMMA GroupPassed ==
  ASSUME NEW c, NEW n \in Nat, NEW out, c.fields[n + 1].category = "group"
  PROVE  /\ EvidenceTo(c, n, out) => EvidenceTo(c, n + 1, out)
         /\ ExportTo(c, n, out) => ExportTo(c, n + 1, out)
  BY ListGroup DEF EvidenceTo, ExportTo

LEMMA EvidenceAdded ==
  ASSUME NEW c, NEW n \in Nat, c.fields[n + 1].category # "group",
         NEW out, out \in Seq(ToSet(out)), EvidenceTo(c, n, out)
  PROVE  EvidenceTo(c, n + 1, Append(out, RedactedAs(c, c.fields[n + 1])))
<1>. DEFINE l == Len(out)
            new == Append(out, RedactedAs(c, c.fields[n + 1]))
<1>1. PICK p : Lists(p, l, Visible(c, n))
               /\ \A k \in 1..l : out[k] = RedactedAs(c, c.fields[p[k]])
  BY DEF EvidenceTo
<1>. DEFINE q == [k \in 1..(l + 1) |-> IF k = l + 1 THEN n + 1 ELSE p[k]]
<1>2. /\ l \in Nat /\ Len(new) = l + 1 /\ new[l + 1] = RedactedAs(c, c.fields[n + 1])
      /\ \A k \in 1..l : new[k] = out[k]
  BY AppendFacts
<1>. HIDE DEF l, new
<1>3. Lists(q, l + 1, Visible(c, n + 1))
  BY <1>1, <1>2, ListField
<1>4. q[l + 1] = n + 1 /\ \A k \in 1..l : q[k] = p[k]
  BY <1>2
<1>. HIDE DEF q
<1>5. \A k \in 1..(l + 1) : new[k] = RedactedAs(c, c.fields[q[k]])
  BY <1>1, <1>2, <1>4
<1>6. Lists(q, Len(new), Visible(c, n + 1))
      /\ \A k \in 1..Len(new) : new[k] = RedactedAs(c, c.fields[q[k]])
  BY <1>2, <1>3, <1>5
<1>. QED BY <1>6 DEF EvidenceTo, new

LEMMA ExportAdded ==
  ASSUME NEW c, NEW n \in Nat, c.fields[n + 1].category # "group",
         NEW out, out \in Seq(ToSet(out)), ExportTo(c, n, out)
  PROVE  ExportTo(c, n + 1, Append(out, ExportedAs(c, c.fields[n + 1])))
<1>. DEFINE l == Len(out)
            new == Append(out, ExportedAs(c, c.fields[n + 1]))
<1>1. PICK p : Lists(p, l, Visible(c, n))
               /\ \A k \in 1..l : out[k] = ExportedAs(c, c.fields[p[k]])
  BY DEF ExportTo
<1>. DEFINE q == [k \in 1..(l + 1) |-> IF k = l + 1 THEN n + 1 ELSE p[k]]
<1>2. /\ l \in Nat /\ Len(new) = l + 1 /\ new[l + 1] = ExportedAs(c, c.fields[n + 1])
      /\ \A k \in 1..l : new[k] = out[k]
  BY AppendFacts
<1>. HIDE DEF l, new
<1>3. Lists(q, l + 1, Visible(c, n + 1))
  BY <1>1, <1>2, ListField
<1>4. q[l + 1] = n + 1 /\ \A k \in 1..l : q[k] = p[k]
  BY <1>2
<1>. HIDE DEF q
<1>5. \A k \in 1..(l + 1) : new[k] = ExportedAs(c, c.fields[q[k]])
  BY <1>1, <1>2, <1>4
<1>6. Lists(q, Len(new), Visible(c, n + 1))
      /\ \A k \in 1..Len(new) : new[k] = ExportedAs(c, c.fields[q[k]])
  BY <1>2, <1>3, <1>5
<1>. QED BY <1>6 DEF ExportTo, new

RedactInv ==
  /\ call \in RedactCalls
  /\ at \in Nat
  /\ evidence \in Seq(ToSet(evidence)) /\ export \in Seq(ToSet(export))
  /\ pc = "start" => at = 0 /\ evidence = <<>> /\ export = <<>>
  /\ pc = "redact" => EvidenceTo(call, at, evidence) /\ export = <<>>
  /\ pc \in {"export", "done"} => EvidenceTo(call, Len(call.fields), evidence)
  /\ pc = "export" => ExportTo(call, at, export)
  /\ pc = "done" => ExportTo(call, Len(call.fields), export)

LEMMA RedactStart == RD!Init => RedactInv
<1>1. <<>> \in Seq(ToSet(<<>>))
  OBVIOUS
<1>. QED BY <1>1 DEF RD!Init, RedactInv

LEMMA RedactStep == RedactInv /\ RD!Next => RedactInv'
<1>. SUFFICES ASSUME RedactInv, RD!Next PROVE RedactInv'
  OBVIOUS
<1>1. CASE RD!Fail
  BY <1>1 DEF RD!Fail, RedactInv
<1>2. CASE RD!Begin
  BY <1>2, NothingYet DEF RD!Begin, RedactInv
<1>3. CASE RD!SkipGroup
  <2>1. /\ UNCHANGED <<call, pc, evidence, export>> /\ at' = at + 1
        /\ pc \in {"redact", "export"} /\ call.fields[at + 1].category = "group"
    BY <1>3 DEF RD!SkipGroup, RD!Reading, RD!Field
  <2>. QED BY <2>1, GroupPassed DEF RedactInv
<1>4. CASE RD!RedactField
  <2>. DEFINE new == RedactedAs(call, call.fields[at + 1])
  <2>1. /\ UNCHANGED <<call, pc, export>> /\ at' = at + 1 /\ pc = "redact"
        /\ call.fields[at + 1].category # "group"
        /\ evidence' = Append(evidence, new)
    BY <1>4 DEF RD!RedactField, RD!Reading, RD!Field, RedactedAs
  <2>2. EvidenceTo(call, at + 1, Append(evidence, new))
    BY <2>1, EvidenceAdded DEF RedactInv
  <2>. HIDE DEF new
  <2>3. Append(evidence, new) \in Seq(ToSet(Append(evidence, new)))
    BY AppendFacts DEF RedactInv
  <2>. QED BY <2>1, <2>2, <2>3 DEF RedactInv
<1>5. CASE RD!BeginExport
  BY <1>5, NothingYet DEF RD!BeginExport, RedactInv
<1>6. CASE RD!ExportField
  <2>. DEFINE new == ExportedAs(call, call.fields[at + 1])
  <2>1. /\ UNCHANGED <<call, pc, evidence>> /\ at' = at + 1 /\ pc = "export"
        /\ call.fields[at + 1].category # "group"
        /\ export' = Append(export, new)
    BY <1>6 DEF RD!ExportField, RD!Reading, RD!Field, ExportedAs
  <2>2. ExportTo(call, at + 1, Append(export, new))
    BY <2>1, ExportAdded DEF RedactInv
  <2>. HIDE DEF new
  <2>3. Append(export, new) \in Seq(ToSet(Append(export, new)))
    BY AppendFacts DEF RedactInv
  <2>. QED BY <2>1, <2>2, <2>3 DEF RedactInv
<1>7. CASE RD!Return
  BY <1>7 DEF RD!Return, RedactInv
<1>8. CASE RD!Terminated
  BY <1>8 DEF RD!Terminated, RD!vars, RedactInv
<1>. QED BY <1>1, <1>2, <1>3, <1>4, <1>5, <1>6, <1>7, <1>8 DEF RD!Next

(* The action of the first rule for a name is one action, whatever number  *)
(* of rules there are.                                                     *)
LEMMA FirstRule ==
  ASSUME NEW policy, policy.rules \in Seq(ToSet(policy.rules)), NEW name
  PROVE  LET named == {r \in DOMAIN policy.rules : policy.rules[r].field = name}
         IN  /\ RD!Unlisted(policy, name) <=> named = {}
             /\ named # {} =>
                  (RD!Rule(policy, name) # "allow"
                     <=> \E r \in named : /\ \A k \in named : r <= k
                                          /\ policy.rules[r].action # "allow")
<1>. DEFINE named == {r \in DOMAIN policy.rules : policy.rules[r].field = name}
<1>1. RD!Rules(policy, name) = named /\ named \subseteq Nat
  BY DEF RD!Rules
<1>2. RD!Unlisted(policy, name) <=> named = {}
  BY <1>1 DEF RD!Unlisted
<1>3. ASSUME named # {}
      PROVE  RD!Rule(policy, name) # "allow"
               <=> \E r \in named : /\ \A k \in named : r <= k
                                    /\ policy.rules[r].action # "allow"
  <2>. DEFINE least == RD!Min(named)
  <2>1. least \in named /\ \A k \in named : least <= k
    <3>. HIDE DEF named
    <3>1. \E r \in named : \A k \in named : r <= k
      BY <1>1, <1>3, LeastIn
    <3>. QED BY <3>1 DEF RD!Min
  <2>2. RD!Rule(policy, name) = policy.rules[least].action
    BY <1>1 DEF RD!Rule
  <2>. HIDE DEF named, least
  <2>3. \A r \in named : (\A k \in named : r <= k) => r = least
    BY <1>1, <2>1
  <2>. QED BY <2>1, <2>2, <2>3
<1>. QED BY <1>2, <1>3

(* What the property says of one entry of the two outputs.                 *)
HideTheSame(policy, f, x) ==
  /\ x.name = f.name
  /\ x.redacted = f.redacted
  /\ ~f.redacted => x.value = f.value
  /\ f.redacted =>
       /\ f.value \in {Hidden, RD!Token(policy.scope, f.valueSha[2])}
       /\ x.value = Null
       /\ x.valueSha = f.valueSha
  /\ x.rawSha = f.rawSha
  /\ f.redacted <=>
       LET named == {r \in DOMAIN policy.rules : policy.rules[r].field = f.name}
       IN  \/ named = {} /\ policy.default = "deny"
           \/ \E r \in named : /\ \A q \in named : r <= q
                               /\ policy.rules[r].action # "allow"

LEMMA SameDecision ==
  ASSUME RD!CallsTyped, NEW c \in RedactCalls, c.exportPolicy = c.policy, NEW f
  PROVE  HideTheSame(c.policy, RedactedAs(c, f), ExportedAs(c, f))
<1>. DEFINE policy == c.policy
            action == RD!ActionFor(policy, f.name)
            status == RD!Status(policy, f.name)
            listed == ~RD!Unlisted(policy, f.name)
            hidden == action # "allow"
<1>1. policy # NoPolicy /\ policy.rules \in Seq(ToSet(policy.rules))
  BY DEF RD!CallsTyped, RD!ToSet, ToSet
<1>2. /\ hidden \in BOOLEAN
      /\ hidden <=> IF listed THEN RD!Rule(policy, f.name) # "allow" ELSE policy.default = "deny"
  BY DEF RD!ActionFor
<1>3. status.redacted = hidden
  BY <1>1, <1>2 DEF RD!Status, RD!ActionFor
<1>. DEFINE r == RedactedAs(c, f)
            x == ExportedAs(c, f)
<1>4. /\ r.name = f.name /\ r.redacted = hidden
      /\ r.valueSha = RD!Sha(f.value) /\ r.rawSha = RD!Sha(f.raw)
      /\ ~hidden => r.value = f.value
      /\ hidden => r.value \in {Hidden, RD!Token(policy.scope, f.value)}
  BY DEF RedactedAs, RD!Redacted
<1>5. /\ x.name = f.name /\ x.redacted = status.redacted /\ x.rawSha = RD!Sha(f.raw)
      /\ x.value = IF status.redacted THEN Null ELSE f.value
      /\ x.valueSha = IF status.redacted THEN RD!Sha(f.value) ELSE Null
  BY DEF ExportedAs, RD!Exported
<1>6. RD!Sha(f.value)[2] = f.value
  BY DEF RD!Sha
<1>. HIDE DEF r, x, action, status
<1>7. r.redacted <=>
        LET named == {k \in DOMAIN policy.rules : policy.rules[k].field = f.name}
        IN  \/ named = {} /\ policy.default = "deny"
            \/ \E k \in named : /\ \A q \in named : k <= q
                                /\ policy.rules[k].action # "allow"
  BY <1>1, <1>2, <1>4, FirstRule
<1>8. HideTheSame(policy, r, x)
  BY <1>2, <1>3, <1>4, <1>5, <1>6, <1>7 DEF HideTheSame
<1>. QED BY <1>8 DEF r, x

(* One policy, two programs' worth of output: the fields that are hidden   *)
(* are the same, and each hidden one can be checked by its hashes.         *)
THEOREM OneDecision == Spec => []OutputsHideTheSame
<1>. DEFINE IInv == court = "redaction" => RedactInv
<1>1. IInv => OutputsHideTheSame
  <2>. SUFFICES ASSUME RedactInv, pc = "done", call.exportPolicy = call.policy
                PROVE  /\ Len(evidence) = Len(export)
                       /\ \A k \in DOMAIN export : HideTheSame(call.policy, evidence[k], export[k])
    BY DEF OutputsHideTheSame, RD!OutputsHideTheSame, HideTheSame
  <2>. DEFINE visible == Visible(call, Len(call.fields))
  <2>1. PICK p : /\ Lists(p, Len(evidence), visible)
                 /\ \A k \in 1..Len(evidence) : evidence[k] = RedactedAs(call, call.fields[p[k]])
    BY DEF RedactInv, EvidenceTo
  <2>2. PICK q : /\ Lists(q, Len(export), visible)
                 /\ \A k \in 1..Len(export) : export[k] = ExportedAs(call, call.fields[q[k]])
    BY DEF RedactInv, ExportTo
  <2>3. /\ Len(evidence) \in Nat /\ Len(export) \in Nat
        /\ DOMAIN export = 1..Len(export) /\ visible \subseteq Nat
    BY DEF RedactInv, Visible
  <2>. HIDE DEF visible
  <2>4. Len(evidence) = Len(export) /\ \A k \in 1..Len(evidence) : p[k] = q[k]
    BY <2>1, <2>2, <2>3, OneList
  <2>5. ASSUME NEW k \in DOMAIN export
        PROVE  HideTheSame(call.policy, evidence[k], export[k])
    <3>1. /\ evidence[k] = RedactedAs(call, call.fields[p[k]])
          /\ export[k] = ExportedAs(call, call.fields[p[k]])
      BY <2>1, <2>2, <2>3, <2>4
    <3>2. HideTheSame(call.policy, RedactedAs(call, call.fields[p[k]]),
                      ExportedAs(call, call.fields[p[k]]))
      BY SameDecision, RedactionCallsTyped DEF RedactInv
    <3>. QED BY <3>1, <3>2
  <2>. QED BY <2>4, <2>5
<1>2. Init => IInv
  BY RedactStart DEF Init
<1>3. IInv /\ [Next]_vars => IInv'
  <2>1. CASE UNCHANGED vars
    BY <2>1 DEF vars, redactVars, RedactInv
  <2>2. CASE court = "redaction" /\ RD!Next /\ court' = court
    BY <2>2, RedactStep
  <2>. QED BY <2>1, <2>2 DEF Next
<1>. QED BY <1>1, <1>2, <1>3, PTL DEF Spec
-----------------------------------------------------------------------------
(* Db2 host indicators. *)
LEMMA SameCardinality == \A S : DB!Cardinality(S) = Cardinality(S)
  BY DEF DB!Cardinality, Cardinality

LEMMA PairCallTypes ==
  ASSUME NEW c \in PairCalls
  PROVE  /\ Len(c.pairs) \in Nat /\ DOMAIN c.pairs = 1..Len(c.pairs)
         /\ Len(c.items) \in Nat /\ DOMAIN c.items = 1..Len(c.items)
         /\ NotNumber \notin Int
         /\ \A k \in DOMAIN c.items : c.items[k].value \in Int \cup {NotNumber}
<1>1. c.pairs \in Seq(DB!ToSet(c.pairs)) /\ c.items \in Seq(DB!ToSet(c.items))
  BY PairCallsTyped DEF DB!CallsTyped
<1>2. /\ NotNumber \notin Int
      /\ \A k \in DOMAIN c.items : c.items[k].value \in Int \cup {NotNumber}
  BY PairCallsTyped DEF DB!CallsTyped
<1>. QED BY <1>1, <1>2

(* The entries of a list that are about pair p.                            *)
About(list, p) == {k \in DOMAIN list : list[k].pair = p}
Decided(list, p) == {k \in DOMAIN list : list[k].pair = p /\ list[k].state # "unread"}

LEMMA OneMore ==
  ASSUME NEW list, list \in Seq(ToSet(list)), NEW e, NEW p
  PROVE  LET longer == Append(list, e) IN
         /\ About(longer, p)
              = About(list, p) \cup (IF e.pair = p THEN {Len(list) + 1} ELSE {})
         /\ Decided(longer, p)
              = Decided(list, p) \cup (IF e.pair = p /\ e.state # "unread"
                                       THEN {Len(list) + 1} ELSE {})
<1>. DEFINE longer == Append(list, e)
<1>1. /\ DOMAIN longer = DOMAIN list \cup {Len(list) + 1} /\ Len(list) + 1 \notin DOMAIN list
      /\ longer[Len(list) + 1] = e /\ \A k \in DOMAIN list : longer[k] = list[k]
  BY AppendFacts
<1>. HIDE DEF longer
<1>2. About(longer, p)
        = About(list, p) \cup (IF e.pair = p THEN {Len(list) + 1} ELSE {})
  BY <1>1 DEF About
<1>3. Decided(longer, p)
        = Decided(list, p) \cup (IF e.pair = p /\ e.state # "unread"
                                 THEN {Len(list) + 1} ELSE {})
  BY <1>1 DEF Decided
<1>. QED BY <1>2, <1>3 DEF longer

LEMMA Counts == Cardinality({}) = 0 /\ \A x : Cardinality({x}) = 1
  BY FS_EmptySet, FS_Singleton

(* What is said of pair p when the states are ss and the findings fs.      *)
NamedIn(c, name) == {k \in DOMAIN c.items : c.items[k].name = name}

PairJudged(c, p, ss, fs) ==
  /\ Cardinality(Decided(ss, p)) + Cardinality(About(fs, p)) = 1
  /\ \A k \in Decided(ss, p) : Cardinality(NamedIn(c, c.pairs[p].indicator)) = 1 =>
       \A i \in NamedIn(c, c.pairs[p].indicator) :
         c.items[i].kind = "binary" /\ DB!Says(c.items[i].value, ss[k].state)

PairTypes ==
  /\ call \in PairCalls
  /\ pc \in {"start", "pairs", "done", "error"}
  /\ at \in 0..Len(call.pairs)
  /\ states \in Seq(ToSet(states)) /\ findings \in Seq(ToSet(findings))
  /\ \A k \in DOMAIN states : states[k].pair \in 1..at /\ states[k].state \in DB!States
  /\ \A k \in DOMAIN findings : findings[k].pair \in 1..at

PairInv == PairTypes /\ \A p \in 1..at : PairJudged(call, p, states, findings)

LEMMA PairStart == DB!Init => PairInv
<1>. SUFFICES ASSUME DB!Init PROVE PairInv
  OBVIOUS
<1>1. Len(call.pairs) \in Nat /\ <<>> \in Seq(ToSet(<<>>))
  BY PairCallTypes DEF DB!Init
<1>. QED BY <1>1 DEF DB!Init, PairInv, PairTypes

(* A pair that is evaluated has the state of its indicator, when that is   *)
(* the only item of its name.                                              *)
LEMMA StateEarned ==
  ASSUME PairInv, DB!Evaluating, DB!Wrong = "nothing",
         Cardinality(DB!Named(DB!Pair.indicator)) = 1,
         DB!StateOf(DB!ValueOf(DB!Pair.indicator)) # "unread",
         NEW i \in DB!Named(DB!Pair.indicator)
  PROVE  /\ call.items[i].kind = "binary"
         /\ DB!Says(call.items[i].value, DB!StateOf(DB!ValueOf(DB!Pair.indicator)))
<1>. DEFINE name == DB!Pair.indicator
            named == DB!Named(name)
<1>1. /\ Len(call.items) \in Nat /\ DOMAIN call.items = 1..Len(call.items) /\ NotNumber \notin Int
      /\ \A k \in DOMAIN call.items : call.items[k].value \in Int \cup {NotNumber}
  BY PairCallTypes DEF PairInv, PairTypes
<1>2. named \subseteq 1..Len(call.items)
  BY <1>1 DEF DB!Named
<1>3. named = {i}
  <2>1. Cardinality(named) = 1 /\ i \in named
    OBVIOUS
  <2>. HIDE DEF named
  <2>2. IsFiniteSet(1..Len(call.items))
    BY <1>1, FS_Interval
  <2>3. IsFiniteSet(named)
    BY <1>2, <2>2, FS_Subset
  <2>. QED BY <2>1, <2>3, FS_Singleton
<1>4. DB!UsageOf(name) = "binary"
  BY DEF DB!Wrong
<1>5. DB!Min({i}) = i /\ DB!Max({i}) = i
  BY <1>2, <1>3 DEF DB!Min, DB!Max
<1>6. call.items[i].kind = "binary"
  <2>. DEFINE pictured == {k \in named : call.items[k].kind # "group"}
  <2>1. pictured = {} \/ pictured = {i}
    BY <1>3
  <2>. QED BY <1>4, <1>5, <2>1 DEF DB!UsageOf
<1>7. DB!ValueOf(name) = call.items[i].value
  BY <1>3, <1>5 DEF DB!ValueOf
<1>8. call.items[i].value \in Int \cup {NotNumber}
  BY <1>1 DEF DB!Named
<1>. QED BY <1>1, <1>6, <1>7, <1>8 DEF DB!Says, DB!StateOf

LEMMA PairStep == PairInv /\ DB!Next => PairInv'
<1>. SUFFICES ASSUME PairInv, DB!Next PROVE PairInv'
  OBVIOUS
<1>0. Len(call.pairs) \in Nat /\ at \in Nat
  BY PairCallTypes DEF PairInv, PairTypes
<1>1. CASE DB!Fail
  BY <1>1 DEF DB!Fail, PairInv, PairTypes
<1>2. CASE DB!Begin
  BY <1>2 DEF DB!Begin, PairInv, PairTypes
<1>3. CASE DB!Refuse
  <2>. DEFINE e == DB!Finding(DB!Wrong)
  <2>1. /\ UNCHANGED <<call, pc, states>> /\ at' = at + 1 /\ pc = "pairs"
        /\ at < Len(call.pairs)
        /\ findings' = Append(findings, e) /\ e.pair = at + 1
    BY <1>3 DEF DB!Refuse, DB!Evaluating, DB!Finding
  <2>. HIDE DEF e
  <2>2. findings' \in Seq(ToSet(findings')) /\ \A k \in DOMAIN findings' : findings'[k].pair \in 1..at'
    BY <1>0, <2>1, AppendFacts DEF PairInv, PairTypes
  <2>3. ASSUME NEW p \in 1..(at + 1) PROVE PairJudged(call, p, states, findings')
    <3>1. About(findings', p)
            = About(findings, p) \cup (IF p = at + 1 THEN {Len(findings) + 1} ELSE {})
      BY <2>1, OneMore DEF PairInv, PairTypes
    <3>2. CASE p \in 1..at
      <4>1. About(findings', p) = About(findings, p)
        BY <1>0, <3>1, <3>2
      <4>. QED BY <3>2, <4>1 DEF PairJudged, PairInv
    <3>3. CASE p = at + 1
      <4>1. Decided(states, p) = {} /\ About(findings, p) = {}
        BY <1>0, <3>3 DEF PairInv, PairTypes, Decided, About
      <4>2. About(findings', p) = {Len(findings) + 1}
        BY <3>1, <3>3, <4>1
      <4>3. Cardinality(Decided(states, p)) = 0 /\ Cardinality(About(findings', p)) = 1
        BY <4>1, <4>2, Counts
      <4>. QED BY <4>1, <4>3 DEF PairJudged
    <3>. QED BY <1>0, <3>2, <3>3
  <2>4. \A p \in 1..at' : PairJudged(call', p, states', findings')
    BY <2>1, <2>3
  <2>. QED BY <1>0, <2>1, <2>2, <2>4 DEF PairInv, PairTypes
<1>4. CASE DB!Evaluate
  <2>. DEFINE state == DB!StateOf(DB!ValueOf(DB!Pair.indicator))
              e == [pair |-> at + 1, state |-> state]
              f == DB!Finding("dirty indicator")
  <2>1. /\ UNCHANGED <<call, pc>> /\ at' = at + 1 /\ pc = "pairs" /\ DB!Evaluating
        /\ at < Len(call.pairs) /\ DB!Wrong = "nothing"
        /\ states' = Append(states, e) /\ e.pair = at + 1 /\ e.state = state
        /\ findings' = IF state = "unread" THEN Append(findings, f) ELSE findings
        /\ f.pair = at + 1 /\ state \in DB!States
    BY <1>4 DEF DB!Evaluate, DB!Evaluating, DB!Finding, DB!StateOf, DB!States
  <2>. HIDE DEF e, f
  <2>2. /\ states' \in Seq(ToSet(states')) /\ findings' \in Seq(ToSet(findings'))
        /\ \A k \in DOMAIN states' : states'[k].pair \in 1..at' /\ states'[k].state \in DB!States
        /\ \A k \in DOMAIN findings' : findings'[k].pair \in 1..at'
    <3>. HIDE DEF state
    <3>1. /\ states' \in Seq(ToSet(states')) /\ DOMAIN states' = DOMAIN states \cup {Len(states) + 1}
          /\ states'[Len(states) + 1] = e /\ \A k \in DOMAIN states : states'[k] = states[k]
      BY <2>1, AppendFacts DEF PairInv, PairTypes
    <3>2. /\ Append(findings, f) \in Seq(ToSet(Append(findings, f)))
          /\ \A k \in DOMAIN Append(findings, f) : Append(findings, f)[k].pair \in 1..(at + 1)
      BY <1>0, <2>1, AppendFacts DEF PairInv, PairTypes
    <3>3. \A k \in DOMAIN states : states[k].pair \in 1..(at + 1) /\ states[k].state \in DB!States
      BY <1>0 DEF PairInv, PairTypes
    <3>4. \A k \in DOMAIN states' : states'[k].pair \in 1..at' /\ states'[k].state \in DB!States
      BY <1>0, <2>1, <3>1, <3>3
    <3>5. /\ findings \in Seq(ToSet(findings))
          /\ \A k \in DOMAIN findings : findings[k].pair \in 1..(at + 1)
      BY <1>0 DEF PairInv, PairTypes
    <3>6. CASE state = "unread"
      BY <2>1, <3>1, <3>2, <3>4, <3>6
    <3>7. CASE state # "unread"
      BY <2>1, <3>1, <3>4, <3>5, <3>7
    <3>. QED BY <3>6, <3>7
  <2>3. ASSUME NEW p \in 1..(at + 1) PROVE PairJudged(call, p, states', findings')
    <3>1. /\ Decided(states', p)
               = Decided(states, p) \cup (IF p = at + 1 /\ state # "unread" THEN {Len(states) + 1}
                                          ELSE {})
          /\ About(findings', p)
               = About(findings, p) \cup (IF p = at + 1 /\ state = "unread"
                                          THEN {Len(findings) + 1} ELSE {})
      <4>. HIDE DEF state
      <4>1. /\ Decided(Append(states, e), p)
                 = Decided(states, p) \cup (IF p = at + 1 /\ state # "unread" THEN {Len(states) + 1}
                                            ELSE {})
            /\ About(Append(findings, f), p)
                 = About(findings, p) \cup (IF p = at + 1 THEN {Len(findings) + 1} ELSE {})
        BY <2>1, OneMore DEF PairInv, PairTypes
      <4>. QED BY <2>1, <4>1
    <3>. HIDE DEF state
    <3>2. CASE p \in 1..at
      <4>1. Decided(states', p) = Decided(states, p) /\ About(findings', p) = About(findings, p)
        BY <1>0, <3>1, <3>2
      <4>2. \A k \in Decided(states, p) : states'[k] = states[k]
        BY <2>1, AppendFacts DEF PairInv, PairTypes, Decided
      <4>. QED BY <3>2, <4>1, <4>2 DEF PairJudged, PairInv
    <3>3. CASE p = at + 1
      <4>1. Decided(states, p) = {} /\ About(findings, p) = {}
        BY <1>0, <3>3 DEF PairInv, PairTypes, Decided, About
      <4>2. CASE state = "unread"
        <5>1. Decided(states', p) = {} /\ About(findings', p) = {Len(findings) + 1}
          BY <3>1, <3>3, <4>1, <4>2
        <5>2. Cardinality(Decided(states', p)) = 0 /\ Cardinality(About(findings', p)) = 1
          BY <5>1, Counts
        <5>. QED BY <5>1, <5>2 DEF PairJudged
      <4>3. CASE state # "unread"
        <5>1. Decided(states', p) = {Len(states) + 1} /\ About(findings', p) = {}
          BY <3>1, <3>3, <4>1, <4>3
        <5>2. states'[Len(states) + 1].state = state /\ call.pairs[p] = DB!Pair
          BY <2>1, <3>3, AppendFacts DEF PairInv, PairTypes, DB!Pair
        <5>3. ASSUME Cardinality(NamedIn(call, call.pairs[p].indicator)) = 1,
                     NEW i \in NamedIn(call, call.pairs[p].indicator)
              PROVE  call.items[i].kind = "binary" /\ DB!Says(call.items[i].value, state)
          BY <2>1, <4>3, <5>2, <5>3, StateEarned DEF state, NamedIn, DB!Named
        <5>4. Cardinality(Decided(states', p)) = 1 /\ Cardinality(About(findings', p)) = 0
          BY <5>1, Counts
        <5>. QED BY <5>1, <5>2, <5>3, <5>4 DEF PairJudged
      <4>. QED BY <4>2, <4>3
    <3>. QED BY <1>0, <3>2, <3>3
  <2>4. \A p \in 1..at' : PairJudged(call', p, states', findings')
    BY <2>1, <2>3
  <2>. QED BY <1>0, <2>1, <2>2, <2>4 DEF PairInv, PairTypes
<1>5. CASE DB!Return
  BY <1>5 DEF DB!Return, PairInv, PairTypes
<1>6. CASE DB!Terminated
  BY <1>6 DEF DB!Terminated, DB!vars, PairInv, PairTypes
<1>. QED BY <1>1, <1>2, <1>3, <1>4, <1>5, <1>6 DEF DB!Next

(* A value is present, null or truncated only where its indicator says so: *)
(* every pair that was evaluated has a state it earned or a finding.       *)
THEOREM NothingByDefault == Spec => []NothingSilentlyPresent
<1>. DEFINE IInv == court = "db2host_evaluate" => PairInv
<1>1. IInv => NothingSilentlyPresent
  BY SameCardinality
     DEF NothingSilentlyPresent, DB!NothingSilentlyPresent, DB!Named,
         PairInv, PairJudged, NamedIn, Decided, About
<1>2. Init => IInv
  BY PairStart DEF Init
<1>3. IInv /\ [Next]_vars => IInv'
  <2>1. CASE UNCHANGED vars
    BY <2>1 DEF vars, pairVars, PairInv, PairTypes
  <2>2. CASE court = "db2host_evaluate" /\ DB!Next /\ court' = court
    BY <2>2, PairStep
  <2>. QED BY <2>1, <2>2 DEF Next
<1>. QED BY <1>1, <1>2, <1>3, PTL DEF Spec
-----------------------------------------------------------------------------
(* A sequence of digits reads as a natural number, whatever its length.    *)
NumberTo(ds, n, k) == IF k = 0 THEN 0 ELSE 10 * n[k - 1] + ds[k][2]
Reads(ds, n, m) == n \in [0..m -> Nat] /\ \A k \in 0..m : n[k] = NumberTo(ds, n, k)

LEMMA OneDigitMore ==
  ASSUME NEW ds, NEW m \in Nat \ {0}, ds[m][2] \in Nat, NEW n, Reads(ds, n, m - 1)
  PROVE  \E more : Reads(ds, more, m)
<1>. DEFINE more == [k \in 0..m |-> IF k = m THEN 10 * n[m - 1] + ds[m][2] ELSE n[k]]
<1>1. /\ n \in [0..(m - 1) -> Nat] /\ n[m - 1] \in Nat
      /\ \A k \in 0..(m - 1) : n[k] = NumberTo(ds, n, k)
  BY DEF Reads
<1>2. more \in [0..m -> Nat]
  BY <1>1
<1>3. more[m] = 10 * n[m - 1] + ds[m][2] /\ \A k \in 0..(m - 1) : more[k] = n[k]
  OBVIOUS
<1>. HIDE DEF more
<1>4. more[m] = NumberTo(ds, more, m)
  BY <1>3 DEF NumberTo
<1>5. ASSUME NEW k \in 0..(m - 1) PROVE more[k] = NumberTo(ds, more, k)
  <2>1. k # 0 => k - 1 \in 0..(m - 1)
    OBVIOUS
  <2>. QED BY <1>1, <1>3, <2>1 DEF NumberTo
<1>6. \A k \in 0..m : more[k] = NumberTo(ds, more, k)
  BY <1>4, <1>5
<1>. QED BY <1>2, <1>6 DEF Reads

LEMMA NumberIsNat ==
  ASSUME NEW ds \in Seq(Nat \X Nat)
  PROVE  VP!Number(ds) \in Nat
<1>. DEFINE unread == {m \in 0..Len(ds) : ~\E n : Reads(ds, n, m)}
<1>1. Len(ds) \in Nat /\ \A k \in 1..Len(ds) : ds[k][2] \in Nat
  OBVIOUS
<1>2. unread = {}
  <2>. SUFFICES ASSUME unread # {} PROVE FALSE
    OBVIOUS
  <2>1. PICK m \in unread : \A j \in unread : m <= j
    <3>1. unread \subseteq Nat
      BY <1>1
    <3>. HIDE DEF unread
    <3>. QED BY <3>1, LeastIn
  <2>2. m # 0
    <3>1. Reads(ds, [k \in 0..0 |-> 0], 0)
      BY DEF Reads, NumberTo
    <3>. QED BY <2>1, <3>1
  <2>3. m \in 1..Len(ds) /\ m \in Nat \ {0} /\ m - 1 \in 0..Len(ds)
    BY <1>1, <2>1, <2>2
  <2>4. m - 1 \notin unread
    <3>. HIDE DEF unread
    <3>. QED BY <2>1, <2>3
  <2>. QED BY <1>1, <2>1, <2>3, <2>4, OneDigitMore
<1>. DEFINE reading == CHOOSE n : n = [k \in 0..Len(ds) |-> NumberTo(ds, n, k)]
<1>3. reading = [k \in 0..Len(ds) |-> NumberTo(ds, reading, k)]
  <2>1. PICK n : Reads(ds, n, Len(ds))
    BY <1>1, <1>2
  <2>2. n = [k \in 0..Len(ds) |-> NumberTo(ds, n, k)]
    BY <2>1 DEF Reads
  <2>. QED BY <2>2
<1>4. VP!Number(ds) = reading[Len(ds)]
  BY DEF VP!Number, NumberTo
<1>. HIDE DEF reading
<1>. DEFINE wrong == {k \in 0..Len(ds) : reading[k] \notin Nat}
<1>5. wrong = {}
  <2>. SUFFICES ASSUME wrong # {} PROVE FALSE
    OBVIOUS
  <2>1. PICK k \in wrong : \A j \in wrong : k <= j
    <3>1. wrong \subseteq Nat
      BY <1>1
    <3>. HIDE DEF wrong
    <3>. QED BY <3>1, LeastIn
  <2>2. reading[k] = NumberTo(ds, reading, k)
    BY <1>3, <2>1
  <2>3. k = 0 => reading[k] = 0
    BY <2>2 DEF NumberTo
  <2>4. ASSUME k # 0 PROVE reading[k] \in Nat
    <3>1. k \in 1..Len(ds) /\ k - 1 \in 0..Len(ds)
      BY <1>1, <2>1, <2>4
    <3>2. k - 1 \notin wrong
      <4>. HIDE DEF wrong
      <4>. QED BY <2>1, <3>1
    <3>3. reading[k - 1] \in Nat /\ ds[k][2] \in Nat
      BY <1>1, <3>1, <3>2
    <3>. QED BY <2>2, <2>4, <3>3 DEF NumberTo
  <2>. QED BY <2>1, <2>3, <2>4
<1>. QED BY <1>1, <1>4, <1>5

LEMMA LeapYears ==
  ASSUME NEW y \in Nat
  PROVE  VP!IsLeap(y) <=> ~(y % 4 # 0 \/ (y % 25 = 0 /\ y % 16 # 0))
<1>1. y % 100 = 0 <=> y % 4 = 0 /\ y % 25 = 0
  OBVIOUS
<1>2. y % 400 = 0 <=> y % 16 = 0 /\ y % 25 = 0
  <2>1. ASSUME y % 400 = 0 PROVE y % 16 = 0 /\ y % 25 = 0
    <3>1. PICK q \in Int : y = 400 * q
      BY <2>1
    <3>2. y = 16 * (25 * q) /\ y = 25 * (16 * q)
      BY <3>1
    <3>. QED BY <3>2
  <2>2. ASSUME y % 16 = 0, y % 25 = 0 PROVE y % 400 = 0
    <3>1. PICK q \in Int : y = 16 * q
      BY <2>2
    <3>2. PICK r \in Int : y = 25 * r
      BY <2>2
    <3>3. y = 400 * (9 * q - 14 * r)
      BY <3>1, <3>2
    <3>. QED BY <3>3
  <2>. QED BY <2>1, <2>2
<1>3. y % 16 = 0 => y % 4 = 0
  OBVIOUS
<1>. QED BY <1>1, <1>2, <1>3 DEF VP!IsLeap

LEMMA CalendarDays ==
  ASSUME NEW y \in Nat, NEW m, NEW d
  PROVE  (m \in 1..12 /\ d \in 1..VP!DaysInMonth(y, m)) <=> <<m, d>> \in VP!Days(y)
<1>. DEFINE leap == VP!IsLeap(y)
            days == VP!DaysInMonth(y, m)
<1>1. <<m, d>> \in VP!Days(y)
        <=> /\ m \in 1..12 /\ d \in 1..31
            /\ ~(m \in {4, 6, 9, 11} /\ d = 31)
            /\ ~(m = 2 /\ d \in {30, 31})
            /\ ~(~leap /\ m = 2 /\ d = 29)
  BY LeapYears DEF VP!Days
<1>2. CASE m \in {1, 3, 5, 7, 8, 10, 12}
  BY <1>1, <1>2 DEF VP!DaysInMonth
<1>3. CASE m \in {4, 6, 9, 11}
  BY <1>1, <1>3 DEF VP!DaysInMonth
<1>4. CASE m = 2
  BY <1>1, <1>4 DEF VP!DaysInMonth
<1>5. CASE m \notin 1..12
  BY <1>1, <1>5
<1>. QED BY <1>2, <1>3, <1>4, <1>5

LEMMA SameVC == \A S : VP!Cardinality(S) = Cardinality(S)
  BY DEF VP!Cardinality, Cardinality

LEMMA DaysOfYear ==
  ASSUME NEW y \in Nat
  PROVE  Cardinality(VP!Days(y)) = IF VP!IsLeap(y) THEN 366 ELSE 365
<1>. DEFINE all == (1..12) \X (1..31)
            short == ({4, 6, 9, 11} \X {31}) \cup {<<2, 30>>, <<2, 31>>}
            none == IF VP!IsLeap(y) THEN short ELSE short \cup {<<2, 29>>}
<1>1. VP!Days(y) = all \ none
  BY LeapYears DEF VP!Days
<1>2. IsFiniteSet(all) /\ Cardinality(all) = 372
  <2>1. \A n \in Nat : IsFiniteSet(1..n) /\ Cardinality(1..n) = n
    BY FS_Interval
  <2>2. /\ IsFiniteSet(1..12) /\ Cardinality(1..12) = 12
        /\ IsFiniteSet(1..31) /\ Cardinality(1..31) = 31
    BY <2>1
  <2>. QED BY <2>2, FS_Product
<1>3. /\ IsFiniteSet(short) /\ Cardinality(short) = 6
      /\ IsFiniteSet(short \cup {<<2, 29>>}) /\ Cardinality(short \cup {<<2, 29>>}) = 7
  <2>. DEFINE s1 == {<<2, 30>>} 
              s2 == s1 \cup {<<2, 31>>}
              s3 == s2 \cup {<<4, 31>>}
              s4 == s3 \cup {<<6, 31>>}
              s5 == s4 \cup {<<9, 31>>}
              s6 == s5 \cup {<<11, 31>>}
  <2>1. short = s6
    <3>1. {4, 6, 9, 11} \X {31} = {<<4, 31>>, <<6, 31>>, <<9, 31>>, <<11, 31>>}
      OBVIOUS
    <3>. QED BY <3>1, Zenon
  <2>2. /\ <<2, 31>> \notin s1 /\ <<4, 31>> \notin s2 /\ <<6, 31>> \notin s3
        /\ <<9, 31>> \notin s4 /\ <<11, 31>> \notin s5 /\ <<2, 29>> \notin s6
    OBVIOUS
  <2>. HIDE DEF short
  <2>3. IsFiniteSet(s1) /\ Cardinality(s1) = 1
    BY FS_Singleton
  <2>. HIDE DEF s1
  <2>4. IsFiniteSet(s2) /\ Cardinality(s2) = 2
    BY <2>2, <2>3, FS_AddElement
  <2>. HIDE DEF s2
  <2>5. IsFiniteSet(s3) /\ Cardinality(s3) = 3
    BY <2>2, <2>4, FS_AddElement
  <2>. HIDE DEF s3
  <2>6. IsFiniteSet(s4) /\ Cardinality(s4) = 4
    BY <2>2, <2>5, FS_AddElement
  <2>. HIDE DEF s4
  <2>7. IsFiniteSet(s5) /\ Cardinality(s5) = 5
    BY <2>2, <2>6, FS_AddElement
  <2>. HIDE DEF s5
  <2>8. IsFiniteSet(s6) /\ Cardinality(s6) = 6
    BY <2>2, <2>7, FS_AddElement
  <2>. HIDE DEF s6
  <2>9. IsFiniteSet(s6 \cup {<<2, 29>>}) /\ Cardinality(s6 \cup {<<2, 29>>}) = 7
    BY <2>2, <2>8, FS_AddElement
  <2>. QED BY <2>1, <2>8, <2>9
<1>4. none \subseteq all
  OBVIOUS
<1>5. IsFiniteSet(none) /\ Cardinality(none) = IF VP!IsLeap(y) THEN 6 ELSE 7
  <2>. HIDE DEF short
  <2>. QED BY <1>3
<1>. HIDE DEF all, none
<1>6. all \cap none = none
  BY <1>4
<1>7. Cardinality(all \ none) = 372 - Cardinality(none)
  BY <1>2, <1>6, FS_Difference
<1>. QED BY <1>1, <1>5, <1>7
LEMMA FirstBytes ==
  ASSUME NEW S, NEW s \in Seq(S), NEW n \in 0..Len(s)
  PROVE  SubSeq(s, 1, n) \in Seq(S)
<1>1. \A i \in 1..n : s[i] \in S
  OBVIOUS
<1>. QED BY <1>1, SubSeqProperties

LEMMA ValidIsReal ==
  ASSUME NEW raw \in Seq(Nat \X Nat), NEW format
  PROVE  VP!Validate(raw, format) = "valid" <=> VP!RealDate(raw, format)
<1>1. CASE ~VP!IsFormat(raw, format)
  BY <1>1 DEF VP!Validate, VP!RealDate
<1>2. CASE VP!IsFormat(raw, format) /\ format = "YYYYMMDD"
  <2>1. Len(raw) = 8
    BY <1>2 DEF VP!IsFormat, VP!Size
  <2>. DEFINE year == SubSeq(raw, 1, 4)
  <2>2. year \in Seq(Nat \X Nat)
    <3>1. 4 \in 0..Len(raw)
      BY <2>1
    <3>. QED BY <3>1, FirstBytes
  <2>. HIDE DEF year
  <2>3. VP!Number(year) \in Nat
    BY <2>2, NumberIsNat
  <2>. QED BY <1>2, <2>3, CalendarDays DEF VP!Validate, VP!InCalendar, VP!RealDate, year
<1>3. CASE VP!IsFormat(raw, format) /\ format # "YYYYMMDD"
  <2>1. Len(raw) = 5
    BY <1>3 DEF VP!IsFormat, VP!Size
  <2>. DEFINE year == SubSeq(raw, 1, 2)
  <2>2. year \in Seq(Nat \X Nat)
    <3>1. 2 \in 0..Len(raw)
      BY <2>1
    <3>. QED BY <3>1, FirstBytes
  <2>. HIDE DEF year
  <2>3. VP!Number(year) \in Nat /\ 2000 + VP!Number(year) \in Nat
    BY <2>2, NumberIsNat
  <2>4. VP!Cardinality(VP!Days(2000 + VP!Number(year)))
          = IF VP!IsLeap(2000 + VP!Number(year)) THEN 366 ELSE 365
    BY <2>3, DaysOfYear, SameVC
  <2>. QED BY <1>3, <2>4 DEF VP!Validate, VP!InCalendar, VP!RealDate, year
<1>. QED BY <1>1, <1>2, <1>3
(* Value profiles: what the scan leaves for the dates.                     *)
LEMMA OwnType ==
  ASSUME NEW S, NEW s \in Seq(S)
  PROVE  s \in Seq(ToSet(s))
  BY DEF ToSet

LEMMA GreatestIn ==
  ASSUME NEW n \in Nat, NEW S \in SUBSET (1..n), S # {}
  PROVE  \E k \in S : \A j \in S : k >= j
<1>. DEFINE below == {n - k : k \in S}
<1>1. \A k \in S : n - k \in Nat
  OBVIOUS
<1>2. below \subseteq Nat /\ below # {}
  BY <1>1
<1>3. PICK m \in below : \A j \in below : m <= j
  <2>. HIDE DEF below
  <2>. QED BY <1>2, LeastIn
<1>4. PICK k \in S : m = n - k
  OBVIOUS
<1>5. ASSUME NEW j \in S PROVE k >= j
  <2>1. m <= n - j /\ j \in 1..n /\ k \in 1..n
    BY <1>3
  <2>. QED BY <1>4, <2>1
<1>. QED BY <1>5

LEMMA ConcatFacts ==
  ASSUME NEW s, s \in Seq(ToSet(s)), NEW t, t \in Seq(ToSet(t))
  PROVE  /\ s \o t \in Seq(ToSet(s \o t))
         /\ DOMAIN s = 1..Len(s) /\ Len(s) \in Nat /\ DOMAIN t = 1..Len(t) /\ Len(t) \in Nat
         /\ DOMAIN (s \o t) = 1..(Len(s) + Len(t))
         /\ \A k \in 1..Len(s) : (s \o t)[k] = s[k]
         /\ \A k \in 1..Len(t) : (s \o t)[Len(s) + k] = t[k]
<1>. DEFINE S == ToSet(s) \cup ToSet(t)
            u == s \o t
<1>1. s \in Seq(S) /\ t \in Seq(S)
  OBVIOUS
<1>. HIDE DEF S
<1>2. /\ u \in Seq(S) /\ Len(u) = Len(s) + Len(t) /\ Len(s) \in Nat /\ Len(t) \in Nat
      /\ DOMAIN s = 1..Len(s) /\ DOMAIN t = 1..Len(t) /\ DOMAIN u = 1..(Len(s) + Len(t))
      /\ \A k \in 1..Len(s) : u[k] = s[k]
      /\ \A k \in 1..Len(t) : u[Len(s) + k] = t[k]
  BY <1>1
<1>. HIDE DEF u
<1>3. u \in Seq(ToSet(u))
  BY <1>2, OwnType
<1>. QED BY <1>2, <1>3 DEF u

LEMMA ProfileCallTypes ==
  ASSUME NEW c \in ProfileCalls
  PROVE  /\ Len(c.markers) \in Nat /\ DOMAIN c.markers = 1..Len(c.markers)
         /\ Len(c.dates) \in Nat /\ DOMAIN c.dates = 1..Len(c.dates)
<1>1. c.markers \in Seq(VP!ToSet(c.markers)) /\ c.dates \in Seq(VP!ToSet(c.dates))
  BY ProfileCallsTyped DEF VP!CallsTyped
<1>. QED BY <1>1

LEMMA FieldBytes ==
  ASSUME NEW c \in ProfileCalls, NEW name, VP!Named(c.record, name) # {}
  PROVE  VP!Field(c.record, name).raw \in Seq(Nat \X Nat)
<1>. DEFINE named == VP!Named(c.record, name)
<1>1. c.record \in Seq(VP!ToSet(c.record))
  BY ProfileCallsTyped DEF VP!CallsTyped
<1>2. Len(c.record) \in Nat /\ DOMAIN c.record = 1..Len(c.record)
  BY <1>1
<1>3. named \in SUBSET (1..Len(c.record)) /\ named # {}
  BY <1>2 DEF VP!Named
<1>. HIDE DEF named
<1>4. PICK k \in named : \A j \in named : k >= j
  BY <1>2, <1>3, GreatestIn
<1>5. VP!Max(named) \in DOMAIN c.record
  BY <1>2, <1>3, <1>4 DEF VP!Max
<1>6. c.record[VP!Max(named)].raw \in Seq(Nat \X Nat)
  BY <1>5, ProfileCallsTyped DEF VP!CallsTyped
<1>. QED BY <1>6 DEF VP!Field, named

(* A rule among those declared first matches the field.                    *)
MarkedTo(c, n, field) ==
  \E k \in 1..n :
    /\ c.markers[k].field = field
    /\ VP!Named(c.scanned, field) # {}
    /\ \E r \in DOMAIN c.markers[k].rules :
         VP!Matches(c.markers[k].rules[r], VP!Field(c.scanned, field))

HitsTo(c, n, found) == \A field : (\E h \in found : h[1] = field) <=> MarkedTo(c, n, field)

LEMMA NoHitYet == ASSUME NEW c PROVE HitsTo(c, 0, {})
  BY DEF HitsTo, MarkedTo

LEMMA NotScanned ==
  ASSUME NEW c, NEW n \in Nat, NEW found, HitsTo(c, n, found),
         VP!Named(c.scanned, c.markers[n + 1].field) = {}
  PROVE  HitsTo(c, n + 1, found)
<1>1. \A field : MarkedTo(c, n + 1, field) <=> MarkedTo(c, n, field)
  BY DEF MarkedTo
<1>. QED BY <1>1 DEF HitsTo

(* The rules of a declaration that match, and the hits they give. *)
Matching(c, d) ==
  {r \in DOMAIN d.rules : VP!Matches(d.rules[r], VP!Field(c.scanned, d.field))}
HitsOf(c, d) == {<<d.field, d.rules[r].id>> : r \in Matching(c, d)}

LEMMA OneScanned ==
  ASSUME NEW c, NEW n \in Nat, NEW found, HitsTo(c, n, found),
         VP!Named(c.scanned, c.markers[n + 1].field) # {}
  PROVE  HitsTo(c, n + 1, found \cup HitsOf(c, c.markers[n + 1]))
<1>. DEFINE d == c.markers[n + 1]
            rs == Matching(c, d)
            more == HitsOf(c, d)
<1>1. ASSUME NEW field
      PROVE  MarkedTo(c, n + 1, field) <=> MarkedTo(c, n, field) \/ (field = d.field /\ rs # {})
  BY DEF MarkedTo, Matching
<1>2. ASSUME NEW field
      PROVE  (\E h \in more : h[1] = field) <=> (field = d.field /\ rs # {})
  <2>1. (\E h \in more : h[1] = field) <=> \E r \in rs : <<d.field, d.rules[r].id>>[1] = field
    BY DEF HitsOf
  <2>. QED BY <2>1
<1>. QED BY <1>1, <1>2 DEF HitsTo

(* What is said of a date: its entry among the statuses, and a finding.    *)
Present(c) == {k \in DOMAIN c.dates : VP!Named(c.record, c.dates[k].field) # {}}
Place(c, k) == Cardinality({j \in Present(c) : j <= k})
Complains(fs, field) == \E f \in DOMAIN fs : fs[f] \in {"format", "calendar"} \X {field}

Judged(c, d, entry, fs) ==
  LET marked == MarkedTo(c, Len(c.markers), d.field) IN
  /\ entry[1] = d.field
  /\ entry[2] = "declared_sentinel" <=> marked
  /\ entry[2] = "valid" <=> ~marked /\ VP!RealDate(VP!Field(c.record, d.field).raw, d.format)
  /\ entry[2] \in {"invalid_format", "invalid_calendar"} => Complains(fs, d.field)

JudgedTo(c, n, ss, fs) ==
  /\ Len(ss) = Place(c, n)
  /\ \A k \in Present(c) : k <= n => Judged(c, c.dates[k], ss[Place(c, k)], fs)

LEMMA Places ==
  ASSUME NEW c \in ProfileCalls, NEW n \in Nat
  PROVE  /\ Place(c, n) \in Nat /\ Place(c, 0) = 0
         /\ n + 1 \notin Present(c) => Place(c, n + 1) = Place(c, n)
         /\ n + 1 \in Present(c) => Place(c, n + 1) = Place(c, n) + 1
         /\ \A k \in Present(c) : k <= n => Place(c, k) \in 1..Place(c, n)
<1>. DEFINE To(k) == {j \in Present(c) : j <= k}
<1>1. Present(c) \subseteq 1..Len(c.dates) /\ Len(c.dates) \in Nat
  BY ProfileCallTypes DEF Present
<1>2. ASSUME NEW S, S \subseteq Present(c) PROVE IsFiniteSet(S) /\ Cardinality(S) \in Nat
  <2>1. IsFiniteSet(1..Len(c.dates))
    BY <1>1, FS_Interval
  <2>2. S \in SUBSET (1..Len(c.dates))
    BY <1>1, <1>2
  <2>3. IsFiniteSet(S)
    BY <2>1, <2>2, FS_Subset
  <2>. QED BY <2>3, FS_CardinalityType
<1>3. IsFiniteSet(To(n)) /\ Place(c, n) = Cardinality(To(n)) /\ Place(c, n) \in Nat
  BY <1>2 DEF Place
<1>4. To(0) = {}
  BY <1>1
<1>5. Place(c, 0) = 0
  BY <1>4, FS_EmptySet DEF Place
<1>6. ASSUME n + 1 \notin Present(c) PROVE Place(c, n + 1) = Place(c, n)
  <2>1. To(n + 1) = To(n)
    BY <1>1, <1>6
  <2>. QED BY <2>1 DEF Place
<1>7. ASSUME n + 1 \in Present(c) PROVE Place(c, n + 1) = Place(c, n) + 1
  <2>1. To(n + 1) = To(n) \cup {n + 1} /\ n + 1 \notin To(n)
    BY <1>1, <1>7
  <2>. HIDE DEF To
  <2>2. Cardinality(To(n + 1)) = Cardinality(To(n)) + 1
    BY <1>3, <2>1, FS_AddElement
  <2>. QED BY <2>2 DEF Place, To
<1>8. ASSUME NEW k \in Present(c), k <= n PROVE Place(c, k) \in 1..Place(c, n)
  <2>1. To(k) \in SUBSET To(n) /\ k \in To(k)
    BY <1>1, <1>8
  <2>2. IsFiniteSet(To(k)) /\ Cardinality(To(k)) \in Nat
    BY <1>2
  <2>. HIDE DEF To
  <2>3. Cardinality(To(k)) <= Cardinality(To(n))
    BY <1>3, <2>1, FS_Subset
  <2>4. Cardinality(To(k)) # 0
    BY <2>1, <2>2, FS_EmptySet
  <2>. QED BY <1>3, <2>2, <2>3, <2>4 DEF Place, To
<1>. QED BY <1>3, <1>5, <1>6, <1>7, <1>8

(* Findings are only added, so what was complained of stays complained of. *)
LEMMA StillComplains ==
  ASSUME NEW fs, fs \in Seq(ToSet(fs)), NEW gs, gs \in Seq(ToSet(gs)), NEW field
  PROVE  Complains(fs, field) \/ Complains(gs, field) => Complains(fs \o gs, field)
<1>1. ASSUME NEW k \in DOMAIN fs PROVE k \in DOMAIN (fs \o gs) /\ (fs \o gs)[k] = fs[k]
  BY ConcatFacts
<1>2. ASSUME NEW k \in DOMAIN gs
      PROVE  Len(fs) + k \in DOMAIN (fs \o gs) /\ (fs \o gs)[Len(fs) + k] = gs[k]
  BY ConcatFacts
<1>. QED BY <1>1, <1>2 DEF Complains

LEMMA StillJudged ==
  ASSUME NEW c, NEW n, NEW ss, NEW fs, fs \in Seq(ToSet(fs)), NEW gs, gs \in Seq(ToSet(gs)),
         JudgedTo(c, n, ss, fs)
  PROVE  JudgedTo(c, n, ss, fs \o gs)
  BY StillComplains DEF JudgedTo, Judged
LEMMA NoDateYet ==
  ASSUME NEW c \in ProfileCalls, NEW fs
  PROVE  JudgedTo(c, 0, <<>>, fs)
<1>1. Place(c, 0) = 0 /\ Len(<<>>) = 0
  BY Places
<1>2. \A k \in Present(c) : ~(k <= 0)
  BY ProfileCallTypes DEF Present
<1>. QED BY <1>1, <1>2 DEF JudgedTo

LEMMA DateAbsent ==
  ASSUME NEW c \in ProfileCalls, NEW n \in Nat, NEW ss, NEW fs, JudgedTo(c, n, ss, fs),
         VP!Named(c.record, c.dates[n + 1].field) = {}
  PROVE  JudgedTo(c, n + 1, ss, fs)
<1>1. n + 1 \notin Present(c) /\ \A k \in Present(c) : k \in Nat
  BY ProfileCallTypes DEF Present
<1>2. \A k \in Present(c) : k <= n + 1 => k <= n
  BY <1>1
<1>3. Place(c, n + 1) = Place(c, n)
  BY <1>1, Places
<1>. QED BY <1>2, <1>3 DEF JudgedTo

LEMMA DateJudged ==
  ASSUME NEW c \in ProfileCalls, NEW n \in 0..(Len(c.dates) - 1),
         NEW ss, ss \in Seq(ToSet(ss)), NEW fs, JudgedTo(c, n, ss, fs),
         VP!Named(c.record, c.dates[n + 1].field) # {},
         NEW entry, Judged(c, c.dates[n + 1], entry, fs)
  PROVE  JudgedTo(c, n + 1, Append(ss, entry), fs)
<1>. DEFINE more == Append(ss, entry)
<1>0. n \in Nat /\ n + 1 \in Present(c)
  BY ProfileCallTypes DEF Present
<1>1. Place(c, n + 1) = Place(c, n) + 1 /\ Place(c, n) \in Nat /\ Len(ss) = Place(c, n)
  BY <1>0, Places DEF JudgedTo
<1>2. /\ Len(more) = Place(c, n + 1) /\ more[Place(c, n + 1)] = entry
      /\ \A k \in 1..Place(c, n) : more[k] = ss[k]
  BY <1>1, AppendFacts
<1>. HIDE DEF more
<1>3. ASSUME NEW k \in Present(c), k <= n + 1 PROVE Judged(c, c.dates[k], more[Place(c, k)], fs)
  <2>1. k \in Nat
    BY ProfileCallTypes DEF Present
  <2>2. CASE k = n + 1
    BY <1>2, <2>2
  <2>3. CASE k <= n
    <3>1. Place(c, k) \in 1..Place(c, n)
      BY <1>0, <2>3, Places
    <3>. QED BY <1>2, <2>3, <3>1 DEF JudgedTo
  <2>. QED BY <1>0, <1>3, <2>1, <2>2, <2>3
<1>4. JudgedTo(c, n + 1, more, fs)
  BY <1>2, <1>3 DEF JudgedTo
<1>. QED BY <1>4 DEF more

ProfileTypes ==
  /\ call \in ProfileCalls
  /\ at \in Nat
  /\ statuses \in Seq(ToSet(statuses)) /\ findings \in Seq(ToSet(findings))

ProfileInv ==
  /\ ProfileTypes
  /\ pc \in {"start", "markers"} => statuses = <<>>
  /\ pc = "start" => at = 0 /\ hits = {}
  /\ pc = "markers" => HitsTo(call, at, hits)
  /\ pc \in {"dates", "amounts", "done"} => HitsTo(call, Len(call.markers), hits)
  /\ pc = "dates" => JudgedTo(call, at, statuses, findings)
  /\ pc \in {"amounts", "done"} => JudgedTo(call, Len(call.dates), statuses, findings)

LEMMA ProfileStart == VP!Init => ProfileInv
<1>1. <<>> \in Seq(ToSet(<<>>))
  OBVIOUS
<1>. QED BY <1>1 DEF VP!Init, ProfileInv, ProfileTypes

(* A step that adds findings and changes nothing the dates depend on.      *)
LEMMA Complaint ==
  ASSUME ProfileInv, UNCHANGED <<call, pc, hits, statuses>>, at' \in Nat,
         pc \in {"markers", "amounts"}, pc = "markers" => HitsTo(call, at', hits),
         \E gs : gs \in Seq(ToSet(gs)) /\ findings' = findings \o gs
  PROVE  ProfileInv'
<1>. PICK gs : gs \in Seq(ToSet(gs)) /\ findings' = findings \o gs
  OBVIOUS
<1>1. findings' \in Seq(ToSet(findings'))
  BY ConcatFacts DEF ProfileInv, ProfileTypes
<1>2. pc = "amounts" => JudgedTo(call, Len(call.dates), statuses, findings')
  BY StillJudged DEF ProfileInv, ProfileTypes
<1>. QED BY <1>1, <1>2 DEF ProfileInv, ProfileTypes

LEMMA ThreeConcat ==
  ASSUME NEW s, s \in Seq(ToSet(s)), NEW t, t \in Seq(ToSet(t)), NEW u, u \in Seq(ToSet(u))
  PROVE  s \o t \o u = s \o (t \o u)
<1>. DEFINE S == ToSet(s) \cup ToSet(t) \cup ToSet(u)
<1>1. s \in Seq(S) /\ t \in Seq(S) /\ u \in Seq(S)
  OBVIOUS
<1>. HIDE DEF S
<1>. QED BY <1>1

LEMMA OneIsConcat ==
  ASSUME NEW s, s \in Seq(ToSet(s)), NEW e
  PROVE  <<e>> \in Seq(ToSet(<<e>>)) /\ Append(s, e) = s \o <<e>>
<1>. DEFINE S == ToSet(s) \cup {e}
<1>1. s \in Seq(S) /\ e \in S
  OBVIOUS
<1>. HIDE DEF S
<1>2. <<e>> \in Seq(S) /\ Append(s, e) = s \o <<e>>
  BY <1>1
<1>. QED BY <1>2, OwnType

(* A declared date that is there: a marker if the scan found one, else as  *)
(* its bytes are.                                                          *)
LEMMA JudgedByItself ==
  ASSUME ProfileInv, pc = "dates", NEW d, VP!Named(call.record, d.field) # {},
         NEW status,
         status = IF VP!Exempt(d.field) THEN "declared_sentinel"
                  ELSE VP!Validate(VP!Field(call.record, d.field).raw, d.format),
         NEW fs, status \in {"invalid_format", "invalid_calendar"} => Complains(fs, d.field)
  PROVE  Judged(call, d, <<d.field, status>>, fs)
<1>. DEFINE raw == VP!Field(call.record, d.field).raw
            marked == MarkedTo(call, Len(call.markers), d.field)
<1>1. VP!Exempt(d.field) <=> marked
  BY DEF ProfileInv, HitsTo, VP!Exempt
<1>2. raw \in Seq(Nat \X Nat)
  BY FieldBytes DEF ProfileInv, ProfileTypes
<1>3. VP!Validate(raw, d.format) = "valid" <=> VP!RealDate(raw, d.format)
  BY <1>2, ValidIsReal
<1>4. VP!Validate(raw, d.format) # "declared_sentinel"
  BY DEF VP!Validate
<1>. HIDE DEF raw, marked
<1>5. /\ status = "declared_sentinel" <=> marked
      /\ status = "valid" <=> ~marked /\ VP!RealDate(raw, d.format)
  BY <1>1, <1>3, <1>4 DEF raw
<1>. QED BY <1>5 DEF Judged, raw, marked

LEMMA DateFindingsComplain ==
  ASSUME NEW d, NEW status
  PROVE  LET gs == VP!DateFindings(d, status) IN
         /\ gs \in Seq(ToSet(gs))
         /\ status \in {"invalid_format", "invalid_calendar"} => Complains(gs, d.field)
<1>. DEFINE S == {"format", "calendar", "undeclared"} \X {d.field}
            gs == VP!DateFindings(d, status)
            f == <<"format", d.field>>
            c == <<"calendar", d.field>>
            u == <<"undeclared", d.field>>
<1>1. f \in S /\ c \in S /\ u \in S
  OBVIOUS
<1>2. f \in {"format", "calendar"} \X {d.field} /\ c \in {"format", "calendar"} \X {d.field}
  OBVIOUS
<1>3. /\ status = "invalid_format" => gs = <<f>>
      /\ status = "invalid_calendar" => gs = <<c>> \o (IF d.requires THEN <<u>> ELSE <<>>)
      /\ status \notin {"invalid_format", "invalid_calendar"} => gs = <<>>
  BY DEF VP!DateFindings
<1>. HIDE DEF S, gs, f, c, u
<1>4. <<>> \in Seq(S) /\ <<f>> \in Seq(S) /\ <<c>> \in Seq(S) /\ <<u>> \in Seq(S)
  BY <1>1
<1>5. gs \in Seq(S)
      /\ (status \in {"invalid_format", "invalid_calendar"} => 1 \in DOMAIN gs /\ gs[1] \in {f, c})
  <2>. DEFINE rest == IF d.requires THEN <<u>> ELSE <<>>
  <2>1. CASE status = "invalid_format"
    <3>1. gs = <<f>>
      BY <1>3, <2>1
    <3>2. 1 \in DOMAIN <<f>> /\ <<f>>[1] = f
      OBVIOUS
    <3>. QED BY <1>4, <3>1, <3>2
  <2>2. CASE status = "invalid_calendar"
    <3>1. rest \in Seq(S) /\ gs = <<c>> \o rest
      <4>1. gs = <<c>> \o rest
        BY <1>3, <2>2
      <4>2. rest = <<u>> \/ rest = <<>>
        OBVIOUS
      <4>. HIDE DEF rest
      <4>. QED BY <1>4, <4>1, <4>2
    <3>. HIDE DEF rest
    <3>2. <<c>> \o rest \in Seq(S) /\ Len(<<c>> \o rest) = 1 + Len(rest) /\ Len(rest) \in Nat
          /\ (<<c>> \o rest)[1] = c
      BY <1>4, <3>1
    <3>. QED BY <3>1, <3>2
  <2>. QED BY <1>3, <1>4, <2>1, <2>2
<1>6. status \in {"invalid_format", "invalid_calendar"} => Complains(gs, d.field)
  BY <1>2, <1>5 DEF Complains
<1>7. gs \in Seq(ToSet(gs))
  BY <1>5, OwnType
<1>. QED BY <1>6, <1>7 DEF gs

LEMMA ProfileStep == ProfileInv /\ VP!Next => ProfileInv'
<1>. SUFFICES ASSUME ProfileInv, VP!Next PROVE ProfileInv'
  OBVIOUS
<1>0. /\ call \in ProfileCalls /\ at \in Nat
      /\ statuses \in Seq(ToSet(statuses)) /\ findings \in Seq(ToSet(findings))
  BY DEF ProfileInv, ProfileTypes
<1>1. CASE VP!Fail
  BY <1>1 DEF VP!Fail, ProfileInv, ProfileTypes
<1>2. CASE VP!Begin
  BY <1>2, NoHitYet DEF VP!Begin, ProfileInv, ProfileTypes
<1>3. CASE VP!MissingMarked
  <2>1. /\ UNCHANGED <<call, pc, hits, statuses>> /\ at' = at + 1 /\ pc = "markers"
        /\ VP!Named(call.scanned, call.markers[at + 1].field) = {}
        /\ \E e : findings' = Append(findings, e)
    BY <1>3 DEF VP!MissingMarked, VP!Missing
  <2>2. HitsTo(call, at + 1, hits)
    BY <1>0, <2>1, NotScanned DEF ProfileInv
  <2>3. PICK e : findings' = findings \o <<e>> /\ <<e>> \in Seq(ToSet(<<e>>))
    BY <1>0, <2>1, OneIsConcat
  <2>4. pc \in {"markers", "amounts"} /\ UNCHANGED <<call, pc, hits, statuses>>
    BY <2>1
  <2>5. at' \in Nat
    BY <1>0, <2>1
  <2>6. pc = "markers" => HitsTo(call, at', hits)
    BY <2>1, <2>2
  <2>7. \E gs : gs \in Seq(ToSet(gs)) /\ findings' = findings \o gs
    BY <2>3
  <2>. QED BY <2>4, <2>5, <2>6, <2>7, Complaint, Zenon
<1>4. CASE VP!ScanField
  <2>1. /\ UNCHANGED <<call, pc, statuses, findings>> /\ at' = at + 1 /\ pc = "markers"
        /\ VP!Named(call.scanned, call.markers[at + 1].field) # {}
        /\ hits' = hits \cup HitsOf(call, call.markers[at + 1])
    BY <1>4 DEF VP!ScanField, HitsOf, Matching
  <2>2. HitsTo(call, at, hits)
    BY <2>1 DEF ProfileInv
  <2>3. HitsTo(call, at + 1, hits')
    BY <1>0, <2>1, <2>2, OneScanned
  <2>. QED BY <1>0, <2>1, <2>3 DEF ProfileInv, ProfileTypes
<1>5. CASE VP!Scanned
  BY <1>0, <1>5, NoDateYet DEF VP!Scanned, VP!NextProfile, ProfileInv, ProfileTypes
<1>6. CASE VP!MissingDate
  <2>1. /\ UNCHANGED <<call, pc, hits, statuses>> /\ at' = at + 1 /\ pc = "dates"
        /\ VP!Named(call.record, call.dates[at + 1].field) = {}
        /\ \E e : findings' = Append(findings, e)
    BY <1>6 DEF VP!MissingDate, VP!Missing
  <2>2. PICK e : findings' = findings \o <<e>> /\ <<e>> \in Seq(ToSet(<<e>>))
    BY <1>0, <2>1, OneIsConcat
  <2>3. JudgedTo(call, at, statuses, findings') /\ findings' \in Seq(ToSet(findings'))
    BY <1>0, <2>1, <2>2, StillJudged, ConcatFacts DEF ProfileInv
  <2>4. JudgedTo(call, at + 1, statuses, findings')
    BY <1>0, <2>1, <2>3, DateAbsent
  <2>. QED BY <1>0, <2>1, <2>3, <2>4 DEF ProfileInv, ProfileTypes
<1>7. CASE VP!ValidateDate
  <2>. DEFINE d == call.dates[at + 1]
              status == IF VP!Exempt(d.field) THEN "declared_sentinel"
                        ELSE VP!Validate(VP!Field(call.record, d.field).raw, d.format)
              gs == VP!DateFindings(d, status)
              entry == <<d.field, status>>
  <2>1. /\ UNCHANGED <<call, pc, hits>> /\ at' = at + 1 /\ pc = "dates" /\ at < Len(call.dates)
        /\ VP!Named(call.record, d.field) # {}
        /\ statuses' = Append(statuses, entry) /\ findings' = findings \o gs
    BY <1>7 DEF VP!ValidateDate
  <2>2. gs \in Seq(ToSet(gs))
        /\ (status \in {"invalid_format", "invalid_calendar"} => Complains(gs, d.field))
    BY DateFindingsComplain
  <2>3. /\ JudgedTo(call, at, statuses, findings') /\ findings' \in Seq(ToSet(findings'))
        /\ status \in {"invalid_format", "invalid_calendar"} => Complains(findings', d.field)
    <3>. HIDE DEF gs, status, d
    <3>. QED BY <1>0, <2>1, <2>2, StillJudged, StillComplains, ConcatFacts DEF ProfileInv
  <2>4. Judged(call, d, entry, findings')
    BY <2>1, <2>3, JudgedByItself
  <2>. HIDE DEF gs, entry, status
  <2>5. at \in 0..(Len(call.dates) - 1) /\ statuses' \in Seq(ToSet(statuses'))
    BY <1>0, <2>1, ProfileCallTypes, AppendFacts
  <2>6. JudgedTo(call, at + 1, Append(statuses, entry), findings')
    BY <1>0, <2>1, <2>3, <2>4, <2>5, DateJudged
  <2>. QED BY <1>0, <2>1, <2>3, <2>5, <2>6 DEF ProfileInv, ProfileTypes
<1>8. CASE VP!Validated
  BY <1>0, <1>8 DEF VP!Validated, VP!NextProfile, ProfileInv, ProfileTypes
<1>9. CASE VP!MissingAmount
  <2>1. /\ UNCHANGED <<call, pc, hits, statuses>> /\ at' = at + 1 /\ pc = "amounts"
        /\ \E e : findings' = Append(findings, e)
    BY <1>9 DEF VP!MissingAmount, VP!Missing
  <2>2. PICK e : findings' = findings \o <<e>> /\ <<e>> \in Seq(ToSet(<<e>>))
    BY <1>0, <2>1, OneIsConcat
  <2>3. UNCHANGED <<call, pc, hits, statuses>> /\ pc \in {"markers", "amounts"}
    BY <2>1
  <2>4. at' \in Nat
    BY <1>0, <2>1
  <2>5. pc = "markers" => HitsTo(call, at', hits)
    BY <2>1
  <2>6. \E gs : gs \in Seq(ToSet(gs)) /\ findings' = findings \o gs
    BY <2>2
  <2>. QED BY <2>3, <2>4, <2>5, <2>6, Complaint, Zenon
<1>10. CASE VP!RefuseAmount
  <2>1. /\ UNCHANGED <<call, pc, hits, statuses>> /\ at' = at + 1 /\ pc = "amounts"
        /\ \E e : findings' = Append(findings, e)
    BY <1>10 DEF VP!RefuseAmount
  <2>2. PICK e : findings' = findings \o <<e>> /\ <<e>> \in Seq(ToSet(<<e>>))
    BY <1>0, <2>1, OneIsConcat
  <2>3. UNCHANGED <<call, pc, hits, statuses>> /\ pc \in {"markers", "amounts"}
    BY <2>1
  <2>4. at' \in Nat
    BY <1>0, <2>1
  <2>5. pc = "markers" => HitsTo(call, at', hits)
    BY <2>1
  <2>6. \E gs : gs \in Seq(ToSet(gs)) /\ findings' = findings \o gs
    BY <2>2
  <2>. QED BY <2>3, <2>4, <2>5, <2>6, Complaint, Zenon
<1>11. CASE VP!CheckAmount
  <2>1. /\ UNCHANGED <<call, pc, hits, statuses>> /\ at' = at + 1 /\ pc = "amounts"
        /\ \E e, g, b, h : findings' = findings \o (IF b THEN <<e>> ELSE <<>>)
                                                \o (IF h THEN <<g>> ELSE <<>>)
    BY <1>11, Zenon DEF VP!CheckAmount
  <2>2. PICK e, g, b, h : findings' = findings \o (IF b THEN <<e>> ELSE <<>>)
                                              \o (IF h THEN <<g>> ELSE <<>>)
    BY <2>1
  <2>. DEFINE first == IF b THEN <<e>> ELSE <<>>
              second == IF h THEN <<g>> ELSE <<>>
  <2>3. /\ first \in Seq(ToSet(first)) /\ second \in Seq(ToSet(second))
        /\ findings' = findings \o first \o second
    <3>1. /\ <<>> \in Seq(ToSet(<<>>))
          /\ <<e>> \in Seq(ToSet(<<e>>)) /\ <<g>> \in Seq(ToSet(<<g>>))
      <4>. HIDE DEF first, second
      <4>1. <<>> \in Seq(ToSet(<<>>))
        OBVIOUS
      <4>2. <<e>> \in Seq(ToSet(<<e>>))
        BY <1>0, OneIsConcat
      <4>3. <<g>> \in Seq(ToSet(<<g>>))
        BY <1>0, OneIsConcat
      <4>. QED BY <4>1, <4>2, <4>3
    <3>2. (first = <<e>> \/ first = <<>>) /\ (second = <<g>> \/ second = <<>>)
      OBVIOUS
    <3>3. findings' = findings \o first \o second
      BY <2>2
    <3>. HIDE DEF first, second
    <3>. QED BY <3>1, <3>2, <3>3
  <2>. HIDE DEF first, second
  <2>4. /\ findings \o first \o second = findings \o (first \o second)
        /\ first \o second \in Seq(ToSet(first \o second))
    <3>1. findings \o first \o second = findings \o (first \o second)
      BY <1>0, <2>3, ThreeConcat
    <3>2. first \o second \in Seq(ToSet(first \o second))
      BY <2>3, ConcatFacts
    <3>. QED BY <3>1, <3>2
  <2>5. UNCHANGED <<call, pc, hits, statuses>> /\ pc \in {"markers", "amounts"}
    BY <2>1
  <2>6. at' \in Nat
    BY <1>0, <2>1
  <2>7. pc = "markers" => HitsTo(call, at', hits)
    BY <2>1
  <2>8. \E gs : gs \in Seq(ToSet(gs)) /\ findings' = findings \o gs
    BY <2>3, <2>4
  <2>. QED BY <2>5, <2>6, <2>7, <2>8, Complaint, Zenon
<1>12. CASE VP!Return
  BY <1>0, <1>12 DEF VP!Return, VP!NextProfile, ProfileInv, ProfileTypes
<1>13. CASE VP!Terminated
  BY <1>0, <1>13 DEF VP!Terminated, VP!vars, ProfileInv, ProfileTypes
<1>. QED BY <1>1, <1>2, <1>3, <1>4, <1>5, <1>6, <1>7, <1>8, <1>9, <1>10, <1>11, <1>12, <1>13
        DEF VP!Next

(* Every declared date of the record is judged once, by its own markers or *)
(* by its own bytes, valid exactly when they are a day of the calendar.    *)
THEOREM EachDateJudged == Spec => []DatesJudgedOnce
<1>. DEFINE IInv == court = "value_profiles" => ProfileInv
<1>1. IInv => DatesJudgedOnce
  <2>. SUFFICES ASSUME ProfileInv, pc = "done" PROVE VP!DatesJudgedOnce
    BY DEF DatesJudgedOnce, VP!DatesJudgedOnce
  <2>1. /\ JudgedTo(call, Len(call.dates), statuses, findings) /\ call \in ProfileCalls
    BY DEF ProfileInv, ProfileTypes
  <2>2. /\ Len(call.dates) \in Nat /\ DOMAIN call.dates = 1..Len(call.dates)
        /\ DOMAIN call.markers = 1..Len(call.markers)
    BY <2>1, ProfileCallTypes
  <2>3. {j \in Present(call) : j <= Len(call.dates)} = Present(call)
        /\ \A k \in Present(call) : k <= Len(call.dates)
    BY <2>2 DEF Present
  <2>4. Len(statuses) = Cardinality(Present(call))
    BY <2>1, <2>3 DEF JudgedTo, Place
  <2>5. \A k \in Present(call) : Judged(call, call.dates[k], statuses[Place(call, k)], findings)
    BY <2>1, <2>3 DEF JudgedTo
  <2>6. \A field : VP!Marked(field) <=> MarkedTo(call, Len(call.markers), field)
    BY <2>2 DEF VP!Marked, MarkedTo
  <2>. QED BY <2>4, <2>5, <2>6, SameVC
           DEF VP!DatesJudgedOnce, Present, Place, Judged, Complains
<1>2. Init => IInv
  BY ProfileStart DEF Init
<1>3. IInv /\ [Next]_vars => IInv'
  <2>1. CASE UNCHANGED vars
    BY <2>1 DEF vars, profileVars, ProfileInv, ProfileTypes
  <2>2. CASE court = "value_profiles" /\ VP!Next /\ court' = court
    BY <2>2, ProfileStep
  <2>. QED BY <2>1, <2>2 DEF Next
<1>. QED BY <1>1, <1>2, <1>3, PTL DEF Spec
-----------------------------------------------------------------------------
(* The operator's passes over a file. What a call makes of item k in a     *)
(* record.                                                                 *)
Items(c) == DOMAIN c.prog.laid
DomainOf(c, k) == OP!Attr(c.prog, c.prog.laid[k].name)
BytesOf(c, k, rec) == OP!Slice(rec, c.prog.laid[k])
IsValid(c, k, rec) ==
  BytesOf(c, k, rec) # NoBytes /\ OP!FieldValid(DomainOf(c, k), BytesOf(c, k, rec))
FieldsOf(c, categories, rec) == OP!FieldsIn(categories, c.prog, rec, c.encoding)
Sound(c, rec) == {k \in FieldsOf(c, {"numeric"}, rec) : IsValid(c, k, rec)}
Dirty(c, rec) == {k \in FieldsOf(c, {"numeric", "alphanumeric"}, rec) : ~IsValid(c, k, rec)}
Text(c, rec) == FieldsOf(c, {"group", "alphanumeric", "edited"}, rec)
Unread(c, rec) == FieldsOf(c, {"unsupported"}, rec)

LEMMA OperatorSets ==
  ASSUME NEW rec
  PROVE  /\ OP!ValidNumeric(rec) = Sound(call, rec)
         /\ OP!InvalidFields(rec) = Dirty(call, rec)
         /\ OP!Shown(rec) = FieldsOf(call, {"numeric", "alphanumeric"}, rec)
         /\ OP!Textual(rec) = Text(call, rec)
         /\ OP!Of("unsupported", rec) = Unread(call, rec)
         /\ OP!Of("numeric", rec) = FieldsOf(call, {"numeric"}, rec)
  BY DEF OP!ValidNumeric, OP!InvalidFields, OP!Shown, OP!Textual, OP!Of, OP!ValidIn, OP!Laid,
         Sound, Dirty, Text, Unread, FieldsOf, IsValid, DomainOf, BytesOf

LEMMA FileCallTypes ==
  ASSUME NEW c \in FileCalls
  PROVE  /\ c.recordLen \in Nat /\ c.data \in Seq((0..15) \X (0..15)) /\ Len(c.data) \in Nat
         /\ Len(c.prog.laid) \in Nat /\ Items(c) = 1..Len(c.prog.laid)
         /\ \A k \in Items(c) : c.prog.laid[k].offset \in Nat /\ c.prog.laid[k].size \in Nat
         /\ \A k \in Items(c) : DomainOf(c, k) \in OP!Attrs \cup {"none"}
         /\ Len(c.prog.conditions) \in Nat /\ DOMAIN c.prog.conditions = 1..Len(c.prog.conditions)
         /\ ~c.collides =>
              \A j, k \in Items(c) :
                c.prog.laid[j].name = c.prog.laid[k].name /\ DomainOf(c, k) # "none" => j = k
<1>. DEFINE L == [name : {l.name : l \in OP!ToSet(c.prog.laid)}, offset : Nat, size : Nat]
<1>1. /\ c.recordLen \in Nat /\ c.data \in Seq((0..15) \X (0..15))
      /\ c.prog.laid \in Seq(L)
      /\ c.prog.conditions \in Seq(OP!ToSet(c.prog.conditions))
      /\ \A n \in DOMAIN c.prog.attrs : c.prog.attrs[n] \in OP!Attrs
  BY FileCallsTyped DEF OP!CallsTyped
<1>2. ~c.collides =>
        \A j, k \in Items(c) :
          c.prog.laid[j].name = c.prog.laid[k].name /\ DomainOf(c, k) # "none" => j = k
  BY FileCallsTyped DEF OP!CallsTyped, Items, DomainOf
<1>3. \A k \in Items(c) : DomainOf(c, k) \in OP!Attrs \cup {"none"}
  BY <1>1 DEF DomainOf, OP!Attr
<1>4. \A k \in Items(c) : c.prog.laid[k].offset \in Nat /\ c.prog.laid[k].size \in Nat
  <2>1. \A k \in Items(c) : c.prog.laid[k] \in L
    <3>. HIDE DEF L
    <3>. QED BY <1>1 DEF Items
  <2>. QED BY <2>1
<1>. HIDE DEF L
<1>5. Len(c.prog.laid) \in Nat /\ Items(c) = 1..Len(c.prog.laid)
  BY <1>1 DEF Items
<1>6. Len(c.prog.conditions) \in Nat /\ DOMAIN c.prog.conditions = 1..Len(c.prog.conditions)
  BY <1>1
<1>7. Len(c.data) \in Nat
  BY <1>1
<1>. QED BY <1>1, <1>2, <1>3, <1>4, <1>5, <1>6, <1>7

LEMMA SameOP == \A S : OP!Cardinality(S) = Cardinality(S)
  BY DEF OP!Cardinality, Cardinality

(* Every item of a record is text, summed, dirty or unread.                *)
LEMMA FourWays ==
  ASSUME NEW c \in FileCalls, NEW rec
  PROVE  /\ Items(c) = Text(c, rec) \cup Sound(c, rec) \cup Dirty(c, rec) \cup Unread(c, rec)
         /\ Text(c, rec) \cap Sound(c, rec) = {}
         /\ (Text(c, rec) \cup Sound(c, rec)) \cap Dirty(c, rec) = {}
         /\ (Text(c, rec) \cup Sound(c, rec) \cup Dirty(c, rec)) \cap Unread(c, rec) = {}
         /\ FieldsOf(c, {"numeric"}, rec) \ Sound(c, rec) = Dirty(c, rec)
<1>. DEFINE kind(k) == OP!Category(c.prog, c.prog.laid[k], rec, c.encoding)
<1>1. \A cats : FieldsOf(c, cats, rec) = {k \in Items(c) : kind(k) \in cats}
  BY DEF FieldsOf, OP!FieldsIn, Items
<1>2. \A k \in Items(c) :
        /\ kind(k) \in {"group", "alphanumeric", "edited", "numeric", "unsupported"}
        /\ kind(k) = "alphanumeric" => IsValid(c, k, rec)
  <2>. SUFFICES ASSUME NEW k \in Items(c)
                PROVE  /\ kind(k) \in {"group", "alphanumeric", "edited", "numeric", "unsupported"}
                       /\ kind(k) = "alphanumeric" => IsValid(c, k, rec)
    OBVIOUS
  <2>1. DomainOf(c, k) \in OP!Attrs \cup {"none"}
    BY FileCallTypes
  <2>2. kind(k) = IF DomainOf(c, k) = "none" THEN "group"
                  ELSE IF \/ BytesOf(c, k, rec) = NoBytes
                          \/ DomainOf(c, k) = "edited"
                               /\ (c.encoding = "cp500" \/ OP!HasJunk(BytesOf(c, k, rec)))
                       THEN "unsupported"
                  ELSE IF DomainOf(c, k) \in OP!NumericDomains THEN "numeric" ELSE DomainOf(c, k)
    BY DEF OP!Category, DomainOf, BytesOf
  <2>. HIDE DEF kind
  <2>3. kind(k) \in {"group", "alphanumeric", "edited", "numeric", "unsupported"}
    BY <2>1, <2>2 DEF OP!Attrs, OP!NumericDomains
  <2>4. kind(k) = "alphanumeric" => DomainOf(c, k) = "alphanumeric" /\ BytesOf(c, k, rec) # NoBytes
    BY <2>1, <2>2 DEF OP!Attrs, OP!NumericDomains
  <2>5. DomainOf(c, k) = "alphanumeric" => OP!FieldValid(DomainOf(c, k), BytesOf(c, k, rec))
    BY DEF OP!FieldValid
  <2>. QED BY <2>3, <2>4, <2>5 DEF IsValid
<1>. HIDE DEF kind
<1>3. \A k \in Items(c) :
        /\ k \in Text(c, rec) <=> kind(k) \in {"group", "alphanumeric", "edited"}
        /\ k \in Sound(c, rec) <=> kind(k) = "numeric" /\ IsValid(c, k, rec)
        /\ k \in Dirty(c, rec) <=> kind(k) = "numeric" /\ ~IsValid(c, k, rec)
        /\ k \in Unread(c, rec) <=> kind(k) = "unsupported"
        /\ k \in FieldsOf(c, {"numeric"}, rec) <=> kind(k) = "numeric"
  BY <1>1, <1>2 DEF Text, Sound, Dirty, Unread
<1>4. /\ Text(c, rec) \subseteq Items(c) /\ Sound(c, rec) \subseteq Items(c)
      /\ Dirty(c, rec) \subseteq Items(c) /\ Unread(c, rec) \subseteq Items(c)
      /\ FieldsOf(c, {"numeric"}, rec) \subseteq Items(c)
  BY <1>1 DEF Text, Sound, Dirty, Unread
<1>. QED BY <1>2, <1>3, <1>4

LEMMA Interval == \A n \in Nat : IsFiniteSet(1..n) /\ Cardinality(1..n) = n
  BY FS_Interval

LEMMA Disjoint ==
  ASSUME NEW S, NEW T, IsFiniteSet(S), IsFiniteSet(T), S \cap T = {}
  PROVE  IsFiniteSet(S \cup T) /\ Cardinality(S \cup T) = Cardinality(S) + Cardinality(T)
<1>1. /\ IsFiniteSet(S \cup T)
      /\ Cardinality(S \cup T) = Cardinality(S) + Cardinality(T) - Cardinality(S \cap T)
  BY FS_Union
<1>2. Cardinality(S \cap T) = 0 /\ Cardinality(S) \in Nat /\ Cardinality(T) \in Nat
  BY FS_EmptySet, FS_CardinalityType
<1>. QED BY <1>1, <1>2

LEMMA FourCounts ==
  ASSUME NEW c \in FileCalls, NEW rec
  PROVE  /\ IsFiniteSet(Items(c))
         /\ IsFiniteSet(Text(c, rec)) /\ IsFiniteSet(Sound(c, rec))
         /\ IsFiniteSet(Dirty(c, rec)) /\ IsFiniteSet(Unread(c, rec))
         /\ Cardinality(Text(c, rec)) + Cardinality(Sound(c, rec))
              + Cardinality(Dirty(c, rec)) + Cardinality(Unread(c, rec)) = Len(c.prog.laid)
<1>. DEFINE T == Text(c, rec) S == Sound(c, rec) D == Dirty(c, rec) U == Unread(c, rec)
<1>1. /\ Items(c) = T \cup S \cup D \cup U
      /\ T \cap S = {} /\ (T \cup S) \cap D = {} /\ (T \cup S \cup D) \cap U = {}
  BY FourWays
<1>2. IsFiniteSet(Items(c)) /\ Cardinality(Items(c)) = Len(c.prog.laid)
  BY FileCallTypes, Interval
<1>. HIDE DEF T, S, D, U
<1>3. IsFiniteSet(T) /\ IsFiniteSet(S) /\ IsFiniteSet(D) /\ IsFiniteSet(U)
  BY <1>1, <1>2, FS_Subset, Zenon
<1>4. /\ IsFiniteSet(T \cup S)
      /\ Cardinality(T \cup S) = Cardinality(T) + Cardinality(S)
  BY <1>1, <1>3, Disjoint
<1>5. /\ IsFiniteSet(T \cup S \cup D)
      /\ Cardinality(T \cup S \cup D) = Cardinality(T \cup S) + Cardinality(D)
  BY <1>1, <1>3, <1>4, Disjoint
<1>6. Cardinality(T \cup S \cup D \cup U) = Cardinality(T \cup S \cup D) + Cardinality(U)
  BY <1>1, <1>3, <1>5, Disjoint
<1>7. /\ Cardinality(T) \in Nat /\ Cardinality(S) \in Nat
      /\ Cardinality(D) \in Nat /\ Cardinality(U) \in Nat
  BY <1>3, FS_CardinalityType
<1>8. Cardinality(T) + Cardinality(S) + Cardinality(D) + Cardinality(U) = Len(c.prog.laid)
  BY <1>1, <1>2, <1>4, <1>5, <1>6, <1>7
<1>. QED BY <1>2, <1>3, <1>8 DEF T, S, D, U

(* The cells of the first n rows, a set of columns given for each.         *)
CellsTo(sets, n, columns) == {cell \in (1..n) \X columns : cell[2] \in sets[cell[1]]}

LEMMA OneRowMore ==
  ASSUME NEW sets, NEW columns, IsFiniteSet(columns), NEW n \in Nat,
         sets[n + 1] \subseteq columns
  PROVE  /\ IsFiniteSet(CellsTo(sets, n, columns))
         /\ Cardinality(CellsTo(sets, n, columns)) \in Nat
         /\ Cardinality(CellsTo(sets, n + 1, columns))
              = Cardinality(CellsTo(sets, n, columns)) + Cardinality(sets[n + 1])
<1>. DEFINE before == CellsTo(sets, n, columns)
            row == {n + 1} \X sets[n + 1]
<1>1. IsFiniteSet(before)
  <2>1. IsFiniteSet(1..n)
    BY Interval
  <2>2. IsFiniteSet((1..n) \X columns)
    BY <2>1, FS_Product
  <2>3. before \subseteq (1..n) \X columns
    BY DEF CellsTo
  <2>. QED BY <2>2, <2>3, FS_Subset, Zenon
<1>2. IsFiniteSet(row) /\ Cardinality(row) = Cardinality(sets[n + 1])
  <2>1. IsFiniteSet(sets[n + 1])
    BY FS_Subset, Zenon
  <2>2. IsFiniteSet({n + 1}) /\ Cardinality({n + 1}) = 1
    BY FS_Singleton
  <2>3. IsFiniteSet(row) /\ Cardinality(row) = Cardinality({n + 1}) * Cardinality(sets[n + 1])
    BY <2>1, <2>2, FS_Product
  <2>4. Cardinality(sets[n + 1]) \in Nat
    BY <2>1, FS_CardinalityType
  <2>. QED BY <2>2, <2>3, <2>4
<1>3. CellsTo(sets, n + 1, columns) = before \cup row
  <2>1. 1..(n + 1) = (1..n) \cup {n + 1}
    OBVIOUS
  <2>2. CellsTo(sets, n + 1, columns)
          = {cell \in ((1..n) \cup {n + 1}) \X columns : cell[2] \in sets[cell[1]]}
    BY <2>1 DEF CellsTo
  <2>. QED BY <2>2 DEF CellsTo
<1>4. before \cap row = {}
  <2>1. n + 1 \notin 1..n
    OBVIOUS
  <2>. QED BY <2>1 DEF CellsTo
<1>. HIDE DEF before, row
<1>5. Cardinality(before) \in Nat
  BY <1>1, FS_CardinalityType
<1>. QED BY <1>1, <1>2, <1>3, <1>4, <1>5, Disjoint DEF before

(* The counts of the first n records.                                      *)
RecordsOf(c) == OP!Chunks(c.data, c.recordLen)
TextIn(c) == [i \in DOMAIN RecordsOf(c) |-> Text(c, RecordsOf(c)[i])]
SoundIn(c) == [i \in DOMAIN RecordsOf(c) |-> Sound(c, RecordsOf(c)[i])]
DirtyIn(c) == [i \in DOMAIN RecordsOf(c) |-> Dirty(c, RecordsOf(c)[i])]
UnreadIn(c) == [i \in DOMAIN RecordsOf(c) |-> Unread(c, RecordsOf(c)[i])]

CountedTo(c, n, dirty, unread) ==
  /\ dirty = Cardinality(CellsTo(DirtyIn(c), n, Items(c))) /\ dirty \in Nat
  /\ unread = Cardinality(CellsTo(UnreadIn(c), n, Items(c))) /\ unread \in Nat
  /\ Cardinality(CellsTo(TextIn(c), n, Items(c))) \in Nat
  /\ Cardinality(CellsTo(SoundIn(c), n, Items(c))) \in Nat
  /\ n * Len(c.prog.laid)
       = Cardinality(CellsTo(TextIn(c), n, Items(c)))
           + Cardinality(CellsTo(SoundIn(c), n, Items(c))) + dirty + unread

LEMMA NothingCounted ==
  ASSUME NEW c \in FileCalls
  PROVE  CountedTo(c, 0, 0, 0)
<1>1. \A sets : CellsTo(sets, 0, Items(c)) = {}
  BY DEF CellsTo
<1>2. Cardinality({}) = 0
  BY Counts
<1>3. \A len \in Nat : 0 * len = 0 + 0 + 0 + 0
  OBVIOUS
<1>4. Len(c.prog.laid) \in Nat
  BY FileCallTypes
<1>5. 0 \in Nat
  OBVIOUS
<1>. QED BY <1>1, <1>2, <1>3, <1>4, <1>5, Zenon DEF CountedTo

LEMMA OneCounted ==
  ASSUME NEW c \in FileCalls, NEW n \in Nat, n + 1 \in DOMAIN RecordsOf(c),
         NEW dirty, NEW unread, CountedTo(c, n, dirty, unread)
  PROVE  CountedTo(c, n + 1, dirty + Cardinality(Dirty(c, RecordsOf(c)[n + 1])),
                   unread + Cardinality(Unread(c, RecordsOf(c)[n + 1])))
<1>. DEFINE rec == RecordsOf(c)[n + 1]
            cols == Items(c)
            T0 == Cardinality(CellsTo(TextIn(c), n, cols)) T1 == Cardinality(CellsTo(TextIn(c), n + 1, cols))
            S0 == Cardinality(CellsTo(SoundIn(c), n, cols)) S1 == Cardinality(CellsTo(SoundIn(c), n + 1, cols))
            D0 == Cardinality(CellsTo(DirtyIn(c), n, cols)) D1 == Cardinality(CellsTo(DirtyIn(c), n + 1, cols))
            U0 == Cardinality(CellsTo(UnreadIn(c), n, cols)) U1 == Cardinality(CellsTo(UnreadIn(c), n + 1, cols))
            t == Cardinality(Text(c, rec))
            s == Cardinality(Sound(c, rec))
            d == Cardinality(Dirty(c, rec))
            u == Cardinality(Unread(c, rec))
<1>1. /\ TextIn(c)[n + 1] = Text(c, rec) /\ SoundIn(c)[n + 1] = Sound(c, rec)
      /\ DirtyIn(c)[n + 1] = Dirty(c, rec) /\ UnreadIn(c)[n + 1] = Unread(c, rec)
  BY DEF TextIn, SoundIn, DirtyIn, UnreadIn
<1>2. /\ Text(c, rec) \subseteq cols /\ Sound(c, rec) \subseteq cols
      /\ Dirty(c, rec) \subseteq cols /\ Unread(c, rec) \subseteq cols
  BY FourWays
<1>3. IsFiniteSet(cols)
  BY FourCounts
<1>4. t \in Nat /\ s \in Nat /\ d \in Nat /\ u \in Nat /\ t + s + d + u = Len(c.prog.laid)
  <2>. HIDE DEF rec
  <2>. QED BY FourCounts, FS_CardinalityType
<1>5. T1 = T0 + t
  BY <1>1, <1>2, <1>3, OneRowMore
<1>6. S1 = S0 + s
  BY <1>1, <1>2, <1>3, OneRowMore
<1>7. D1 = D0 + d
  BY <1>1, <1>2, <1>3, OneRowMore
<1>8. U1 = U0 + u
  BY <1>1, <1>2, <1>3, OneRowMore
<1>9. /\ dirty = D0 /\ unread = U0 /\ dirty \in Nat /\ unread \in Nat /\ T0 \in Nat /\ S0 \in Nat
  BY DEF CountedTo
<1>0. n * Len(c.prog.laid) = T0 + S0 + dirty + unread
  BY DEF CountedTo
<1>. HIDE DEF T0, S0, D0, U0, T1, S1, D1, U1, t, s, d, u
<1>10. Len(c.prog.laid) \in Nat
  BY FileCallTypes
<1>11. (n + 1) * Len(c.prog.laid) = n * Len(c.prog.laid) + Len(c.prog.laid)
  <2>1. \A len \in Nat : (n + 1) * len = n * len + len
    BY SMT
  <2>. QED BY <1>10, <2>1, Zenon
<1>12. /\ dirty + d = D1 /\ dirty + d \in Nat
       /\ unread + u = U1 /\ unread + u \in Nat
       /\ T1 \in Nat /\ S1 \in Nat
  BY <1>4, <1>5, <1>6, <1>7, <1>8, <1>9
<1>13. (n + 1) * Len(c.prog.laid) = T1 + S1 + (dirty + d) + (unread + u)
  <2>. DEFINE before == n * Len(c.prog.laid)
              after == (n + 1) * Len(c.prog.laid)
  <2>1. before = T0 + S0 + dirty + unread /\ after = before + t + s + d + u
    <3>1. before = T0 + S0 + dirty + unread
      BY <1>0
    <3>2. after = before + Len(c.prog.laid)
      BY <1>11
    <3>. HIDE DEF before, after
    <3>3. after = before + (t + s + d + u)
      BY <1>4, <3>2, Zenon
    <3>. QED BY <1>4, <1>9, <3>1, <3>3
  <2>. HIDE DEF before, after
  <2>2. after = T1 + S1 + (dirty + d) + (unread + u)
    BY <1>4, <1>5, <1>6, <1>9, <2>1
  <2>. QED BY <2>2 DEF after
<1>. QED BY <1>12, <1>13 DEF CountedTo, T1, S1, D1, U1, d, u

Byte == (0..15) \X (0..15)

LEMMA FewRecords ==
  ASSUME NEW c \in FileCalls, c.recordLen > 0
  PROVE  /\ Len(RecordsOf(c)) \in 0..Len(c.data) /\ DOMAIN RecordsOf(c) = 1..Len(RecordsOf(c))
         /\ \A i \in DOMAIN RecordsOf(c) : RecordsOf(c)[i] \in Seq(Byte)
<1>. DEFINE n == c.recordLen
            m == (Len(c.data) + n - 1) \div n
<1>1. n \in Nat /\ n > 0 /\ c.data \in Seq(Byte) /\ Len(c.data) \in Nat
  BY FileCallTypes DEF Byte
<1>2. m \in 0..Len(c.data)
  <2>1. \A a \in Nat, b \in Nat, q \in Nat : b > 0 /\ q * b <= a + b - 1 => q <= a
    <3>. SUFFICES ASSUME NEW a \in Nat, NEW b \in Nat, NEW q \in Nat, b > 0, q * b <= a + b - 1, q > a
                  PROVE  FALSE
      OBVIOUS
    <3>1. PICK d \in Nat : q = a + 1 + d
      <4>1. q - a - 1 \in Nat
        OBVIOUS
      <4>. QED BY <4>1
    <3>2. PICK e \in Nat : b = 1 + e
      <4>1. b - 1 \in Nat
        OBVIOUS
      <4>. QED BY <4>1
    <3>3. q * b = a + 1 + d + a * e + e + d * e
      BY <3>1, <3>2, SMT
    <3>4. a * e \in Nat /\ d * e \in Nat
      BY SMT
    <3>. QED BY <3>2, <3>3, <3>4
  <2>2. \A a \in Nat, b \in Nat : b > 0 => a \div b \in Nat /\ (a \div b) * b <= a
    BY SMT
  <2>3. Len(c.data) + n - 1 \in Nat
    BY <1>1
  <2>4. m \in Nat /\ m * n <= Len(c.data) + n - 1
    BY <1>1, <2>2, <2>3
  <2>. HIDE DEF m, n
  <2>5. m <= Len(c.data)
    BY <1>1, <2>1, <2>4, Zenon
  <2>. QED BY <1>1, <2>4, <2>5
<1>3. RecordsOf(c) = [k \in 1..m |-> SubSeq(c.data, (k - 1) * n + 1,
                                            IF k * n < Len(c.data) THEN k * n ELSE Len(c.data))]
  BY DEF RecordsOf, OP!Chunks
<1>. HIDE DEF m
<1>4. Len(RecordsOf(c)) = m /\ DOMAIN RecordsOf(c) = 1..m
  BY <1>2, <1>3
<1>5. ASSUME NEW k \in 1..m PROVE RecordsOf(c)[k] \in Seq(Byte)
  <2>. DEFINE lo == (k - 1) * n + 1
              hi == IF k * n < Len(c.data) THEN k * n ELSE Len(c.data)
  <2>1. RecordsOf(c)[k] = SubSeq(c.data, lo, hi)
    BY <1>3
  <2>2. lo \in Nat \ {0} /\ hi \in Nat /\ hi <= Len(c.data)
    <3>1. k \in Nat /\ k - 1 \in Nat
      BY <1>2
    <3>2. (k - 1) * n \in Nat /\ k * n \in Nat
      BY <1>1, <3>1, SMT
    <3>. QED BY <1>1, <3>2
  <2>. HIDE DEF lo, hi, n
  <2>3. SubSeq(c.data, lo, hi) = [i \in 1..(hi - lo + 1) |-> c.data[lo + i - 1]]
    BY <1>1, <2>2
  <2>4. \A i \in 1..(hi - lo + 1) : c.data[lo + i - 1] \in Byte
    BY <1>1, <2>2
  <2>. HIDE DEF Byte
  <2>5. SubSeq(c.data, lo, hi) \in Seq(Byte)
    <3>1. CASE hi - lo + 1 \in Nat
      BY <2>3, <2>4, <3>1
    <3>2. CASE hi - lo + 1 \notin Nat
      <4>1. 1..(hi - lo + 1) = 1..0
        BY <2>2, <3>2
      <4>2. SubSeq(c.data, lo, hi) = [i \in 1..0 |-> c.data[lo + i - 1]]
        BY <2>3, <4>1
      <4>. QED BY <4>2
    <3>. QED BY <3>1, <3>2
  <2>. QED BY <2>1, <2>5
<1>. QED BY <1>2, <1>4, <1>5

LEMMA BytesRead ==
  ASSUME NEW c \in FileCalls, NEW k \in Items(c), NEW rec \in Seq(Byte), BytesOf(c, k, rec) # NoBytes
  PROVE  BytesOf(c, k, rec) \in Seq(Byte)
<1>. DEFINE l == c.prog.laid[k]
            lo == l.offset
            size == l.size
<1>1. lo \in Nat /\ size \in Nat
  BY FileCallTypes
<1>2. lo + size <= Len(rec) /\ BytesOf(c, k, rec) = SubSeq(rec, lo + 1, lo + size)
  BY DEF BytesOf, OP!Slice
<1>. HIDE DEF l, lo, size
<1>3. SubSeq(rec, lo + 1, lo + size) = [i \in 1..size |-> rec[lo + i]]
  BY <1>1, <1>2
<1>4. \A i \in 1..size : rec[lo + i] \in Byte
  BY <1>1, <1>2
<1>. HIDE DEF Byte
<1>. QED BY <1>1, <1>2, <1>3, <1>4

(* What a valid field holds is a number, however many digits it has.       *)
Magnitude(ds, n, k) ==
  IF k = 0 THEN 0 ELSE IF OP!Digit(ds[k]) THEN 10 * n[k - 1] + ds[k] ELSE n[k - 1]
Amounts(ds, n, m) == n \in [0..m -> Nat] /\ \A k \in 0..m : n[k] = Magnitude(ds, n, k)

LEMMA OneNibbleMore ==
  ASSUME NEW ds, NEW m \in Nat \ {0}, ds[m] \in Nat, NEW n, Amounts(ds, n, m - 1)
  PROVE  \E more : Amounts(ds, more, m)
<1>. DEFINE last == IF OP!Digit(ds[m]) THEN 10 * n[m - 1] + ds[m] ELSE n[m - 1]
            more == [k \in 0..m |-> IF k = m THEN last ELSE n[k]]
<1>1. /\ n \in [0..(m - 1) -> Nat] /\ n[m - 1] \in Nat
      /\ \A k \in 0..(m - 1) : n[k] = Magnitude(ds, n, k)
  BY DEF Amounts
<1>2. last \in Nat
  BY <1>1
<1>. HIDE DEF last
<1>3. more \in [0..m -> Nat]
  BY <1>1, <1>2
<1>4. more[m] = last /\ \A k \in 0..(m - 1) : more[k] = n[k]
  OBVIOUS
<1>. HIDE DEF more
<1>5. more[m] = Magnitude(ds, more, m)
  BY <1>4 DEF Magnitude, last
<1>6. ASSUME NEW k \in 0..(m - 1) PROVE more[k] = Magnitude(ds, more, k)
  <2>1. k # 0 => k - 1 \in 0..(m - 1)
    OBVIOUS
  <2>. QED BY <1>1, <1>4, <2>1 DEF Magnitude
<1>7. \A k \in 0..m : more[k] = Magnitude(ds, more, k)
  BY <1>5, <1>6
<1>. QED BY <1>3, <1>7 DEF Amounts

LEMMA MagnitudeIsNat ==
  ASSUME NEW ds, Len(ds) \in Nat, \A k \in 1..Len(ds) : ds[k] \in Nat,
         NEW n, n = CHOOSE f : f = [k \in 0..Len(ds) |-> Magnitude(ds, f, k)]
  PROVE  n[Len(ds)] \in Nat
<1>. DEFINE unread == {m \in 0..Len(ds) : ~\E f : Amounts(ds, f, m)}
<1>1. unread = {}
  <2>. SUFFICES ASSUME unread # {} PROVE FALSE
    OBVIOUS
  <2>1. PICK m \in unread : \A j \in unread : m <= j
    <3>1. unread \subseteq Nat
      OBVIOUS
    <3>. HIDE DEF unread
    <3>. QED BY <3>1, LeastIn
  <2>2. m # 0
    <3>1. Amounts(ds, [k \in 0..0 |-> 0], 0)
      BY DEF Amounts, Magnitude
    <3>. QED BY <2>1, <3>1
  <2>3. m \in 1..Len(ds) /\ m \in Nat \ {0} /\ m - 1 \in 0..Len(ds)
    BY <2>1, <2>2
  <2>4. m - 1 \notin unread
    <3>. HIDE DEF unread
    <3>. QED BY <2>1, <2>3
  <2>. QED BY <2>1, <2>3, <2>4, OneNibbleMore
<1>2. n = [k \in 0..Len(ds) |-> Magnitude(ds, n, k)]
  <2>1. PICK f : Amounts(ds, f, Len(ds))
    BY <1>1
  <2>2. f = [k \in 0..Len(ds) |-> Magnitude(ds, f, k)]
    BY <2>1 DEF Amounts
  <2>. QED BY <2>2
<1>. DEFINE wrong == {k \in 0..Len(ds) : n[k] \notin Nat}
<1>3. wrong = {}
  <2>. SUFFICES ASSUME wrong # {} PROVE FALSE
    OBVIOUS
  <2>1. PICK k \in wrong : \A j \in wrong : k <= j
    <3>1. wrong \subseteq Nat
      OBVIOUS
    <3>. HIDE DEF wrong
    <3>. QED BY <3>1, LeastIn
  <2>2. n[k] = Magnitude(ds, n, k)
    BY <1>2, <2>1
  <2>3. k = 0 => n[k] = 0
    BY <2>2 DEF Magnitude
  <2>4. ASSUME k # 0 PROVE n[k] \in Nat
    <3>1. k \in 1..Len(ds) /\ k - 1 \in 0..Len(ds)
      BY <2>1, <2>4
    <3>2. k - 1 \notin wrong
      <4>. HIDE DEF wrong
      <4>. QED BY <2>1, <3>1
    <3>3. n[k - 1] \in Nat /\ ds[k] \in Nat
      BY <3>1, <3>2
    <3>. QED BY <2>2, <2>4, <3>3 DEF Magnitude
  <2>. QED BY <2>1, <2>3, <2>4
<1>. QED BY <1>3

LEMMA ValueIsInt ==
  ASSUME NEW attr, NEW bytes \in Seq(Byte)
  PROVE  OP!Value(attr, bytes) \in Int
<1>. DEFINE pairs == [k \in 1..2 * Len(bytes) |-> bytes[(k + 1) \div 2][2 - (k % 2)]]
            lows == [k \in DOMAIN bytes |-> IF OP!Digit(bytes[k][2]) THEN bytes[k][2] ELSE 0]
            nibbles == IF attr \in {"packed", "comp6"} THEN pairs ELSE lows
            number == CHOOSE f : f = [k \in 0..Len(nibbles) |-> Magnitude(nibbles, f, k)]
<1>1. \A k \in 1..Len(bytes) : bytes[k][1] \in Nat /\ bytes[k][2] \in Nat
  BY DEF Byte
<1>2. Len(pairs) \in Nat /\ \A k \in 1..Len(pairs) : pairs[k] \in Nat
  <2>1. Len(pairs) = 2 * Len(bytes) /\ 2 * Len(bytes) \in Nat
    OBVIOUS
  <2>2. ASSUME NEW k \in 1..2 * Len(bytes) PROVE pairs[k] \in Nat
    <3>1. (k + 1) \div 2 \in 1..Len(bytes) /\ 2 - (k % 2) \in {1, 2}
      OBVIOUS
    <3>2. pairs[k] = bytes[(k + 1) \div 2][2 - (k % 2)]
      OBVIOUS
    <3>. HIDE DEF pairs
    <3>. QED BY <1>1, <3>1, <3>2
  <2>. QED BY <2>1, <2>2
<1>3. Len(lows) \in Nat /\ \A k \in 1..Len(lows) : lows[k] \in Nat
  BY <1>1
<1>4. OP!Value(attr, bytes) = number[Len(nibbles)] \/ OP!Value(attr, bytes) = -number[Len(nibbles)]
  BY DEF OP!Value, Magnitude
<1>. HIDE DEF pairs, lows
<1>5. Len(nibbles) \in Nat /\ \A k \in 1..Len(nibbles) : nibbles[k] \in Nat
  BY <1>2, <1>3
<1>. HIDE DEF nibbles
<1>6. number[Len(nibbles)] \in Nat
  BY <1>5, MagnitudeIsNat
<1>. QED BY <1>4, <1>6

(* The item of a name, the only one unless the check found a collision.    *)
ItemNamed(c, n) == OP!Min({k \in Items(c) : c.prog.laid[k].name = n})
NumericIn(c) ==
  {n \in {c.prog.laid[k].name : k \in Items(c)} : OP!Attr(c.prog, n) \in OP!NumericDomains}
ValueIn(c, n, rec) == OP!Value(OP!Attr(c.prog, n), BytesOf(c, ItemNamed(c, n), rec))

LEMMA OneOfName ==
  ASSUME NEW c \in FileCalls, ~c.collides, NEW k \in Items(c), DomainOf(c, k) # "none"
  PROVE  /\ {j \in Items(c) : c.prog.laid[j].name = c.prog.laid[k].name} = {k}
         /\ ItemNamed(c, c.prog.laid[k].name) = k
<1>1. {j \in Items(c) : c.prog.laid[j].name = c.prog.laid[k].name} = {k}
  BY FileCallTypes
<1>2. k \in Nat
  BY FileCallTypes
<1>3. OP!Min({k}) = k
  BY <1>2 DEF OP!Min
<1>. QED BY <1>1, <1>3 DEF ItemNamed

LEMMA SummedNames ==
  ASSUME NEW c \in FileCalls, ~c.collides, NEW rec
  PROVE  /\ {c.prog.laid[k].name : k \in Sound(c, rec)}
              = {n \in NumericIn(c) : IsValid(c, ItemNamed(c, n), rec)}
         /\ \A k \in Sound(c, rec) : ItemNamed(c, c.prog.laid[k].name) = k
         /\ \A n \in NumericIn(c) :
              /\ ItemNamed(c, n) \in Items(c) /\ c.prog.laid[ItemNamed(c, n)].name = n
              /\ DomainOf(c, ItemNamed(c, n)) = OP!Attr(c.prog, n)
              /\ {j \in Items(c) : c.prog.laid[j].name = n} = {ItemNamed(c, n)}
<1>. DEFINE kind(k) == OP!Category(c.prog, c.prog.laid[k], rec, c.encoding)
<1>1. ASSUME NEW k \in Items(c)
      PROVE  k \in Sound(c, rec) <=> DomainOf(c, k) \in OP!NumericDomains /\ IsValid(c, k, rec)
  <2>1. DomainOf(c, k) \in OP!Attrs \cup {"none"}
    BY FileCallTypes
  <2>2. kind(k) = IF DomainOf(c, k) = "none" THEN "group"
                  ELSE IF \/ BytesOf(c, k, rec) = NoBytes
                          \/ DomainOf(c, k) = "edited"
                               /\ (c.encoding = "cp500" \/ OP!HasJunk(BytesOf(c, k, rec)))
                       THEN "unsupported"
                  ELSE IF DomainOf(c, k) \in OP!NumericDomains THEN "numeric" ELSE DomainOf(c, k)
    BY DEF OP!Category, DomainOf, BytesOf
  <2>3. k \in Sound(c, rec) <=> kind(k) = "numeric" /\ IsValid(c, k, rec)
    BY DEF Sound, FieldsOf, OP!FieldsIn, Items
  <2>. HIDE DEF kind
  <2>4. IsValid(c, k, rec) => BytesOf(c, k, rec) # NoBytes
    BY DEF IsValid
  <2>. QED BY <2>1, <2>2, <2>3, <2>4 DEF OP!Attrs, OP!NumericDomains
<1>2. ASSUME NEW k \in Items(c), DomainOf(c, k) \in OP!NumericDomains
      PROVE  /\ {j \in Items(c) : c.prog.laid[j].name = c.prog.laid[k].name} = {k}
             /\ ItemNamed(c, c.prog.laid[k].name) = k
  <2>1. DomainOf(c, k) # "none"
    BY <1>2 DEF OP!NumericDomains
  <2>. QED BY <2>1, OneOfName
<1>3. Sound(c, rec) \subseteq Items(c)
  BY FourWays
<1>4. ASSUME NEW n \in NumericIn(c)
      PROVE  /\ ItemNamed(c, n) \in Items(c) /\ c.prog.laid[ItemNamed(c, n)].name = n
             /\ DomainOf(c, ItemNamed(c, n)) = OP!Attr(c.prog, n)
             /\ {j \in Items(c) : c.prog.laid[j].name = n} = {ItemNamed(c, n)}
             /\ OP!Attr(c.prog, n) \in OP!NumericDomains
  <2>1. PICK k \in Items(c) : c.prog.laid[k].name = n
    BY DEF NumericIn
  <2>2. DomainOf(c, k) = OP!Attr(c.prog, n) /\ OP!Attr(c.prog, n) \in OP!NumericDomains
    BY <2>1 DEF NumericIn, DomainOf
  <2>. QED BY <1>2, <2>1, <2>2
<1>5. \A k \in Sound(c, rec) : ItemNamed(c, c.prog.laid[k].name) = k
  BY <1>1, <1>2, <1>3
<1>6. ASSUME NEW k \in Sound(c, rec)
      PROVE  c.prog.laid[k].name \in {n \in NumericIn(c) : IsValid(c, ItemNamed(c, n), rec)}
  <2>1. k \in Items(c) /\ DomainOf(c, k) \in OP!NumericDomains /\ IsValid(c, k, rec)
    BY <1>1, <1>3
  <2>2. c.prog.laid[k].name \in NumericIn(c)
    BY <2>1 DEF NumericIn, DomainOf
  <2>. QED BY <1>5, <2>1, <2>2
<1>7. ASSUME NEW n \in NumericIn(c), IsValid(c, ItemNamed(c, n), rec)
      PROVE  \E k \in Sound(c, rec) : c.prog.laid[k].name = n
  BY <1>1, <1>4, <1>7
<1>8. {c.prog.laid[k].name : k \in Sound(c, rec)}
        = {n \in NumericIn(c) : IsValid(c, ItemNamed(c, n), rec)}
  BY <1>6, <1>7
<1>. QED BY <1>4, <1>5, <1>8

(* What a saturating sum can hold. *)
MachineRange == (-SumLimit - 1)..SumLimit

(* The sums after one more record.                                         *)
LEMMA SumsAdded ==
  ASSUME call \in FileCalls, ~call.collides, NEW acc, NEW rec
  PROVE  LET valid == {n \in NumericIn(call) : IsValid(call, ItemNamed(call, n), rec)}
             more == OP!AddFields(acc, rec)
         IN  /\ DOMAIN more = DOMAIN acc \cup valid
             /\ \A n \in DOMAIN more :
                  more[n] = IF n \in valid
                            THEN OP!Clamp((IF n \in DOMAIN acc THEN acc[n] ELSE 0)
                                            + ValueIn(call, n, rec))
                            ELSE acc[n]
<1>. DEFINE valid == {n \in NumericIn(call) : IsValid(call, ItemNamed(call, n), rec)}
            chosen(n) == CHOOSE k \in Sound(call, rec) : call.prog.laid[k].name = n
            new == [n \in {call.prog.laid[k].name : k \in Sound(call, rec)} |->
                      OP!Value(OP!Attr(call.prog, n), BytesOf(call, chosen(n), rec))]
            more == OP!AddFields(acc, rec)
<1>1. OP!Summed(rec) = Sound(call, rec)
  BY OperatorSets DEF OP!Summed
<1>2. more = [n \in DOMAIN acc \cup DOMAIN new |->
                IF n \in DOMAIN new
                THEN OP!Clamp((IF n \in DOMAIN acc THEN acc[n] ELSE 0) + new[n])
                ELSE acc[n]]
  BY <1>1 DEF OP!AddFields, OP!Laid, BytesOf
<1>3. DOMAIN new = valid
  BY SummedNames
<1>4. ASSUME NEW n \in valid PROVE new[n] = ValueIn(call, n, rec)
  <2>1. \E k \in Sound(call, rec) : call.prog.laid[k].name = n
    BY SummedNames
  <2>2. chosen(n) \in Sound(call, rec) /\ call.prog.laid[chosen(n)].name = n
    BY <2>1
  <2>. HIDE DEF chosen
  <2>3. chosen(n) = ItemNamed(call, n)
    BY <2>2, SummedNames
  <2>4. new[n] = OP!Value(OP!Attr(call.prog, n), BytesOf(call, chosen(n), rec))
    BY <1>3, <1>4
  <2>. QED BY <2>3, <2>4 DEF ValueIn
<1>. HIDE DEF new, valid
<1>. QED BY <1>2, <1>3, <1>4 DEF valid

(* The exact sum of the valid values of a name, after each record.         *)
Adding(c, n, s, k) ==
  IF k = 0 THEN 0
  ELSE IF IsValid(c, ItemNamed(c, n), RecordsOf(c)[k])
       THEN s[k - 1] + ValueIn(c, n, RecordsOf(c)[k])
  ELSE s[k - 1]
Adds(c, n, s, m) == s = [k \in 0..m |-> Adding(c, n, s, k)]
SumIn(c, n) == CHOOSE s : Adds(c, n, s, Len(RecordsOf(c)))

LEMMA OneAddedMore ==
  ASSUME NEW c, NEW n, NEW s, NEW m \in Nat \ {0}, Adds(c, n, s, m - 1)
  PROVE  \E t : Adds(c, n, t, m)
<1>. DEFINE last == IF IsValid(c, ItemNamed(c, n), RecordsOf(c)[m])
                    THEN s[m - 1] + ValueIn(c, n, RecordsOf(c)[m]) ELSE s[m - 1]
            more == [k \in 0..m |-> IF k = m THEN last ELSE s[k]]
<1>1. /\ \A k \in 0..m : more[k] = IF k = m THEN last ELSE s[k]
      /\ DOMAIN more = 0..m /\ more = [k \in 0..m |-> more[k]]
  OBVIOUS
<1>. HIDE DEF more
<1>2. more[m] = Adding(c, n, more, m)
  BY <1>1 DEF Adding
<1>3. ASSUME NEW k \in 0..(m - 1) PROVE more[k] = Adding(c, n, more, k)
  <2>1. s[k] = Adding(c, n, s, k)
    BY DEF Adds
  <2>2. more[k] = s[k] /\ k \in 0..m
    BY <1>1
  <2>3. k # 0 => k - 1 \in 0..m /\ more[k - 1] = s[k - 1]
    BY <1>1
  <2>. QED BY <2>1, <2>2, <2>3 DEF Adding
<1>4. \A k \in 0..m : more[k] = Adding(c, n, more, k)
  BY <1>2, <1>3
<1>. QED BY <1>1, <1>4 DEF Adds

LEMMA SumIs ==
  ASSUME NEW c, NEW n, Len(RecordsOf(c)) \in Nat
  PROVE  Adds(c, n, SumIn(c, n), Len(RecordsOf(c)))
<1>. DEFINE len == Len(RecordsOf(c))
            open == {m \in 0..len : ~\E s : Adds(c, n, s, m)}
<1>1. open = {}
  <2>. SUFFICES ASSUME open # {} PROVE FALSE
    OBVIOUS
  <2>1. PICK m \in open : \A j \in open : m <= j
    <3>1. open \subseteq Nat
      OBVIOUS
    <3>. HIDE DEF open
    <3>. QED BY <3>1, LeastIn
  <2>2. m # 0
    <3>1. Adds(c, n, [k \in 0..0 |-> 0], 0)
      BY DEF Adds, Adding
    <3>. QED BY <2>1, <3>1
  <2>3. m \in Nat \ {0} /\ m - 1 \in 0..len
    BY <2>1, <2>2
  <2>4. m - 1 \notin open
    <3>. HIDE DEF open
    <3>. QED BY <2>1, <2>3
  <2>. QED BY <2>1, <2>3, <2>4, OneAddedMore
<1>2. \E s : Adds(c, n, s, len)
  BY <1>1
<1>. QED BY <1>2 DEF SumIn

LEMMA ClampIn ==
  ASSUME NEW n \in Int
  PROVE  OP!Clamp(n) \in MachineRange /\ (n \in MachineRange => OP!Clamp(n) = n)
<1>1. SumLimit \in Nat
  BY FileCallsTyped DEF OP!CallsTyped
<1>. QED BY <1>1 DEF OP!Clamp, MachineRange

ValidTo(c, n, m) == \E i \in 1..m : IsValid(c, ItemNamed(c, n), RecordsOf(c)[i])

SumsTo(c, m, acc) ==
  /\ DOMAIN acc = {n \in NumericIn(c) : ValidTo(c, n, m)}
  /\ \A n \in DOMAIN acc : acc[n] \in MachineRange
  /\ \A n \in NumericIn(c) :
       (\A i \in 1..m : SumIn(c, n)[i] \in MachineRange)
       => SumIn(c, n)[m] = IF n \in DOMAIN acc THEN acc[n] ELSE 0

LEMMA NothingSummed ==
  ASSUME NEW c \in FileCalls, c.recordLen > 0
  PROVE  SumsTo(c, 0, <<>>)
<1>1. DOMAIN <<>> = {} /\ 1..0 = {} /\ 0 \in 0..Len(RecordsOf(c)) /\ Len(RecordsOf(c)) \in Nat
  BY FewRecords
<1>2. ASSUME NEW n PROVE SumIn(c, n)[0] = 0
  <2>1. Adds(c, n, SumIn(c, n), Len(RecordsOf(c)))
    BY <1>1, SumIs
  <2>. QED BY <1>1, <2>1 DEF Adds, Adding
<1>3. \A n : ~ValidTo(c, n, 0)
  BY DEF ValidTo
<1>. QED BY <1>1, <1>2, <1>3 DEF SumsTo

LEMMA OneSummed ==
  ASSUME call \in FileCalls, ~call.collides, call.recordLen > 0,
         NEW m \in Nat, m + 1 \in DOMAIN RecordsOf(call), NEW acc, SumsTo(call, m, acc)
  PROVE  SumsTo(call, m + 1, OP!AddFields(acc, RecordsOf(call)[m + 1]))
<1>. DEFINE rec == RecordsOf(call)[m + 1]
            more == OP!AddFields(acc, rec)
            valid == {n \in NumericIn(call) : IsValid(call, ItemNamed(call, n), rec)}
<1>1. /\ DOMAIN more = DOMAIN acc \cup valid
      /\ \A n \in DOMAIN more :
           more[n] = IF n \in valid
                     THEN OP!Clamp((IF n \in DOMAIN acc THEN acc[n] ELSE 0) + ValueIn(call, n, rec))
                     ELSE acc[n]
  BY SumsAdded
<1>2. /\ DOMAIN acc = {n \in NumericIn(call) : ValidTo(call, n, m)}
      /\ \A n \in DOMAIN acc : acc[n] \in MachineRange
      /\ \A n \in NumericIn(call) :
           (\A i \in 1..m : SumIn(call, n)[i] \in MachineRange)
           => SumIn(call, n)[m] = IF n \in DOMAIN acc THEN acc[n] ELSE 0
  BY DEF SumsTo
<1>. HIDE DEF more
<1>3. \A n : ValidTo(call, n, m + 1) <=> ValidTo(call, n, m) \/ IsValid(call, ItemNamed(call, n), rec)
  <2>1. 1..(m + 1) = (1..m) \cup {m + 1}
    OBVIOUS
  <2>. QED BY <2>1 DEF ValidTo
<1>4. DOMAIN more = {n \in NumericIn(call) : ValidTo(call, n, m + 1)}
  BY <1>1, <1>2, <1>3
<1>5. ASSUME NEW n \in valid PROVE ValueIn(call, n, rec) \in Int
  <2>1. /\ rec \in Seq(Byte) /\ n \in NumericIn(call)
        /\ BytesOf(call, ItemNamed(call, n), rec) # NoBytes
    BY FewRecords DEF IsValid
  <2>2. ItemNamed(call, n) \in Items(call)
    BY <2>1, SummedNames
  <2>. HIDE DEF rec
  <2>3. BytesOf(call, ItemNamed(call, n), rec) \in Seq(Byte)
    BY <2>1, <2>2, BytesRead
  <2>. QED BY <2>3, ValueIsInt DEF ValueIn
<1>6. MachineRange \subseteq Int /\ 0 \in MachineRange
  <2>1. SumLimit \in Nat
    BY FileCallsTyped DEF OP!CallsTyped
  <2>. QED BY <2>1 DEF MachineRange
<1>7. \A n \in DOMAIN acc : acc[n] \in Int
  BY <1>2, <1>6
<1>8. ASSUME NEW n \in valid
      PROVE  (IF n \in DOMAIN acc THEN acc[n] ELSE 0) + ValueIn(call, n, rec) \in Int
  BY <1>5, <1>7
<1>9. ASSUME NEW n \in DOMAIN more PROVE more[n] \in MachineRange
  <2>1. CASE n \in valid
    BY <1>1, <1>8, <2>1, ClampIn, Zenon
  <2>2. CASE n \notin valid
    BY <1>1, <1>2, <2>2
  <2>. QED BY <2>1, <2>2
<1>10. ASSUME NEW n \in NumericIn(call), \A i \in 1..(m + 1) : SumIn(call, n)[i] \in MachineRange
       PROVE  SumIn(call, n)[m + 1] = IF n \in DOMAIN more THEN more[n] ELSE 0
  <2>. DEFINE s == SumIn(call, n)
              so == IF n \in DOMAIN acc THEN acc[n] ELSE 0
  <2>1. Len(RecordsOf(call)) \in Nat /\ m + 1 \in 1..Len(RecordsOf(call))
    BY FewRecords
  <2>2. s[m + 1] = Adding(call, n, s, m + 1)
    <3>1. Adds(call, n, s, Len(RecordsOf(call)))
      BY <2>1, SumIs
    <3>. HIDE DEF s
    <3>. QED BY <2>1, <3>1 DEF Adds
  <2>3. s[m] = so
    BY <1>2, <1>10
  <2>4. s[m + 1] \in MachineRange
    BY <1>10
  <2>. HIDE DEF s
  <2>5. s[m + 1] = IF n \in valid THEN s[m] + ValueIn(call, n, rec) ELSE s[m]
    <3>1. m + 1 # 0 /\ (m + 1) - 1 = m
      OBVIOUS
    <3>. QED BY <1>10, <2>2, <3>1, Zenon DEF Adding
  <2>6. CASE n \in valid
    <3>1. so + ValueIn(call, n, rec) \in Int
      BY <1>8, <2>6
    <3>2. s[m + 1] = so + ValueIn(call, n, rec)
      BY <2>3, <2>5, <2>6
    <3>3. n \in DOMAIN more /\ more[n] = OP!Clamp(so + ValueIn(call, n, rec))
      BY <1>1, <2>6
    <3>. HIDE DEF so
    <3>4. OP!Clamp(so + ValueIn(call, n, rec)) = so + ValueIn(call, n, rec)
      BY <2>4, <3>1, <3>2, ClampIn, Zenon
    <3>. QED BY <3>2, <3>3, <3>4 DEF s
  <2>7. CASE n \notin valid
    <3>1. n \in DOMAIN more <=> n \in DOMAIN acc
      BY <1>1, <2>7
    <3>2. n \in DOMAIN more => more[n] = acc[n]
      BY <1>1, <2>7
    <3>. QED BY <2>3, <2>5, <2>7, <3>1, <3>2 DEF s
  <2>. QED BY <2>6, <2>7
<1>. QED BY <1>4, <1>9, <1>10 DEF SumsTo, more

(* What is explained is valid when the same item is shown as valid.        *)
LEMMA ShownIsValid ==
  ASSUME NEW c \in FileCalls, ~c.collides, NEW k \in Items(c), NEW rec
  PROVE  IsValid(c, k, rec) <=>
           \E j \in FieldsOf(c, {"numeric", "alphanumeric"}, rec) \ Dirty(c, rec) :
             c.prog.laid[j].name = c.prog.laid[k].name
<1>. DEFINE shown == FieldsOf(c, {"numeric", "alphanumeric"}, rec)
            kind(j) == OP!Category(c.prog, c.prog.laid[j], rec, c.encoding)
<1>1. ASSUME NEW j \in Items(c)
      PROVE  /\ j \in shown <=> kind(j) \in {"numeric", "alphanumeric"}
             /\ j \in shown => DomainOf(c, j) # "none"
             /\ IsValid(c, j, rec) => j \in shown
  <2>1. DomainOf(c, j) \in OP!Attrs \cup {"none"}
    BY FileCallTypes
  <2>2. kind(j) = IF DomainOf(c, j) = "none" THEN "group"
                  ELSE IF \/ BytesOf(c, j, rec) = NoBytes
                          \/ DomainOf(c, j) = "edited"
                               /\ (c.encoding = "cp500" \/ OP!HasJunk(BytesOf(c, j, rec)))
                       THEN "unsupported"
                  ELSE IF DomainOf(c, j) \in OP!NumericDomains THEN "numeric" ELSE DomainOf(c, j)
    BY DEF OP!Category, DomainOf, BytesOf
  <2>3. j \in shown <=> kind(j) \in {"numeric", "alphanumeric"}
    BY DEF FieldsOf, OP!FieldsIn, Items
  <2>4. IsValid(c, j, rec) =>
          /\ BytesOf(c, j, rec) # NoBytes
          /\ DomainOf(c, j) \in OP!NumericDomains \cup {"alphanumeric"}
    BY DEF IsValid, OP!FieldValid, OP!NumericDomains
  <2>. HIDE DEF kind, shown
  <2>. QED BY <2>1, <2>2, <2>3, <2>4 DEF OP!Attrs, OP!NumericDomains
<1>2. shown \subseteq Items(c) /\ Dirty(c, rec) = {j \in shown : ~IsValid(c, j, rec)}
  BY DEF FieldsOf, OP!FieldsIn, Items, Dirty
<1>. HIDE DEF shown
<1>3. ASSUME IsValid(c, k, rec)
      PROVE  \E j \in shown \ Dirty(c, rec) : c.prog.laid[j].name = c.prog.laid[k].name
  BY <1>1, <1>2, <1>3
<1>4. ASSUME NEW j \in shown \ Dirty(c, rec), c.prog.laid[j].name = c.prog.laid[k].name
      PROVE  IsValid(c, k, rec)
  <2>1. j \in Items(c) /\ IsValid(c, j, rec) /\ DomainOf(c, j) # "none"
    BY <1>1, <1>2
  <2>2. k = j
    BY <1>4, <2>1, FileCallTypes
  <2>. QED BY <2>1, <2>2
<1>. QED BY <1>3, <1>4 DEF shown

Explained(c, said) ==
  \E k \in Items(c) :
    said.field = c.prog.laid[k].name /\ said.valid = IsValid(c, k, c.data)

FileTypes ==
  /\ call \in FileCalls
  /\ pc \in {"start", "reading", "done", "error"}
  /\ pc \in {"reading", "done"} => ~call.collides /\ (call.op # "explain" => call.recordLen > 0)
  /\ idx \in Nat
  /\ pc = "start" \/ call.op = "explain" => idx = 0
  /\ idx # 0 => call.recordLen > 0 /\ idx <= Len(RecordsOf(call))
  /\ \A n \in DOMAIN sums : sums[n] \in MachineRange
  /\ invalid \in Nat /\ unsupported \in Nat
  /\ \A n \in DOMAIN condTrue : condTrue[n] \in Nat
  /\ objects \in Seq(ToSet(objects))
  /\ Len(objects) = IF call.op = "decode" THEN idx ELSE 0
  /\ pc # "done" => output = NoOutput

TotalsTo(c, n, total, dirty, unread) ==
  SumsTo(c, n, total) /\ CountedTo(c, n, dirty, unread)

FileInv ==
  /\ FileTypes
  /\ pc = "start" => sums = <<>> /\ invalid = 0 /\ unsupported = 0
  /\ pc = "reading" /\ call.op = "totals" => TotalsTo(call, idx, sums, invalid, unsupported)
  /\ pc = "done" /\ call.op = "totals" =>
       /\ output.recordCount = Len(RecordsOf(call))
       /\ TotalsTo(call, Len(RecordsOf(call)), output.sums, output.invalid, output.unsupported)
  /\ pc = "done" /\ call.op = "explain" => Explained(call, output)

LEMMA FileStart == OP!Init => FileInv
<1>. SUFFICES ASSUME OP!Init PROVE FileInv
  OBVIOUS
<1>1. /\ call \in FileCalls /\ pc = "start" /\ idx = 0 /\ sums = <<>>
      /\ \A n \in DOMAIN condTrue : condTrue[n] = 0
      /\ invalid = 0 /\ unsupported = 0 /\ objects = <<>> /\ output = NoOutput
  BY DEF OP!Init
<1>2. <<>> \in Seq(ToSet(<<>>)) /\ Len(<<>>) = 0 /\ DOMAIN <<>> = {}
  OBVIOUS
<1>. QED BY <1>1, <1>2 DEF FileInv, FileTypes

LEMMA ConditionsFinite ==
  ASSUME call \in FileCalls, NEW n, NEW rec
  PROVE  OP!Cardinality(OP!TrueNow(n, rec)) \in Nat
<1>1. Len(call.prog.conditions) \in Nat /\ DOMAIN call.prog.conditions = 1..Len(call.prog.conditions)
  BY FileCallTypes
<1>2. IsFiniteSet(DOMAIN call.prog.conditions)
  BY <1>1, Interval
<1>3. OP!TrueNow(n, rec) \subseteq DOMAIN call.prog.conditions
  BY DEF OP!TrueNow
<1>4. IsFiniteSet(OP!TrueNow(n, rec))
  BY <1>2, <1>3, FS_Subset, Zenon
<1>5. Cardinality(OP!TrueNow(n, rec)) \in Nat
  BY <1>4, FS_CardinalityType
<1>. QED BY <1>5, SameOP

LEMMA FileStep == FileInv /\ OP!Next => FileInv'
<1>. SUFFICES ASSUME FileInv, OP!Next PROVE FileInv'
  OBVIOUS
<1>0. FileTypes /\ OP!Records = RecordsOf(call)
  BY DEF FileInv, OP!Records, RecordsOf
<1>1. CASE OP!Refuse
  BY <1>1 DEF OP!Refuse, FileInv, FileTypes
<1>2. CASE OP!Accept
  <2>1. /\ UNCHANGED <<call, idx, sums, condTrue, invalid, unsupported, objects, output>>
        /\ pc = "start" /\ pc' = "reading" /\ ~call.collides
        /\ call.op # "explain" => call.recordLen > 0
    BY <1>2 DEF OP!Accept
  <2>2. FileTypes'
    BY <1>0, <2>1 DEF FileTypes
  <2>3. call.op = "totals" => TotalsTo(call, 0, <<>>, 0, 0)
    <3>1. call.op = "totals" => call.recordLen > 0
      BY <2>1
    <3>. QED BY <1>0, <3>1, NothingSummed, NothingCounted DEF TotalsTo, FileTypes
  <2>4. idx = 0 /\ sums = <<>> /\ invalid = 0 /\ unsupported = 0
    BY <2>1 DEF FileInv, FileTypes
  <2>. QED BY <2>1, <2>2, <2>3, <2>4 DEF FileInv
<1>3. CASE OP!TotalRecord
  <2>. DEFINE rec == RecordsOf(call)[idx + 1]
  <2>1. /\ UNCHANGED <<call, pc, objects, output>> /\ pc = "reading" /\ call.op = "totals"
        /\ idx < Len(RecordsOf(call)) /\ idx' = idx + 1
        /\ sums' = OP!AddFields(sums, rec)
        /\ invalid' = invalid + OP!InvalidIn(rec)
        /\ unsupported' = unsupported + OP!Cardinality(OP!Of("unsupported", rec))
        /\ condTrue' = [n \in DOMAIN condTrue |-> condTrue[n] + OP!Cardinality(OP!TrueNow(n, rec))]
    BY <1>0, <1>3 DEF OP!TotalRecord, OP!Rec
  <2>2. /\ call \in FileCalls /\ ~call.collides /\ call.recordLen > 0 /\ idx \in Nat
        /\ TotalsTo(call, idx, sums, invalid, unsupported)
    BY <2>1 DEF FileInv, FileTypes
  <2>3. idx + 1 \in DOMAIN RecordsOf(call) /\ idx + 1 <= Len(RecordsOf(call))
    BY <2>1, <2>2, FewRecords
  <2>. HIDE DEF rec
  <2>4. OP!InvalidIn(rec) = Cardinality(Dirty(call, rec))
    <3>1. OP!Of("numeric", rec) \ OP!ValidNumeric(rec) = Dirty(call, rec)
      BY <2>2, OperatorSets, FourWays
    <3>. QED BY <3>1, SameOP DEF OP!InvalidIn
  <2>5. OP!Cardinality(OP!Of("unsupported", rec)) = Cardinality(Unread(call, rec))
    BY OperatorSets, SameOP
  <2>6. TotalsTo(call, idx + 1, sums', invalid', unsupported')
    <3>1. SumsTo(call, idx + 1, sums')
      BY <2>1, <2>2, <2>3, OneSummed DEF TotalsTo, rec
    <3>2. CountedTo(call, idx + 1, invalid', unsupported')
      BY <2>1, <2>2, <2>3, <2>4, <2>5, OneCounted DEF TotalsTo, rec
    <3>. QED BY <3>1, <3>2 DEF TotalsTo
  <2>7. \A n \in DOMAIN condTrue' : condTrue'[n] \in Nat
    <3>1. \A n \in DOMAIN condTrue : condTrue[n] \in Nat
      BY <1>0 DEF FileTypes
    <3>2. ASSUME NEW n \in DOMAIN condTrue
          PROVE  condTrue[n] + OP!Cardinality(OP!TrueNow(n, rec)) \in Nat
      BY <2>2, <3>1, ConditionsFinite
    <3>. QED BY <2>1, <3>2
  <2>8. FileTypes'
    <3>1. /\ \A n \in DOMAIN sums' : sums'[n] \in MachineRange
          /\ invalid' \in Nat /\ unsupported' \in Nat
      BY <2>6 DEF TotalsTo, SumsTo, CountedTo
    <3>. QED BY <1>0, <2>1, <2>2, <2>3, <2>7, <3>1 DEF FileTypes
  <2>. QED BY <2>1, <2>6, <2>8 DEF FileInv
<1>4. CASE OP!RejectRecord
  BY <1>4 DEF OP!RejectRecord, FileInv, FileTypes
<1>5. CASE OP!DecodeRecord
  <2>1. /\ UNCHANGED <<call, pc, sums, condTrue, invalid, unsupported, output>>
        /\ pc = "reading" /\ call.op = "decode"
        /\ idx < Len(RecordsOf(call)) /\ idx' = idx + 1
        /\ \E e : objects' = Append(objects, e)
    BY <1>0, <1>5 DEF OP!DecodeRecord
  <2>2. /\ objects' \in Seq(ToSet(objects')) /\ Len(objects') = Len(objects) + 1
        /\ Len(objects) = idx
    BY <1>0, <2>1, AppendFacts DEF FileTypes
  <2>3. idx + 1 <= Len(RecordsOf(call)) /\ call.recordLen > 0
    BY <1>0, <2>1, FewRecords DEF FileTypes
  <2>4. FileTypes'
    BY <1>0, <2>1, <2>2, <2>3 DEF FileTypes
  <2>. QED BY <2>1, <2>4 DEF FileInv
<1>6. CASE OP!Finish
  <2>1. /\ UNCHANGED <<call, idx, sums, condTrue, invalid, unsupported, objects>>
        /\ pc = "reading" /\ pc' = "done" /\ call.op # "explain"
        /\ idx = Len(RecordsOf(call))
        /\ call.op = "totals" =>
             output' = [recordCount |-> idx, sums |-> sums, conditions |-> condTrue,
                        invalid |-> invalid, unsupported |-> unsupported]
    BY <1>0, <1>6 DEF OP!Finish
  <2>2. FileTypes'
    BY <1>0, <2>1 DEF FileTypes
  <2>. QED BY <2>1, <2>2 DEF FileInv
<1>7. CASE OP!ExplainNothing
  BY <1>7 DEF OP!ExplainNothing, FileInv, FileTypes
<1>8. CASE OP!ExplainField
  <2>. DEFINE named == OP!Named(call.prog, call.field)
              k == OP!Min(named)
  <2>1. /\ UNCHANGED <<call, idx, sums, condTrue, invalid, unsupported, objects>>
        /\ pc = "reading" /\ pc' = "done" /\ call.op = "explain" /\ named # {}
        /\ output'.field = call.prog.laid[k].name
        /\ output'.valid = IsValid(call, k, call.data)
    BY <1>8 DEF OP!ExplainField, OP!Laid, OP!ValidIn, IsValid, BytesOf, DomainOf
  <2>2. k \in Items(call)
    <3>1. named \subseteq Items(call) /\ Items(call) \subseteq Nat
      BY <1>0, FileCallTypes DEF FileTypes, OP!Named, Items
    <3>. HIDE DEF named
    <3>2. PICK j \in named : \A i \in named : j <= i
      BY <2>1, <3>1, LeastIn
    <3>3. k \in named
      BY <3>2, Zenon DEF OP!Min
    <3>. QED BY <3>1, <3>3
  <2>3. Explained(call, output')
    BY <2>1, <2>2 DEF Explained
  <2>4. FileTypes'
    BY <1>0, <2>1 DEF FileTypes
  <2>. QED BY <2>1, <2>3, <2>4 DEF FileInv
<1>9. CASE OP!Terminated
  BY <1>0, <1>9 DEF OP!Terminated, OP!vars, FileInv, FileTypes
<1>. QED BY <1>1, <1>2, <1>3, <1>4, <1>5, <1>6, <1>7, <1>8, <1>9 DEF OP!Next

FilesInv == court = "operator" => FileInv

LEMMA FilesKept == Spec => []FilesInv
<1>1. Init => FilesInv
  BY FileStart DEF Init, FilesInv
<1>2. FilesInv /\ [Next]_vars => FilesInv'
  <2>1. CASE UNCHANGED vars
    BY <2>1 DEF vars, totalVars, FilesInv, FileInv, FileTypes
  <2>2. CASE court = "operator" /\ OP!Next /\ court' = court
    BY <2>2, FileStep DEF FilesInv
  <2>. QED BY <2>1, <2>2 DEF Next, FilesInv
<1>. QED BY <1>1, <1>2, PTL DEF Spec

(* A sum the operator reports is the sum of the values that are valid, as  *)
(* long as no partial sum leaves the integer, and a field has a sum exactly *)
(* when one of its values was valid.                                       *)
THEOREM ExactSums == Spec => []SumsExact
<1>1. FilesInv => SumsExact
  <2>. SUFFICES ASSUME FileInv, pc = "done", call.op = "totals" PROVE OP!SumsExact
    BY DEF FilesInv, SumsExact, OP!SumsExact, OP!Finished
  <2>. DEFINE len == Len(RecordsOf(call))
  <2>1. /\ SumsTo(call, len, output.sums) /\ call \in FileCalls /\ ~call.collides
        /\ call.recordLen > 0
    BY DEF FileInv, FileTypes, TotalsTo
  <2>2. len \in Nat /\ DOMAIN RecordsOf(call) = 1..len
    BY <2>1, FewRecords
  <2>3. OP!Records = RecordsOf(call)
    BY DEF OP!Records, RecordsOf
  <2>4. OP!NumericNames = NumericIn(call)
    BY DEF OP!NumericNames, OP!Laid, NumericIn, Items
  <2>5. ASSUME NEW n PROVE OP!ItemOf(n) = call.prog.laid[ItemNamed(call, n)]
    BY DEF OP!ItemOf, OP!Laid, OP!Named, ItemNamed, Items
  <2>6. ASSUME NEW n, NEW rec
        PROVE  OP!ValidIn(OP!ItemOf(n), rec) <=>
                 BytesOf(call, ItemNamed(call, n), rec) # NoBytes /\
                 OP!FieldValid(DomainOf(call, ItemNamed(call, n)), BytesOf(call, ItemNamed(call, n), rec))
    BY <2>5 DEF OP!ValidIn, BytesOf, DomainOf
  <2>7. \A n, rec : OP!ValidIn(OP!ItemOf(n), rec) <=> IsValid(call, ItemNamed(call, n), rec)
    BY <2>6 DEF IsValid
  <2>8. \A n : OP!SumOf(n) = SumIn(call, n)
    BY DEF OP!SumOf, SumIn, Adds, Adding, ValueIn, IsValid, DomainOf, BytesOf, ItemNamed, Items,
           OP!ItemOf, OP!ValidIn, OP!Named, OP!Laid, OP!Records, RecordsOf
  <2>. HIDE DEF len
  <2>9. DOMAIN output.sums
          = {n \in OP!NumericNames : \E k \in DOMAIN OP!Records : OP!ValidIn(OP!ItemOf(n), OP!Records[k])}
    BY <2>1, <2>2, <2>3, <2>4, <2>7 DEF SumsTo, ValidTo
  <2>10. ASSUME NEW n \in DOMAIN output.sums,
                \A k \in DOMAIN OP!Records : OP!SumOf(n)[k] \in (-SumLimit - 1)..SumLimit
         PROVE  output.sums[n] = OP!SumOf(n)[Len(OP!Records)]
    BY <2>1, <2>2, <2>3, <2>8, <2>10 DEF SumsTo, MachineRange, len
  <2>. QED BY <2>9, <2>10 DEF OP!SumsExact
<1>. QED BY <1>1, FilesKept, PTL

(* control_totals accounts for every field of every record, and calls      *)
(* invalid what decode_records_json and explain_field call invalid.        *)
THEOREM EveryCell == Spec => []EveryFieldAccounted
<1>1. FilesInv => EveryFieldAccounted
  <2>. SUFFICES ASSUME FileInv, pc = "done" PROVE OP!EveryFieldAccounted
    BY DEF FilesInv, EveryFieldAccounted, OP!EveryFieldAccounted, OP!Finished
  <2>1. call \in FileCalls /\ ~call.collides
    BY DEF FileInv, FileTypes
  <2>2. CASE call.op = "explain"
    <3>1. PICK k \in Items(call) :
            output.field = call.prog.laid[k].name /\ output.valid = IsValid(call, k, call.data)
      BY <2>2 DEF FileInv, Explained
    <3>2. output.valid <=> \E j \in OP!Shown(call.data) \ OP!InvalidFields(call.data) :
                             OP!Laid[j].name = output.field
      BY <2>1, <3>1, ShownIsValid, OperatorSets DEF OP!Laid
    <3>. QED BY <2>2, <3>2 DEF OP!EveryFieldAccounted, OP!Finished
  <2>3. CASE call.op = "totals"
    <3>. DEFINE len == Len(RecordsOf(call))
    <3>1. /\ CountedTo(call, len, output.invalid, output.unsupported)
          /\ output.recordCount = len /\ call.recordLen > 0
      BY <2>3 DEF FileInv, FileTypes, TotalsTo
    <3>2. len \in Nat /\ DOMAIN RecordsOf(call) = 1..len /\ OP!Records = RecordsOf(call)
      BY <2>1, <3>1, FewRecords DEF OP!Records, RecordsOf
    <3>. HIDE DEF len
    <3>3. /\ [i \in DOMAIN OP!Records |-> OP!Textual(OP!Records[i])] = TextIn(call)
          /\ [i \in DOMAIN OP!Records |-> OP!ValidNumeric(OP!Records[i])] = SoundIn(call)
          /\ [i \in DOMAIN OP!Records |-> OP!InvalidFields(OP!Records[i])] = DirtyIn(call)
      BY <3>2, OperatorSets DEF TextIn, SoundIn, DirtyIn
    <3>4. \A sets : OP!Cells(sets) = CellsTo(sets, len, Items(call))
      BY <3>2 DEF OP!Cells, OP!Laid, CellsTo, Items
    <3>5. output.recordCount * Len(OP!Laid)
            = OP!Cardinality(OP!Cells([i \in DOMAIN OP!Records |-> OP!Textual(OP!Records[i])]))
                + OP!Cardinality(OP!Cells([i \in DOMAIN OP!Records |-> OP!ValidNumeric(OP!Records[i])]))
                + output.invalid + output.unsupported
      BY <3>1, <3>3, <3>4, SameOP DEF CountedTo, OP!Laid
    <3>6. output.invalid
            = OP!Cardinality(OP!Cells([i \in DOMAIN OP!Records |-> OP!InvalidFields(OP!Records[i])]))
      BY <3>1, <3>3, <3>4, SameOP DEF CountedTo
    <3>. QED BY <2>3, <3>5, <3>6 DEF OP!EveryFieldAccounted, OP!Finished
  <2>4. CASE call.op \notin {"explain", "totals"}
    BY <2>4 DEF OP!EveryFieldAccounted, OP!Finished
  <2>. QED BY <2>2, <2>3, <2>4
<1>. QED BY <1>1, FilesKept, PTL

-----------------------------------------------------------------------------
(* The types of all four courts.                                           *)
StatusWords == {"valid", "invalid_format", "invalid_calendar", "declared_sentinel"}

ProfileShape ==
  /\ call \in ProfileCalls
  /\ pc \in {"start", "markers", "dates", "amounts", "done", "error"}
  /\ at \in Nat
  /\ statuses \in Seq(ToSet(statuses)) /\ \A k \in DOMAIN statuses : statuses[k][2] \in StatusWords
  /\ entries \in Seq(ToSet(entries))
  /\ pc \in {"start", "markers", "dates", "error"} => entries = <<>>
  /\ pc = "amounts" => Len(entries) <= at /\ at <= Len(call.amounts)
  /\ pc = "done" => Len(entries) <= Len(call.amounts)

LEMMA AmountCalls == \A c \in ProfileCalls : Len(c.amounts) \in Nat
  BY ProfileCallsTyped DEF VP!CallsTyped

LEMMA ShapeStart == VP!Init => ProfileShape
<1>1. <<>> \in Seq(ToSet(<<>>)) /\ DOMAIN <<>> = {}
  OBVIOUS
<1>. QED BY <1>1 DEF VP!Init, ProfileShape

LEMMA ShapeStep == ProfileShape /\ VP!Next => ProfileShape'
<1>. SUFFICES ASSUME ProfileShape, VP!Next PROVE ProfileShape'
  OBVIOUS
<1>0. Len(call.amounts) \in Nat /\ Len(<<>>) = 0 /\ at + 1 \in Nat
  BY AmountCalls DEF ProfileShape
<1>1. CASE VP!Fail \/ VP!Begin \/ VP!Scanned \/ VP!Validated \/ VP!Return
  BY <1>0, <1>1
     DEF VP!Fail, VP!Begin, VP!Scanned, VP!Validated, VP!Return, VP!NextProfile, ProfileShape
<1>2. CASE VP!MissingMarked \/ VP!ScanField \/ VP!MissingDate
  <2>1. /\ UNCHANGED <<call, pc, statuses, entries>> /\ at' = at + 1
        /\ pc \in {"markers", "dates"}
    BY <1>2 DEF VP!MissingMarked, VP!MissingDate, VP!Missing, VP!ScanField
  <2>. QED BY <1>0, <2>1 DEF ProfileShape
<1>3. CASE VP!MissingAmount
  <2>1. /\ UNCHANGED <<call, pc, statuses, entries>> /\ at' = at + 1
        /\ pc = "amounts" /\ at < Len(call.amounts)
    BY <1>3 DEF VP!MissingAmount, VP!Missing
  <2>2. Len(entries) \in Nat
    BY DEF ProfileShape
  <2>. QED BY <1>0, <2>1, <2>2 DEF ProfileShape
<1>4. CASE VP!ValidateDate
  <2>. DEFINE declared == call.dates[at + 1]
              status == IF VP!Exempt(declared.field) THEN "declared_sentinel"
                        ELSE VP!Validate(VP!Field(call.record, declared.field).raw, declared.format)
              e == <<declared.field, status>>
  <2>1. /\ UNCHANGED <<call, pc, entries>> /\ at' = at + 1 /\ pc = "dates"
        /\ statuses' = Append(statuses, e)
    BY <1>4 DEF VP!ValidateDate
  <2>2. e[2] \in StatusWords
    BY DEF StatusWords, VP!Validate
  <2>. HIDE DEF e
  <2>3. statuses' \in Seq(ToSet(statuses')) /\ \A k \in DOMAIN statuses' : statuses'[k][2] \in StatusWords
    <3>1. /\ statuses' \in Seq(ToSet(statuses'))
          /\ statuses'[Len(statuses) + 1] = e
          /\ \A k \in 1..Len(statuses) : statuses'[k] = statuses[k]
          /\ DOMAIN statuses = 1..Len(statuses) /\ DOMAIN statuses' = 1..(Len(statuses) + 1)
          /\ Len(statuses) \in Nat
      BY <2>1, AppendFacts DEF ProfileShape
    <3>2. \A k \in 1..(Len(statuses) + 1) : k \in 1..Len(statuses) \/ k = Len(statuses) + 1
      BY <3>1
    <3>. QED BY <2>2, <3>1, <3>2 DEF ProfileShape
  <2>. QED BY <1>0, <2>1, <2>3 DEF ProfileShape
<1>5. CASE VP!RefuseAmount \/ VP!CheckAmount
  <2>1. /\ UNCHANGED <<call, pc, statuses>> /\ at' = at + 1 /\ pc = "amounts"
        /\ at < Len(call.amounts) /\ \E e : entries' = Append(entries, e)
    BY <1>5 DEF VP!RefuseAmount, VP!CheckAmount
  <2>2. entries' \in Seq(ToSet(entries')) /\ Len(entries') = Len(entries) + 1 /\ Len(entries) \in Nat
    BY <2>1, AppendFacts DEF ProfileShape
  <2>. QED BY <1>0, <2>1, <2>2 DEF ProfileShape
<1>6. CASE VP!Terminated
  BY <1>6 DEF VP!Terminated, VP!vars, ProfileShape
<1>. QED BY <1>1, <1>2, <1>3, <1>4, <1>5, <1>6 DEF VP!Next

(* A list of more numbers is no shorter.                                   *)
LEMMA ListFits ==
  ASSUME NEW S, S \subseteq Nat, NEW T, S \subseteq T, T \subseteq Nat, NEW m \in Nat, NEW l \in Nat,
         NEW p, NEW q, Lists(p, m, S), Lists(q, l, T)
  PROVE  m <= l
<1>. SUFFICES ASSUME l < m PROVE FALSE
  OBVIOUS
<1>. DEFINE f == [i \in 1..m |-> CHOOSE k \in 1..l : q[k] = p[i]]
<1>1. \A i \in 1..m : p[i] \in T
  BY DEF Lists
<1>2. \A i \in 1..m : f[i] \in 1..l /\ q[f[i]] = p[i]
  <2>. SUFFICES ASSUME NEW i \in 1..m PROVE f[i] \in 1..l /\ q[f[i]] = p[i]
    OBVIOUS
  <2>1. \E k \in 1..l : q[k] = p[i]
    BY <1>1 DEF Lists
  <2>. QED BY <2>1
<1>3. f \in [1..m -> 1..l]
  BY <1>2
<1>. HIDE DEF f
<1>4. /\ IsFiniteSet(1..m) /\ IsFiniteSet(1..l)
      /\ Cardinality(1..l) < Cardinality(1..m)
  <2>1. IsFiniteSet(1..m) /\ Cardinality(1..m) = m /\ IsFiniteSet(1..l) /\ Cardinality(1..l) = l
    BY Interval
  <2>. QED BY <2>1
<1>5. \E x, y \in 1..m : x # y /\ f[x] = f[y]
  BY <1>3, <1>4, FS_PigeonHole, Zenon
<1>6. PICK x \in 1..m, y \in 1..m : x # y /\ p[x] = p[y]
  BY <1>2, <1>5
<1>7. p[x] \in Nat /\ p[y] \in Nat
  BY DEF Lists
<1>8. x < y \/ y < x
  BY <1>6
<1>. QED BY <1>6, <1>7, <1>8 DEF Lists

RedactShape ==
  /\ pc \in {"start", "redact", "export", "done", "error"}
  /\ at \in 0..Len(call.fields)
  /\ findings \in Seq(ToSet(findings)) /\ Len(findings) <= Len(evidence)
  /\ pc \in {"start", "redact", "error"} => export = <<>>

LEMMA RedactShapeStart == RD!Init => RedactShape
<1>1. <<>> \in Seq(ToSet(<<>>)) /\ Len(<<>>) = 0
  OBVIOUS
<1>2. \A c \in RedactCalls : Len(c.fields) \in Nat
  BY RedactionCallsTyped DEF RD!CallsTyped
<1>. QED BY <1>1, <1>2 DEF RD!Init, RedactShape

LEMMA RedactShapeStep == RedactInv /\ RedactShape /\ RD!Next => RedactShape'
<1>. SUFFICES ASSUME RedactInv, RedactShape, RD!Next PROVE RedactShape'
  OBVIOUS
<1>0. Len(call.fields) \in Nat /\ Len(evidence) \in Nat /\ Len(findings) \in Nat
  <2>1. \A c \in RedactCalls : Len(c.fields) \in Nat
    BY RedactionCallsTyped DEF RD!CallsTyped
  <2>. QED BY <2>1 DEF RedactInv, RedactShape
<1>1. CASE RD!Fail \/ RD!Begin \/ RD!BeginExport \/ RD!Return
  BY <1>0, <1>1 DEF RD!Fail, RD!Begin, RD!BeginExport, RD!Return, RedactShape
<1>2. CASE RD!SkipGroup \/ RD!ExportField
  BY <1>0, <1>2 DEF RD!SkipGroup, RD!ExportField, RD!Reading, RedactShape
<1>3. CASE RD!RedactField
  <2>1. /\ UNCHANGED <<call, pc, export>> /\ at' = at + 1 /\ pc = "redact" /\ at < Len(call.fields)
        /\ \E e : evidence' = Append(evidence, e)
        /\ findings' = findings \/ \E e : findings' = Append(findings, e)
    BY <1>3 DEF RD!RedactField, RD!Reading
  <2>2. Len(evidence') = Len(evidence) + 1
    BY <2>1, AppendFacts DEF RedactInv
  <2>3. /\ findings' \in Seq(ToSet(findings'))
        /\ Len(findings') \in {Len(findings), Len(findings) + 1}
    <3>1. findings \in Seq(ToSet(findings))
      BY DEF RedactShape
    <3>2. CASE findings' = findings
      BY <3>1, <3>2
    <3>3. CASE \E e : findings' = Append(findings, e)
      BY <3>1, <3>3, AppendFacts
    <3>. QED BY <2>1, <3>2, <3>3
  <2>. QED BY <1>0, <2>1, <2>2, <2>3 DEF RedactShape
<1>4. CASE RD!Terminated
  BY <1>4 DEF RD!Terminated, RD!vars, RedactShape
<1>. QED BY <1>1, <1>2, <1>3, <1>4 DEF RD!Next

(* Every variable keeps its type while a court is at work: the operator    *)
(* never passes the last record and no sum leaves its integer; what is     *)
(* said of pairs is of pairs that were read; a date has one of four        *)
(* statuses and an amount at most one entry; no export holds a field more  *)
(* than the evidence.                                                      *)
THEOREM FieldsTyped == Spec => []TypeOK
<1>. DEFINE IInv == /\ court = "operator" => FileInv
                    /\ court = "db2host_evaluate" => PairInv
                    /\ court = "value_profiles" => ProfileShape
                    /\ court = "redaction" => RedactInv /\ RedactShape
<1>1. IInv => TypeOK
  <2>. SUFFICES ASSUME IInv PROVE TypeOK
    OBVIOUS
  <2>1. ASSUME court = "operator" PROVE OP!TypeOK
    <3>1. FileTypes
      BY <2>1 DEF FileInv
    <3>2. call.recordLen > 0 => Len(RecordsOf(call)) \in 0..Len(call.data)
      BY <3>1, FewRecords DEF FileTypes
    <3>3. Len(call.data) \in Nat
      BY <3>1, FileCallTypes DEF FileTypes
    <3>. QED BY <3>1, <3>2, <3>3 DEF OP!TypeOK, FileTypes, MachineRange
  <2>2. ASSUME court = "db2host_evaluate" PROVE DB!TypeOK
    BY <2>2 DEF PairInv, PairTypes, DB!TypeOK
  <2>3. ASSUME court = "value_profiles" PROVE VP!TypeOK
    <3>1. ProfileShape /\ Len(call.amounts) \in Nat /\ Len(<<>>) = 0 /\ Len(entries) \in Nat
      BY <2>3, AmountCalls DEF ProfileShape
    <3>. QED BY <3>1 DEF ProfileShape, VP!TypeOK, StatusWords
  <2>4. ASSUME court = "redaction" PROVE RD!TypeOK
    <3>1. RedactInv /\ RedactShape /\ Len(<<>>) = 0
      BY <2>4
    <3>2. Len(evidence) \in Nat /\ Len(export) \in Nat /\ Len(call.fields) \in Nat
      <4>1. \A c \in RedactCalls : Len(c.fields) \in Nat
        BY RedactionCallsTyped DEF RD!CallsTyped
      <4>. QED BY <3>1, <4>1 DEF RedactInv
    <3>3. Len(export) <= Len(evidence)
      <4>1. CASE pc \in {"start", "redact", "error"}
        BY <3>1, <3>2, <4>1 DEF RedactShape
      <4>2. CASE pc \in {"export", "done"}
        <5>1. PICK n \in 0..Len(call.fields) : ExportTo(call, n, export)
          BY <3>1, <3>2, <4>2 DEF RedactInv, RedactShape
        <5>2. EvidenceTo(call, Len(call.fields), evidence)
          BY <3>1, <4>2 DEF RedactInv
        <5>3. /\ Visible(call, n) \subseteq Visible(call, Len(call.fields))
              /\ Visible(call, Len(call.fields)) \subseteq Nat
          BY <3>2, <5>1 DEF Visible
        <5>4. PICK p : Lists(p, Len(export), Visible(call, n))
          BY <5>1 DEF ExportTo
        <5>5. PICK q : Lists(q, Len(evidence), Visible(call, Len(call.fields)))
          BY <5>2 DEF EvidenceTo
        <5>. QED BY <3>2, <5>3, <5>4, <5>5, ListFits, Zenon
      <4>. QED BY <3>1, <4>1, <4>2 DEF RedactShape
    <3>. QED BY <3>1, <3>3 DEF RedactShape, RD!TypeOK
  <2>. QED BY <2>1, <2>2, <2>3, <2>4 DEF TypeOK
<1>2. Init => IInv
  BY FileStart, PairStart, ShapeStart, RedactStart, RedactShapeStart DEF Init
<1>3. IInv /\ [Next]_vars => IInv'
  <2>. SUFFICES ASSUME IInv, [Next]_vars PROVE IInv'
    OBVIOUS
  <2>1. CASE UNCHANGED vars
    BY <2>1 DEF vars, totalVars, pairVars, profileVars, redactVars, FileInv, FileTypes,
                PairInv, PairTypes, ProfileShape, RedactInv, RedactShape
  <2>2. CASE court = "operator" /\ OP!Next /\ court' = court
    BY <2>2, FileStep
  <2>3. CASE court = "db2host_evaluate" /\ DB!Next /\ court' = court
    BY <2>3, PairStep
  <2>4. CASE court = "value_profiles" /\ VP!Next /\ court' = court
    BY <2>4, ShapeStep
  <2>5. CASE court = "redaction" /\ RD!Next /\ court' = court
    BY <2>5, RedactStep, RedactShapeStep
  <2>. QED BY <2>1, <2>2, <2>3, <2>4, <2>5 DEF Next
<1>. QED BY <1>1, <1>2, <1>3, PTL DEF Spec
===============================================================================
