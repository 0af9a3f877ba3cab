--------------------------- MODULE BatchChainProofs ---------------------------
(***************************************************************************)
(* For chains of any length, any number of sealing runs and any amount of  *)
(* damage, hashes recomputed included: an archive that verifies and ends   *)
(* in the recorded head is exactly what was sealed.                        *)
(*                                                                         *)
(* An archive that verifies is linked: each link names its predecessor's   *)
(* hash and its own hash binds what it holds. What was sealed is linked    *)
(* too, except where a run was started from the empty head of an empty     *)
(* run. Two such sequences with the same last hash agree link by link from *)
(* the end, as no linked one names the empty hash, so neither is longer.   *)
(*                                                                         *)
(* The variables keep their types because every hash in an archive is that *)
(* of a link, whatever was damaged and recomputed.                         *)
(***************************************************************************)
EXTENDS BatchChain, TLAPS, SequenceTheorems, WellFoundedInduction

HashAt(s, n) == IF n = 0 THEN Genesis ELSE s[n].hash

(* A link is a record of its three fields and nothing else. *)
IsLink(link) ==
  link = [batch |-> link.batch, prev |-> link.prev, hash |-> link.hash]

LinkedTo(s, n) ==
  \A k \in 1..n : /\ s[k].prev = HashAt(s, k - 1)
                  /\ s[k].hash = LinkHash(s[k].batch, s[k].prev)

SealedTo(s, n) ==
  \A k \in 1..n : /\ s[k].prev \in {HashAt(s, k - 1), NoHash}
                  /\ s[k].hash = LinkHash(s[k].batch, s[k].prev)

(* A linked sequence never names the empty hash. *)
LEMMA NeverEmpty ==
  ASSUME NEW s, NEW n \in Nat, LinkedTo(s, n)
  PROVE  /\ HashAt(s, n) # NoHash
         /\ \A k \in 1..n : s[k].prev # NoHash
<1>1. Genesis # NoHash /\ \A batch, prev : LinkHash(batch, prev) # NoHash
  BY DEF Genesis, NoHash, LinkHash
<1>2. ASSUME NEW k \in 0..n PROVE HashAt(s, k) # NoHash
  BY <1>1 DEF HashAt, LinkedTo
<1>3. ASSUME NEW k \in 1..n PROVE s[k].prev = HashAt(s, k - 1) /\ k - 1 \in 0..n
  BY DEF LinkedTo
<1>. QED BY <1>2, <1>3

LEMMA LinkEquality ==
  ASSUME NEW x, NEW y, IsLink(x), IsLink(y),
         x.batch = y.batch, x.prev = y.prev, x.hash = y.hash
  PROVE  x = y
  BY Zenon DEF IsLink

LEMMA SealedIsLink ==
  ASSUME NEW batch, NEW prev
  PROVE  /\ IsLink(SealedLink(batch, prev))
         /\ SealedLink(batch, prev).batch = batch
         /\ SealedLink(batch, prev).prev = prev
         /\ SealedLink(batch, prev).hash = LinkHash(batch, prev)
  BY DEF IsLink, SealedLink

Elements(s) == {s[k] : k \in DOMAIN s}

(* s is a sequence of links, chained or not. *)
AreLinks(s) == s \in Seq(Elements(s)) /\ \A x \in Elements(s) : IsLink(x)

LEMMA LinksOfSeq ==
  ASSUME NEW S, NEW s \in Seq(S), \A x \in S : IsLink(x)
  PROVE  AreLinks(s)
<1>1. Elements(s) \subseteq S
  BY DEF Elements
<1>2. s \in Seq(Elements(s))
  BY DEF Elements
<1>. QED BY <1>1, <1>2 DEF AreLinks

LEMMA LinksFacts ==
  ASSUME NEW s, AreLinks(s)
  PROVE  Len(s) \in Nat /\ DOMAIN s = 1..Len(s)
         /\ s = [k \in 1..Len(s) |-> s[k]]
         /\ \A k \in 1..Len(s) : IsLink(s[k])
  BY DEF AreLinks, Elements

LEMMA NoLinks == AreLinks(<<>>) /\ Len(<<>>) = 0
  BY DEF AreLinks, Elements

LEMMA ConcatLinks ==
  ASSUME NEW s, NEW t, AreLinks(s), AreLinks(t)
  PROVE  AreLinks(s \o t)
<1>. DEFINE S == Elements(s) \cup Elements(t)
<1>1. s \in Seq(S) /\ t \in Seq(S) /\ \A x \in S : IsLink(x)
  BY DEF AreLinks
<1>. HIDE DEF S
<1>2. s \o t \in Seq(S)
  BY <1>1
<1>. QED BY <1>1, <1>2, LinksOfSeq

LEMMA UpdateLinks ==
  ASSUME NEW s, AreLinks(s), NEW k, NEW e, IsLink(e)
  PROVE  AreLinks([s EXCEPT ![k] = e])
<1>. DEFINE S == Elements(s) \cup {e}
            r == [s EXCEPT ![k] = e]
<1>1. s \in Seq(S) /\ e \in S /\ \A x \in S : IsLink(x)
  BY DEF AreLinks
<1>. HIDE DEF S
<1>2. s \in [1..Len(s) -> S] /\ Len(s) \in Nat
  BY <1>1
<1>3. r \in [1..Len(s) -> S]
  BY <1>1, <1>2
<1>. HIDE DEF r
<1>4. r \in Seq(S)
  BY <1>2, <1>3, SeqDef
<1>. QED BY <1>1, <1>4, LinksOfSeq DEF r

LEMMA RemoveLinks ==
  ASSUME NEW s, AreLinks(s), NEW k \in 1..Len(s)
  PROVE  AreLinks(RemoveAt(s, k))
<1>. DEFINE S == Elements(s)
<1>1. s \in Seq(S) /\ \A x \in S : IsLink(x)
  BY DEF AreLinks
<1>. HIDE DEF S
<1>2. Len(s) \in Nat /\ k \in Nat
  BY <1>1
<1>3. SubSeq(s, 1, k - 1) \in Seq(S) /\ SubSeq(s, k + 1, Len(s)) \in Seq(S)
  BY <1>1, <1>2, SubSeqProperties
<1>4. SubSeq(s, 1, k - 1) \o SubSeq(s, k + 1, Len(s)) \in Seq(S)
  BY <1>3
<1>. QED BY <1>1, <1>4, LinksOfSeq DEF RemoveAt

LEMMA AppendLink ==
  ASSUME NEW s, AreLinks(s), NEW e, IsLink(e)
  PROVE  /\ AreLinks(Append(s, e)) /\ Len(Append(s, e)) = Len(s) + 1
         /\ \A k \in 1..Len(s) : Append(s, e)[k] = s[k]
         /\ Append(s, e)[Len(s) + 1] = e
<1>. DEFINE S == Elements(s) \cup {e}
<1>1. s \in Seq(S) /\ e \in S /\ \A x \in S : IsLink(x)
  BY DEF AreLinks
<1>. HIDE DEF S
<1>2. /\ Append(s, e) \in Seq(S) /\ Len(Append(s, e)) = Len(s) + 1
      /\ \A k \in 1..Len(s) : Append(s, e)[k] = s[k]
      /\ Append(s, e)[Len(s) + 1] = e
  BY <1>1
<1>. QED BY <1>1, <1>2, LinksOfSeq

(* A linked and a sealed sequence that end in the same hash are the same.  *)
LEMMA SameEndSameChain ==
  ASSUME NEW a, NEW b, AreLinks(a), AreLinks(b),
         LinkedTo(a, Len(a)), SealedTo(b, Len(b)),
         HashAt(a, Len(a)) = HashAt(b, Len(b))
  PROVE  a = b
<1>. DEFINE Differ == {d \in Nat : /\ d < Len(a) /\ d < Len(b)
                                   /\ a[Len(a) - d] # b[Len(b) - d]}
<1>0. Len(a) \in Nat /\ Len(b) \in Nat
  BY LinksFacts
<1>1. SealedTo(a, Len(a))
  BY DEF LinkedTo, SealedTo
<1>2. \A k \in 1..Len(a) : a[k].prev # NoHash
  BY <1>0, NeverEmpty
<1>3. ASSUME NEW i \in 1..Len(a), NEW j \in 1..Len(b), a[i].hash = b[j].hash
      PROVE  a[i] = b[j]
  <2>1. LinkHash(a[i].batch, a[i].prev) = LinkHash(b[j].batch, b[j].prev)
    BY <1>1, <1>3 DEF SealedTo
  <2>2. a[i].batch = b[j].batch /\ a[i].prev = b[j].prev
    BY <2>1 DEF LinkHash
  <2>3. IsLink(a[i]) /\ IsLink(b[j])
    BY LinksFacts
  <2>. QED BY <1>3, <2>2, <2>3, LinkEquality
<1>4. Differ = {}
  <2>. SUFFICES ASSUME Differ # {} PROVE FALSE
    OBVIOUS
  <2>1. PICK d \in Differ : \A e \in Differ : ~(<<e, d>> \in OpToRel(<, Nat))
    BY WFMin, NatLessThanWellFounded
  <2>2. \A e \in Nat : e < d => e \notin Differ
    BY <2>1 DEF OpToRel
  <2>3. /\ d \in Nat /\ d < Len(a) /\ d < Len(b)
        /\ Len(a) - d \in 1..Len(a) /\ Len(b) - d \in 1..Len(b)
    BY <1>0
  <2>4. a[Len(a) - d].hash = b[Len(b) - d].hash
    <3>1. CASE d = 0
      BY <1>0, <2>3, <3>1 DEF HashAt
    <3>2. CASE d # 0
      <4>. DEFINE i == Len(a) - d + 1  j == Len(b) - d + 1
      <4>1. i \in 1..Len(a) /\ j \in 1..Len(b) /\ i - 1 = Len(a) - d
            /\ j - 1 = Len(b) - d /\ i - 1 # 0 /\ j - 1 # 0
            /\ i = Len(a) - (d - 1) /\ j = Len(b) - (d - 1)
            /\ d - 1 \in Nat /\ d - 1 < d
        BY <1>0, <2>3, <3>2
      <4>2. a[i] = b[j]
        <5>1. d - 1 \notin Differ
          BY <2>2, <4>1
        <5>2. d - 1 < Len(a) /\ d - 1 < Len(b)
          BY <1>0, <2>3, <4>1
        <5>3. a[Len(a) - (d - 1)] = b[Len(b) - (d - 1)]
          BY <4>1, <5>1, <5>2
        <5>. QED BY <4>1, <5>3
      <4>. HIDE DEF i, j
      <4>3. HashAt(a, i - 1) = HashAt(b, j - 1)
        BY <1>1, <1>2, <4>1, <4>2 DEF SealedTo
      <4>. QED BY <4>1, <4>3 DEF HashAt
    <3>. QED BY <3>1, <3>2
  <2>. QED BY <1>3, <2>3, <2>4
<1>5. ASSUME NEW s, NEW t, AreLinks(s), AreLinks(t), Len(s) < Len(t),
             SealedTo(t, Len(t)), SealedTo(s, Len(s)),
             HashAt(s, Len(s)) = HashAt(t, Len(t)),
             \A d \in Nat : d < Len(s) =>
               s[Len(s) - d] = t[Len(t) - d] /\ s[Len(s) - d].prev # NoHash
      PROVE  FALSE
  <2>. DEFINE n == Len(t) - Len(s)
  <2>1. Len(s) \in Nat /\ Len(t) \in Nat /\ n \in 1..Len(t)
    BY <1>5, LinksFacts
  <2>2. t[n].hash = LinkHash(t[n].batch, t[n].prev)
    BY <1>5, <2>1 DEF SealedTo
  <2>3. t[n].hash = Genesis
    <3>1. CASE Len(s) = 0
      BY <1>5, <2>1, <3>1 DEF HashAt
    <3>2. CASE Len(s) # 0
      <4>1. Len(s) - 1 \in Nat /\ Len(s) - 1 < Len(s)
            /\ Len(s) - (Len(s) - 1) = 1 /\ Len(t) - (Len(s) - 1) = n + 1
            /\ n + 1 \in 1..Len(t) /\ 1 \in 1..Len(s) /\ n + 1 - 1 = n /\ n # 0
        BY <2>1, <3>2, <1>5
      <4>. HIDE DEF n
      <4>2. s[1] = t[n + 1] /\ s[1].prev # NoHash
        BY <1>5, <4>1
      <4>3. s[1].prev = Genesis
        BY <1>5, <4>1, <4>2 DEF SealedTo, HashAt
      <4>4. t[n + 1].prev = t[n].hash
        <5>. DEFINE m == n + 1
        <5>1. m \in 1..Len(t) /\ m - 1 = n
          BY <2>1, <4>1
        <5>. HIDE DEF m
        <5>2. t[m].prev = HashAt(t, n)
          BY <1>5, <4>2, <5>1 DEF SealedTo, m
        <5>. QED BY <4>1, <5>2 DEF HashAt, m
      <4>. QED BY <4>2, <4>3, <4>4
    <3>. QED BY <3>1, <3>2
  <2>. QED BY <2>2, <2>3 DEF LinkHash, Genesis
<1>6. Len(a) = Len(b)
  <2>1. \A d \in Nat : d < Len(a) /\ d < Len(b) => a[Len(a) - d] = b[Len(b) - d]
    BY <1>4
  <2>2. ~(Len(a) < Len(b))
    <3>. SUFFICES ASSUME Len(a) < Len(b) PROVE FALSE
      OBVIOUS
    <3>1. \A d \in Nat : d < Len(a) =>
            a[Len(a) - d] = b[Len(b) - d] /\ a[Len(a) - d].prev # NoHash
      BY <1>0, <1>2, <2>1
    <3>. QED BY <1>1, <1>5, <3>1
  <2>3. ~(Len(b) < Len(a))
    <3>. SUFFICES ASSUME Len(b) < Len(a) PROVE FALSE
      OBVIOUS
    <3>1. \A d \in Nat : d < Len(b) =>
            b[Len(b) - d] = a[Len(a) - d] /\ b[Len(b) - d].prev # NoHash
      BY <1>0, <1>2, <2>1
    <3>. QED BY <1>1, <1>5, <3>1
  <2>. QED BY <1>0, <2>2, <2>3
<1>7. \A k \in 1..Len(a) : a[k] = b[k]
  <2>. SUFFICES ASSUME NEW k \in 1..Len(a) PROVE a[k] = b[k]
    OBVIOUS
  <2>1. Len(a) - k \in Nat /\ Len(a) - k < Len(a) /\ Len(a) - (Len(a) - k) = k
    BY <1>0
  <2>2. Len(a) - k \notin Differ
    BY <1>4
  <2>. QED BY <1>6, <2>1, <2>2
<1>. QED BY <1>6, <1>7, LinksFacts

(* What sealing keeps true: the history is sealed, the call under way holds *)
(* its last links and its last hash, and between calls head is that hash,   *)
(* or the empty one.                                                        *)
Sealed ==
  /\ AreLinks(history) /\ SealedTo(history, Len(history))
  /\ AreLinks(sealing.sealed)
  /\ sealing = [open |-> sealing.open, prev |-> sealing.prev,
                sealed |-> sealing.sealed]
  /\ sealing.open \in BOOLEAN
  /\ sealing.open =>
       /\ sealing.prev \in {HashAt(history, Len(history)), NoHash}
       /\ sealing.sealed # <<>> =>
            Last(sealing.sealed).hash = HashAt(history, Len(history))
  /\ ~sealing.open => head \in {HashAt(history, Len(history)), NoHash}

(* What verification keeps true: the links passed so far are linked.       *)
Verified ==
  /\ AreLinks(archive)
  /\ verifier = [stage |-> verifier.stage, next |-> verifier.next,
                 expected |-> verifier.expected, brokenAt |-> verifier.brokenAt]
  /\ verifier.next \in 1..(Len(archive) + 1)
  /\ verifier.stage # "idle" => ~sealing.open
  /\ verifier.stage = "idle" => verifier.next = 1
  /\ LinkedTo(archive, verifier.next - 1)
  /\ verifier.expected = HashAt(archive, verifier.next - 1)
  /\ verifier.stage = "intact" => verifier.next = Len(archive) + 1

IInv == Sealed /\ Verified

LEMMA InitIInv == Init => IInv
<1>. SUFFICES ASSUME Init PROVE IInv
  OBVIOUS
<1>1. AreLinks(<<>>) /\ Len(<<>>) = 0
  BY NoLinks
<1>2. Sealed
  BY <1>1 DEF Init, Sealed, SealedTo, HashAt
<1>3. Verified
  BY <1>1 DEF Init, Verified, LinkedTo, HashAt
<1>. QED BY <1>2, <1>3 DEF IInv

LEMMA SealIInv ==
  ASSUME IInv, NEW batch \in Batches, Seal(batch) PROVE IInv'
<1>. DEFINE link == SealedLink(batch, sealing.prev)
<1>. USE DEF IInv
<1>1. /\ sealing.open /\ history' = Append(history, link)
      /\ sealing' = [sealing EXCEPT !.prev = link.hash, !.sealed = Append(@, link)]
      /\ UNCHANGED <<head, archive, damage, verifier>>
  BY DEF Seal
<1>2. /\ IsLink(link) /\ link.batch = batch /\ link.prev = sealing.prev
      /\ link.hash = LinkHash(batch, sealing.prev)
  BY SealedIsLink
<1>. HIDE DEF link
<1>3. /\ AreLinks(history') /\ Len(history') = Len(history) + 1
      /\ \A k \in 1..Len(history) : history'[k] = history[k]
      /\ history'[Len(history) + 1] = link
      /\ Len(history) \in Nat
  BY <1>1, <1>2, AppendLink, LinksFacts DEF Sealed
<1>4. /\ AreLinks(Append(sealing.sealed, link))
      /\ Append(sealing.sealed, link) # <<>>
      /\ Last(Append(sealing.sealed, link)) = link
  <2>1. /\ AreLinks(Append(sealing.sealed, link))
        /\ Len(Append(sealing.sealed, link)) = Len(sealing.sealed) + 1
        /\ Append(sealing.sealed, link)[Len(sealing.sealed) + 1] = link
        /\ Len(sealing.sealed) \in Nat
    BY <1>2, AppendLink, LinksFacts DEF Sealed
  <2>2. Append(sealing.sealed, link) # <<>>
    BY <2>1, NoLinks
  <2>. QED BY <2>1, <2>2 DEF Last
<1>5. sealing' = [open |-> TRUE, prev |-> link.hash,
                  sealed |-> Append(sealing.sealed, link)]
  BY <1>1 DEF Sealed
<1>6. HashAt(history, Len(history))' = link.hash
  BY <1>3 DEF HashAt
<1>7. SealedTo(history, Len(history))'
  <2>. SUFFICES ASSUME NEW k \in 1..Len(history')
                PROVE  /\ history'[k].prev \in {HashAt(history', k - 1), NoHash}
                       /\ history'[k].hash = LinkHash(history'[k].batch, history'[k].prev)
    BY DEF SealedTo
  <2>1. k - 1 \in 0..Len(history) /\ HashAt(history', k - 1) = HashAt(history, k - 1)
    BY <1>3 DEF HashAt
  <2>2. CASE k \in 1..Len(history)
    BY <1>3, <2>1, <2>2 DEF Sealed, SealedTo
  <2>3. CASE k = Len(history) + 1
    <3>1. sealing.prev \in {HashAt(history, k - 1), NoHash}
      BY <1>1, <1>3, <2>3 DEF Sealed
    <3>. QED BY <1>2, <1>3, <2>1, <2>3, <3>1
  <2>. QED BY <1>3, <2>2, <2>3
<1>8. Sealed'
  BY <1>3, <1>4, <1>5, <1>6, <1>7 DEF Sealed
<1>9. Verified'
  BY <1>1, <1>5 DEF Verified
<1>. QED BY <1>8, <1>9

LEMMA DamageIInv ==
  ASSUME IInv, Damage PROVE IInv'
<1>. USE DEF IInv
<1>1. PICK k \in DOMAIN archive :
         \/ \E batch \in Batches : Alter(k, batch) \/ Reseal(k, batch)
         \/ \E j \in DOMAIN archive : AlterPrev(k, j) \/ Swap(k, j)
         \/ Drop(k)
  BY DEF Damage
<1>2. /\ verifier.stage = "idle" /\ ~sealing.open
      /\ UNCHANGED <<sealing, head, history, verifier>>
  BY <1>1 DEF Alter, Reseal, AlterPrev, Swap, Drop, Damaging
<1>3. AreLinks(archive')
  <2>. AreLinks(archive) /\ k \in 1..Len(archive)
    BY <1>1, LinksFacts DEF Verified
  <2>0. IsLink(archive[k])
    BY LinksFacts
  <2>1. CASE \E batch \in Batches : Alter(k, batch)
    <3>1. PICK batch \in Batches :
             archive' = [archive EXCEPT ![k] = [archive[k] EXCEPT !.batch = batch]]
      BY <2>1 DEF Alter
    <3>2. IsLink([archive[k] EXCEPT !.batch = batch])
      BY <2>0 DEF IsLink
    <3>. QED BY <3>1, <3>2, UpdateLinks
  <2>2. CASE \E batch \in Batches : Reseal(k, batch)
    <3>1. PICK batch \in Batches :
             archive' = [archive EXCEPT ![k] = SealedLink(batch, archive[k].prev)]
      BY <2>2 DEF Reseal
    <3>2. IsLink(SealedLink(batch, archive[k].prev))
      BY SealedIsLink
    <3>. QED BY <3>1, <3>2, UpdateLinks
  <2>3. CASE \E j \in DOMAIN archive : AlterPrev(k, j)
    <3>1. PICK j \in DOMAIN archive :
             archive' = [archive EXCEPT
                           ![k] = [archive[k] EXCEPT !.prev = archive[j].hash]]
      BY <2>3 DEF AlterPrev
    <3>2. IsLink([archive[k] EXCEPT !.prev = archive[j].hash])
      BY <2>0 DEF IsLink
    <3>. QED BY <3>1, <3>2, UpdateLinks
  <2>5. CASE \E j \in DOMAIN archive : Swap(k, j)
    <3>1. PICK j \in DOMAIN archive :
             archive' = [[archive EXCEPT ![k] = archive[j]] EXCEPT ![j] = archive[k]]
      BY <2>5 DEF Swap
    <3>2. IsLink(archive[j])
      BY LinksFacts
    <3>3. AreLinks([archive EXCEPT ![k] = archive[j]])
      BY <3>2, UpdateLinks
    <3>. QED BY <2>0, <3>1, <3>3, UpdateLinks
  <2>4. CASE Drop(k)
    BY <2>4, RemoveLinks DEF Drop
  <2>. QED BY <1>1, <2>1, <2>2, <2>3, <2>4, <2>5
<1>4. Sealed'
  BY <1>2 DEF Sealed
<1>5. Verified'
  <2>1. verifier.next = 1 /\ Len(archive') \in Nat
    BY <1>2, <1>3, LinksFacts DEF Verified
  <2>2. LinkedTo(archive', 0) /\ HashAt(archive', 0) = HashAt(archive, 0)
    BY DEF LinkedTo, HashAt
  <2>. QED BY <1>2, <1>3, <2>1, <2>2 DEF Verified
<1>. QED BY <1>4, <1>5

LEMMA CheckIInv ==
  ASSUME IInv, CheckLink PROVE IInv'
<1>. USE DEF IInv
<1>. DEFINE n == verifier.next
<1>1. /\ verifier.stage = "checking" /\ n <= Len(archive)
      /\ UNCHANGED <<sealing, head, archive, history, damage>>
      /\ verifier' = [verifier EXCEPT !.next = n + 1, !.expected = archive[n].hash]
      /\ archive[n].prev = verifier.expected
      /\ archive[n].hash = LinkHash(archive[n].batch, archive[n].prev)
  BY DEF CheckLink, Checking, Link, Sound
<1>2. Len(archive) \in Nat /\ n \in 1..Len(archive)
  BY <1>1, LinksFacts DEF Verified
<1>3. verifier' = [stage |-> "checking", next |-> n + 1,
                   expected |-> archive[n].hash, brokenAt |-> verifier.brokenAt]
  BY <1>1 DEF Verified
<1>4. LinkedTo(archive, n - 1) /\ verifier.expected = HashAt(archive, n - 1)
  BY DEF Verified
<1>. HIDE DEF n
<1>5. LinkedTo(archive, n)
  BY <1>1, <1>2, <1>4 DEF LinkedTo
<1>6. HashAt(archive, n) = archive[n].hash /\ n + 1 - 1 = n
  BY <1>2 DEF HashAt
<1>7. ~sealing.open
  BY <1>1 DEF Verified
<1>8. Verified'
  <2>1. /\ verifier'.stage = "checking" /\ verifier'.next = n + 1
        /\ verifier'.expected = archive[n].hash
        /\ verifier'.brokenAt = verifier.brokenAt
        /\ verifier' = [stage |-> verifier'.stage, next |-> verifier'.next,
                        expected |-> verifier'.expected,
                        brokenAt |-> verifier'.brokenAt]
    BY <1>3
  <2>2. AreLinks(archive') /\ archive' = archive /\ sealing' = sealing
    BY <1>1 DEF Verified
  <2>3. /\ LinkedTo(archive, verifier'.next - 1)
        /\ verifier'.expected = HashAt(archive, verifier'.next - 1)
        /\ verifier'.next \in 1..(Len(archive) + 1)
    BY <1>2, <1>5, <1>6, <2>1
  <2>. QED BY <1>7, <2>1, <2>2, <2>3 DEF Verified
<1>9. Sealed'
  BY <1>1 DEF Sealed
<1>. QED BY <1>8, <1>9

LEMMA StepIInv == IInv /\ [Next]_vars => IInv'
<1>. SUFFICES ASSUME IInv, [Next]_vars PROVE IInv'
  OBVIOUS
<1>. USE DEF IInv
<1>1. CASE BeginRun
  <2>1. /\ ~sealing.open /\ verifier.stage = "idle"
        /\ sealing' = [open |-> TRUE, prev |-> head, sealed |-> <<>>]
        /\ UNCHANGED <<head, archive, history, verifier>>
    BY <1>1 DEF BeginRun
  <2>2. Sealed'
    BY <2>1, NoLinks DEF Sealed
  <2>3. Verified'
    BY <2>1 DEF Verified
  <2>. QED BY <2>2, <2>3
<1>2. CASE \E batch \in Batches : Seal(batch)
  BY <1>2, SealIInv
<1>3. CASE EndRun
  <2>1. /\ sealing.open
        /\ archive' = archive \o sealing.sealed
        /\ head' = IF sealing.sealed = <<>> THEN NoHash ELSE Last(sealing.sealed).hash
        /\ sealing' = [open |-> FALSE, prev |-> sealing.prev,
                       sealed |-> sealing.sealed]
        /\ UNCHANGED <<history, verifier>>
    BY <1>3 DEF EndRun, Sealed, ChainHead
  <2>2. Sealed'
    BY <2>1 DEF Sealed
  <2>3. AreLinks(archive') /\ Len(archive') \in Nat
    BY <2>1, ConcatLinks, LinksFacts DEF Sealed, Verified
  <2>4. verifier.stage = "idle" /\ verifier.next = 1
    BY <2>1, <1>3 DEF Verified, EndRun
  <2>5. LinkedTo(archive', 0) /\ HashAt(archive', 0) = HashAt(archive, 0)
    BY DEF LinkedTo, HashAt
  <2>6. Verified'
    BY <2>1, <2>3, <2>4, <2>5 DEF Verified
  <2>. QED BY <2>2, <2>6
<1>4. CASE Damage
  BY <1>4, DamageIInv
<1>5. CASE BeginVerify
  <2>1. Sealed'
    BY <1>5 DEF BeginVerify, Sealed
  <2>2. Verified'
    BY <1>5 DEF BeginVerify, Verified
  <2>. QED BY <2>1, <2>2
<1>6. CASE CheckLink
  BY <1>6, CheckIInv
<1>7. CASE ReportBreak
  <2>1. Sealed'
    BY <1>7 DEF ReportBreak, Sealed
  <2>2. Verified'
    BY <1>7 DEF ReportBreak, Verified, Checking
  <2>. QED BY <2>1, <2>2
<1>8. CASE ReportIntact
  <2>1. Sealed'
    BY <1>8 DEF ReportIntact, Sealed
  <2>2. Verified'
    BY <1>8, LinksFacts DEF ReportIntact, Verified
  <2>. QED BY <2>1, <2>2
<1>9. CASE UNCHANGED vars
  <2>1. Sealed'
    BY <1>9 DEF vars, Sealed
  <2>2. Verified'
    BY <1>9 DEF vars, Verified
  <2>. QED BY <2>1, <2>2
<1>. QED
  BY <1>1, <1>2, <1>3, <1>4, <1>5, <1>6, <1>7, <1>8, <1>9 DEF Next, Terminated

(* An archive that verifies and ends in the head the caller recorded is    *)
(* what was sealed, link for link, whatever was done to it in between.     *)
THEOREM HeadAnchors == Spec => []HeadAnchorsChain
<1>1. IInv => HeadAnchorsChain
  <2>. SUFFICES ASSUME IInv, verifier.stage = "intact", verifier.expected = head
                PROVE  archive = history
    BY DEF HeadAnchorsChain
  <2>. USE DEF IInv
  <2>1. Len(archive) \in Nat /\ verifier.next - 1 = Len(archive)
    BY LinksFacts DEF Verified
  <2>2. LinkedTo(archive, Len(archive)) /\ HashAt(archive, Len(archive)) = head
    BY <2>1 DEF Verified
  <2>3. head # NoHash
    BY <2>1, <2>2, NeverEmpty
  <2>4. HashAt(archive, Len(archive)) = HashAt(history, Len(history))
    BY <2>2, <2>3 DEF Verified, Sealed
  <2>. QED BY <2>2, <2>4, SameEndSameChain DEF Verified, Sealed
<1>. QED BY <1>1, InitIInv, StepIInv, PTL DEF Spec

(* As long as nothing was damaged, the archive and the call under way make *)
(* up the history, and a break is only reported where a run was started    *)
(* from an empty head.                                                     *)
Untouched ==
  /\ damage \in Nat
  /\ damage = 0 =>
       /\ history = archive \o (IF sealing.open THEN sealing.sealed ELSE <<>>)
       /\ verifier.stage = "broken" => BrokenByEmptyRun

LEMMA ConcatEmpty == ASSUME NEW a, AreLinks(a) PROVE a \o <<>> = a
  BY DEF AreLinks

LEMMA StepUntouched ==
  ASSUME IInv, Untouched, [Next]_vars PROVE Untouched'
<1>. USE DEF IInv
<1>0. AreLinks(archive) /\ AreLinks(sealing.sealed)
  BY DEF Sealed, Verified
<1>1. CASE BeginRun
  <2>1. /\ ~sealing.open /\ sealing'.open /\ sealing'.sealed = <<>>
        /\ UNCHANGED <<archive, history, damage, verifier>>
    BY <1>1 DEF BeginRun
  <2>. QED BY <2>1 DEF Untouched, BrokenByEmptyRun
<1>2. CASE \E batch \in Batches : Seal(batch)
  <2>1. PICK batch \in Batches : Seal(batch)
    BY <1>2
  <2>. DEFINE link == SealedLink(batch, sealing.prev)
  <2>2. /\ sealing.open /\ sealing'.open
        /\ sealing'.sealed = Append(sealing.sealed, link)
        /\ history' = Append(history, link)
        /\ UNCHANGED <<archive, damage, verifier>>
    BY <2>1 DEF Seal, Sealed
  <2>3. IsLink(link)
    BY SealedIsLink
  <2>. HIDE DEF link
  <2>4. Append(archive \o sealing.sealed, link)
          = archive \o Append(sealing.sealed, link)
    <3>. DEFINE S == Elements(archive) \cup Elements(sealing.sealed) \cup {link}
    <3>1. archive \in Seq(S) /\ sealing.sealed \in Seq(S) /\ link \in S
      BY <1>0 DEF AreLinks
    <3>. HIDE DEF S
    <3>. QED BY <3>1
  <2>. QED BY <2>2, <2>4 DEF Untouched, BrokenByEmptyRun
<1>3. CASE EndRun
  <2>1. /\ sealing.open /\ ~sealing'.open /\ verifier.stage = "idle"
        /\ archive' = archive \o sealing.sealed
        /\ UNCHANGED <<history, damage, verifier>>
    BY <1>3 DEF EndRun, Sealed, Verified
  <2>2. archive' \o <<>> = archive'
    BY <1>0, <2>1, ConcatLinks, ConcatEmpty
  <2>. QED BY <2>1, <2>2 DEF Untouched
<1>4. CASE Damage
  <2>1. damage' = damage + 1
    BY <1>4 DEF Damage, Alter, AlterPrev, Drop, Swap, Reseal, Damaging
  <2>. QED BY <2>1 DEF Untouched
<1>5. CASE ReportBreak
  <2>1. /\ verifier.next <= Len(archive) /\ ~Sound(archive[verifier.next])
        /\ UNCHANGED <<sealing, archive, history, damage>>
        /\ verifier.stage = "checking"
    BY <1>5 DEF ReportBreak, Checking, Link
  <2>2. ASSUME damage = 0 PROVE BrokenByEmptyRun'
    <3>1. history = archive
      <4>1. history = archive \o <<>>
        BY <2>1, <2>2 DEF Untouched, Verified
      <4>. QED BY <1>0, <4>1, ConcatEmpty
    <3>2. verifier.next \in 1..Len(archive)
      BY <2>1, LinksFacts DEF Verified
    <3>3. archive[verifier.next].prev = NoHash
      BY <2>1, <3>1, <3>2 DEF Sealed, Verified, SealedTo, Sound
    <3>4. verifier'.brokenAt + 1 = verifier.next
      BY <1>5, <3>2 DEF ReportBreak, Verified
    <3>. QED BY <2>1, <3>3, <3>4 DEF BrokenByEmptyRun
  <2>. QED BY <2>1, <2>2 DEF Untouched
<1>6. CASE BeginVerify \/ CheckLink \/ ReportIntact
  <2>1. /\ UNCHANGED <<sealing, archive, history, damage>>
        /\ verifier'.stage # "broken"
    BY <1>6 DEF BeginVerify, CheckLink, ReportIntact, Checking, Verified
  <2>. QED BY <2>1 DEF Untouched
<1>7. CASE UNCHANGED vars
  BY <1>7 DEF vars, Untouched, BrokenByEmptyRun
<1>. QED
  BY <1>1, <1>2, <1>3, <1>4, <1>5, <1>6, <1>7 DEF Next, Terminated

(* A chain sealed in any number of runs, and left alone, verifies, unless  *)
(* the link reported was the first after the head of an empty run.         *)
THEOREM UntouchedIntact == Spec => []UntouchedVerifies
<1>1. Init => Untouched
  <2>. SUFFICES ASSUME Init PROVE Untouched
    OBVIOUS
  <2>1. history = <<>> /\ archive = <<>> /\ <<>> \o <<>> = <<>>
    BY DEF Init
  <2>. QED BY <2>1 DEF Init, Untouched
<1>2. Untouched => UntouchedVerifies
  BY DEF Untouched, UntouchedVerifies
<1>3. IInv /\ Untouched /\ [Next]_vars => Untouched'
  BY StepUntouched
<1>. QED BY <1>1, <1>2, <1>3, InitIInv, StepIInv, PTL DEF Spec

Upto(s, n) == SubSeq(s, 1, n)

LEMMA UptoFacts ==
  ASSUME NEW s, AreLinks(s), NEW n \in 0..Len(s)
  PROVE  /\ AreLinks(Upto(s, n)) /\ Len(Upto(s, n)) = n
         /\ \A k \in 1..n : Upto(s, n)[k] = s[k]
         /\ HashAt(Upto(s, n), n) = HashAt(s, n)
<1>. DEFINE S == Elements(s)
            p == SubSeq(s, 1, n)
<1>1. s \in Seq(S) /\ \A x \in S : IsLink(x)
  BY DEF AreLinks
<1>. HIDE DEF S
<1>2. Len(s) \in Nat /\ n \in Int /\ 1 \in Int /\ \A i \in 1..n : s[i] \in S
  BY <1>1
<1>3. /\ p \in Seq(S)
      /\ Len(p) = IF 1 <= n THEN n - 1 + 1 ELSE 0
      /\ \A i \in 1..(n - 1 + 1) : p[i] = s[1 + i - 1]
  BY <1>2, SubSeqProperties
<1>4. Len(p) = n /\ \A k \in 1..n : p[k] = s[k]
  BY <1>2, <1>3
<1>5. HashAt(p, n) = HashAt(s, n)
  BY <1>2, <1>4 DEF HashAt
<1>6. AreLinks(p)
  BY <1>1, <1>3, LinksOfSeq
<1>. QED BY <1>4, <1>5, <1>6 DEF Upto

(* A linked prefix whose last hash occurs in a sealed sequence is a prefix *)
(* of that sequence.                                                       *)
LEMMA LinkedIsPrefix ==
  ASSUME NEW a, NEW b, AreLinks(a), AreLinks(b), SealedTo(b, Len(b)),
         NEW n \in 0..Len(a), LinkedTo(a, n),
         n > 0 => \E j \in 1..Len(b) : a[n].hash = b[j].hash
  PROVE  n <= Len(b) /\ Upto(a, n) = Upto(b, n)
<1>0. Len(a) \in Nat /\ Len(b) \in Nat /\ n \in Nat
  BY LinksFacts
<1>1. PICK j \in 0..Len(b) : HashAt(a, n) = HashAt(b, j)
  BY <1>0 DEF HashAt
<1>. DEFINE p == Upto(a, n)
            q == Upto(b, j)
<1>2. /\ AreLinks(p) /\ Len(p) = n /\ HashAt(p, n) = HashAt(a, n)
      /\ \A k \in 1..n : p[k] = a[k]
  BY UptoFacts
<1>3. /\ AreLinks(q) /\ Len(q) = j /\ HashAt(q, j) = HashAt(b, j)
      /\ \A k \in 1..j : q[k] = b[k]
  BY UptoFacts
<1>. HIDE DEF p, q
<1>4. LinkedTo(p, n)
  <2>. SUFFICES ASSUME NEW k \in 1..n
                PROVE  p[k].prev = HashAt(p, k - 1) /\ p[k].hash = LinkHash(p[k].batch, p[k].prev)
    BY DEF LinkedTo
  <2>1. HashAt(p, k - 1) = HashAt(a, k - 1)
    BY <1>0, <1>2 DEF HashAt
  <2>. QED BY <1>2, <2>1 DEF LinkedTo
<1>5. SealedTo(q, j)
  <2>. SUFFICES ASSUME NEW k \in 1..j
                PROVE  /\ q[k].prev \in {HashAt(q, k - 1), NoHash}
                       /\ q[k].hash = LinkHash(q[k].batch, q[k].prev)
    BY DEF SealedTo
  <2>1. HashAt(q, k - 1) = HashAt(b, k - 1) /\ k \in 1..Len(b)
    BY <1>0, <1>3 DEF HashAt
  <2>. QED BY <1>3, <2>1 DEF SealedTo
<1>6. p = q
  BY <1>1, <1>2, <1>3, <1>4, <1>5, SameEndSameChain
<1>7. n = j
  BY <1>2, <1>3, <1>6
<1>. QED BY <1>0, <1>6, <1>7 DEF p, q

(* What a reported break keeps true: it is at the link that was next.      *)
Reported ==
  verifier.stage = "broken" =>
    /\ verifier.next \in 1..Len(archive)
    /\ verifier.brokenAt = verifier.next - 1
    /\ ~Sound(archive[verifier.next])

LEMMA StepReported == ASSUME IInv, Reported, [Next]_vars PROVE Reported'
<1>. USE DEF IInv
<1>1. CASE ReportBreak
  <2>1. /\ verifier.next <= Len(archive) /\ ~Sound(archive[verifier.next])
        /\ verifier' = [verifier EXCEPT !.stage = "broken", !.brokenAt = verifier.next - 1]
        /\ archive' = archive
    BY <1>1 DEF ReportBreak, Checking, Link
  <2>2. /\ verifier'.next = verifier.next /\ verifier'.brokenAt = verifier.next - 1
        /\ verifier'.expected = verifier.expected
    BY <2>1 DEF Verified
  <2>3. verifier.next \in 1..Len(archive)
    BY <2>1, LinksFacts DEF Verified
  <2>. QED BY <2>1, <2>2, <2>3 DEF Reported, Sound
<1>2. CASE BeginRun \/ EndRun \/ Damage \/ \E batch \in Batches : Seal(batch)
  <2>1. verifier'.stage # "broken"
    BY <1>2 DEF BeginRun, EndRun, Seal, Damage, Alter, Reseal, AlterPrev, Swap, Drop,
                Damaging, Verified
  <2>. QED BY <2>1 DEF Reported
<1>3. CASE BeginVerify \/ CheckLink \/ ReportIntact
  <2>1. verifier'.stage # "broken"
    BY <1>3 DEF BeginVerify, CheckLink, ReportIntact, Checking, Verified
  <2>. QED BY <2>1 DEF Reported
<1>4. CASE UNCHANGED vars
  BY <1>4 DEF vars, Reported, Sound
<1>. QED BY <1>1, <1>2, <1>3, <1>4 DEF Next, Terminated

(* Whatever was dropped, swapped or altered, as long as no hash was made   *)
(* up: what verifies is a prefix of what was sealed, and a break is        *)
(* reported after a prefix of it, at a link that is not the one sealed     *)
(* there or that was sealed after an empty run.                            *)
THEOREM DamageLocated == Spec => []VerdictLocatesDamage
<1>1. IInv /\ Reported => VerdictLocatesDamage
  <2>. SUFFICES ASSUME IInv, Reported,
                       {archive[k].hash : k \in DOMAIN archive}
                         \subseteq {history[k].hash : k \in DOMAIN history}
                PROVE  /\ verifier.stage = "intact" => IsPrefix(archive, history)
                       /\ verifier.stage = "broken" =>
                            /\ SubSeq(archive, 1, verifier.brokenAt)
                                 = SubSeq(history, 1, verifier.brokenAt)
                            /\ \/ BrokenByEmptyRun
                               \/ ~IsPrefix(SubSeq(archive, 1, verifier.brokenAt + 1), history)
    BY DEF VerdictLocatesDamage
  <2>. USE DEF IInv
  <2>0. /\ AreLinks(archive) /\ AreLinks(history) /\ SealedTo(history, Len(history))
        /\ DOMAIN archive = 1..Len(archive) /\ DOMAIN history = 1..Len(history)
        /\ Len(archive) \in Nat /\ Len(history) \in Nat
    BY LinksFacts DEF Verified, Sealed
  <2>1. \A k \in 1..Len(archive) : \E j \in 1..Len(history) : archive[k].hash = history[j].hash
    BY <2>0
  <2>. DEFINE n == verifier.next - 1
  <2>2. n \in 0..Len(archive) /\ LinkedTo(archive, n) /\ verifier.expected = HashAt(archive, n)
    BY <2>0 DEF Verified
  <2>3. n <= Len(history) /\ Upto(archive, n) = Upto(history, n)
    BY <2>0, <2>1, <2>2, LinkedIsPrefix
  <2>4. ASSUME verifier.stage = "intact" PROVE IsPrefix(archive, history)
    <3>1. n = Len(archive)
      BY <2>0, <2>4 DEF Verified
    <3>. QED BY <2>3, <3>1 DEF IsPrefix, Upto
  <2>5. ASSUME verifier.stage = "broken",
               IsPrefix(SubSeq(archive, 1, verifier.brokenAt + 1), history)
        PROVE  BrokenByEmptyRun
    <3>. DEFINE m == verifier.next
                p == Upto(archive, m)
    <3>1. m \in 1..Len(archive) /\ verifier.brokenAt + 1 = m /\ ~Sound(archive[m])
      BY <2>5 DEF Reported
    <3>2. AreLinks(p) /\ Len(p) = m /\ p[m] = archive[m] /\ \A k \in 1..m : p[k] = archive[k]
      BY <2>0, <3>1, UptoFacts
    <3>3. /\ m <= Len(history) /\ Upto(p, m) = Upto(history, m)
      BY <2>5, <3>1, <3>2 DEF IsPrefix, Upto
    <3>4. \A k \in 1..m : archive[k] = history[k]
      <4>1. m \in 0..Len(p) /\ m \in 0..Len(history)
        BY <2>0, <3>1, <3>2, <3>3
      <4>2. \A k \in 1..m : Upto(p, m)[k] = p[k]
        BY <3>2, <4>1, UptoFacts
      <4>3. \A k \in 1..m : Upto(history, m)[k] = history[k]
        BY <2>0, <4>1, UptoFacts
      <4>. QED BY <3>2, <3>3, <4>2, <4>3
    <3>5. HashAt(history, m - 1) = HashAt(archive, m - 1) /\ m \in 1..Len(history) /\ n = m - 1
      BY <2>0, <3>1, <3>3, <3>4 DEF HashAt
    <3>6. archive[m] = history[m] /\ verifier.expected = HashAt(history, m - 1)
      BY <2>2, <3>1, <3>4, <3>5
    <3>. HIDE DEF m
    <3>7. archive[m].prev = NoHash
      BY <2>0, <3>1, <3>5, <3>6 DEF SealedTo, Sound
    <3>. QED BY <3>1, <3>7 DEF BrokenByEmptyRun
  <2>6. ASSUME verifier.stage = "broken" PROVE verifier.brokenAt = n
    BY <2>6 DEF Reported
  <2>. QED BY <2>3, <2>4, <2>5, <2>6 DEF Upto
<1>2. Init => Reported
  BY DEF Init, Reported
<1>3. IInv /\ Reported /\ [Next]_vars => Reported'
  BY StepReported
<1>. QED BY <1>1, <1>2, <1>3, InitIInv, StepIInv, PTL DEF Spec

-----------------------------------------------------------------------------
AllSealed(s) == \A x \in Elements(s) : IsSealed(x)

LEMMA UpdateSealed ==
  ASSUME NEW s, AreLinks(s), AllSealed(s), NEW k, NEW e, IsSealed(e)
  PROVE  AllSealed([s EXCEPT ![k] = e])
BY LinksFacts DEF AllSealed, Elements

LEMMA RemoveSealed ==
  ASSUME NEW s, AreLinks(s), AllSealed(s), NEW k \in 1..Len(s)
  PROVE  AllSealed(RemoveAt(s, k))
<1>1. s \in Seq(Elements(s)) /\ Len(s) \in Nat /\ k \in Nat
  BY LinksFacts DEF AreLinks
<1>2. SubSeq(s, 1, k - 1) \in Seq(Elements(s)) /\ SubSeq(s, k + 1, Len(s)) \in Seq(Elements(s))
  BY <1>1, SubSeqProperties
<1>3. RemoveAt(s, k) \in Seq(Elements(s))
  BY <1>2 DEF RemoveAt
<1>4. \A j \in DOMAIN RemoveAt(s, k) : RemoveAt(s, k)[j] \in Elements(s)
  BY <1>3
<1>. QED BY <1>4 DEF AllSealed, Elements

LEMMA ConcatSealed ==
  ASSUME NEW s, NEW t, AreLinks(s), AreLinks(t), AllSealed(s), AllSealed(t)
  PROVE  AllSealed(s \o t)
<1>. DEFINE S == Elements(s) \cup Elements(t)
<1>1. s \in Seq(S) /\ t \in Seq(S) /\ \A x \in S : IsSealed(x)
  BY DEF AreLinks, AllSealed
<1>. HIDE DEF S
<1>2. s \o t \in Seq(S)
  BY <1>1
<1>3. \A j \in DOMAIN (s \o t) : (s \o t)[j] \in S
  BY <1>2
<1>. QED BY <1>1, <1>3 DEF AllSealed, Elements

(* What a damaged link still is. *)
LEMMA DamagedSealed ==
  ASSUME NEW s, AreLinks(s), AllSealed(s), NEW k \in 1..Len(s), NEW j \in 1..Len(s),
         NEW batch \in Batches
  PROVE  /\ IsSealed(s[k]) /\ IsSealed(s[j])
         /\ IsSealed([s[k] EXCEPT !.batch = batch])
         /\ IsSealed([s[k] EXCEPT !.prev = s[j].hash])
         /\ IsSealed(SealedLink(batch, s[k].prev))
<1>1. IsSealed(s[k]) /\ IsSealed(s[j]) /\ IsLink(s[k])
  BY LinksFacts DEF AllSealed, Elements
<1>2. PICK x : x = s[k]
  OBVIOUS
<1>3. PICK h : h = s[j].hash /\ IsLinkHash(h)
  BY <1>1 DEF IsSealed
<1>4. /\ [x EXCEPT !.batch = batch] = [batch |-> batch, prev |-> x.prev, hash |-> x.hash]
      /\ [x EXCEPT !.prev = h] = [batch |-> x.batch, prev |-> h, hash |-> x.hash]
  BY <1>1, <1>2 DEF IsLink
<1>5. /\ x.batch \in Batches /\ IsLinkHash(x.hash)
      /\ x.prev \in {Genesis, NoHash} \/ IsLinkHash(x.prev)
  BY <1>1, <1>2 DEF IsSealed
<1>6. IsSealed([x EXCEPT !.batch = batch]) /\ IsSealed([x EXCEPT !.prev = h])
  BY <1>3, <1>4, <1>5 DEF IsSealed
<1>7. IsLinkHash(LinkHash(batch, x.prev))
  BY DEF IsLinkHash, LinkHash
<1>8. IsSealed(SealedLink(batch, x.prev))
  BY <1>5, <1>7, SealedIsLink DEF IsSealed
<1>. QED BY <1>1, <1>2, <1>3, <1>6, <1>8

LEMMA DamageSealed ==
  ASSUME IInv, AllSealed(archive), Damage PROVE AllSealed(archive')
<1>0. AreLinks(archive) /\ DOMAIN archive = 1..Len(archive)
  BY LinksFacts DEF IInv, Verified
<1>1. PICK k \in 1..Len(archive) :
         \/ \E batch \in Batches : Alter(k, batch) \/ Reseal(k, batch)
         \/ \E j \in 1..Len(archive) : AlterPrev(k, j) \/ Swap(k, j)
         \/ Drop(k)
  BY <1>0 DEF Damage
<1>2. CASE \E batch \in Batches : Alter(k, batch)
  <2>1. PICK batch \in Batches :
           archive' = [archive EXCEPT ![k] = [archive[k] EXCEPT !.batch = batch]]
    BY <1>2 DEF Alter
  <2>. QED BY <1>0, <2>1, DamagedSealed, UpdateSealed
<1>3. CASE \E batch \in Batches : Reseal(k, batch)
  <2>1. PICK batch \in Batches :
           archive' = [archive EXCEPT ![k] = SealedLink(batch, archive[k].prev)]
    BY <1>3 DEF Reseal
  <2>. QED BY <1>0, <2>1, DamagedSealed, UpdateSealed
<1>4. CASE \E j \in 1..Len(archive) : AlterPrev(k, j)
  <2>1. PICK j \in 1..Len(archive) :
           archive' = [archive EXCEPT ![k] = [archive[k] EXCEPT !.prev = archive[j].hash]]
    BY <1>4 DEF AlterPrev
  <2>2. archive[k].batch \in Batches
    BY <1>0 DEF AllSealed, Elements, IsSealed
  <2>. QED BY <1>0, <2>1, <2>2, DamagedSealed, UpdateSealed
<1>5. CASE \E j \in 1..Len(archive) : Swap(k, j)
  <2>1. PICK j \in 1..Len(archive) :
           archive' = [[archive EXCEPT ![k] = archive[j]] EXCEPT ![j] = archive[k]]
    BY <1>5 DEF Swap
  <2>2. /\ IsSealed(archive[k]) /\ IsSealed(archive[j])
        /\ IsLink(archive[j])
    BY <1>0, LinksFacts DEF AllSealed, Elements
  <2>3. AllSealed([archive EXCEPT ![k] = archive[j]]) /\ AreLinks([archive EXCEPT ![k] = archive[j]])
    BY <1>0, <2>2, UpdateSealed, UpdateLinks
  <2>. QED BY <2>1, <2>2, <2>3, UpdateSealed
<1>6. CASE Drop(k)
  BY <1>0, <1>6, RemoveSealed DEF Drop
<1>. QED BY <1>1, <1>2, <1>3, <1>4, <1>5, <1>6

LastLinks ==
  /\ Len(sealing.sealed) <= Len(history)
  /\ \A k \in DOMAIN sealing.sealed :
       sealing.sealed[k] = history[Len(history) - Len(sealing.sealed) + k]

Counted == runs \in 0..MaxRuns /\ Len(history) <= MaxLinks /\ damage \in 0..MaxDamage

VerifierTyped ==
  /\ verifier.stage \in {"idle", "checking", "intact", "broken"}
  /\ verifier.stage # "broken" => verifier.brokenAt = NoBreak

TypeInv ==
  /\ sealing.prev \in Known /\ head \in Known
  /\ AllSealed(history) /\ AllSealed(archive)
  /\ LastLinks /\ Counted /\ VerifierTyped

LEMMA KnownGrows ==
  ASSUME NEW link, AreLinks(history), IsLink(link), history' = Append(history, link)
  PROVE  Known \subseteq Known' /\ link.hash \in Known'
<1>1. /\ Len(history') = Len(history) + 1 /\ Len(history) \in Nat
      /\ \A k \in 1..Len(history) : history'[k] = history[k]
      /\ history'[Len(history) + 1] = link
      /\ DOMAIN history = 1..Len(history) /\ DOMAIN history' = 1..Len(history')
  BY AppendLink, LinksFacts
<1>. QED BY <1>1 DEF Known

LEMMA SealTyped ==
  ASSUME IInv, TypeInv, NEW batch \in Batches, Seal(batch) PROVE TypeInv'
<1>. DEFINE link == SealedLink(batch, sealing.prev)
<1>1. /\ sealing.open /\ history' = Append(history, link)
      /\ sealing' = [sealing EXCEPT !.prev = link.hash, !.sealed = Append(@, link)]
      /\ UNCHANGED <<runs, head, archive, damage, verifier>>
      /\ Len(history) < MaxLinks
  BY DEF Seal
<1>2. /\ IsLink(link) /\ link.batch = batch /\ link.prev = sealing.prev
      /\ link.hash = LinkHash(batch, sealing.prev)
  BY SealedIsLink
<1>3. IsSealed(link)
  <2>1. sealing.prev \in {Genesis, NoHash} \/ IsLinkHash(sealing.prev)
    BY DEF TypeInv, Known, AllSealed, Elements, IsSealed
  <2>2. IsLinkHash(LinkHash(batch, sealing.prev))
    BY DEF IsLinkHash, LinkHash
  <2>. QED BY <1>2, <2>1, <2>2 DEF IsSealed
<1>. HIDE DEF link
<1>4. /\ AreLinks(history) /\ AreLinks(sealing.sealed)
      /\ sealing'.prev = link.hash /\ sealing'.sealed = Append(sealing.sealed, link)
  BY <1>1 DEF IInv, Sealed
<1>5. /\ Len(history') = Len(history) + 1 /\ Len(history) \in Nat
      /\ \A k \in 1..Len(history) : history'[k] = history[k]
      /\ history'[Len(history) + 1] = link
      /\ DOMAIN history = 1..Len(history) /\ DOMAIN history' = 1..(Len(history) + 1)
  BY <1>1, <1>2, <1>4, AppendLink, LinksFacts
<1>6. /\ Len(sealing'.sealed) = Len(sealing.sealed) + 1 /\ Len(sealing.sealed) \in Nat
      /\ \A k \in 1..Len(sealing.sealed) : sealing'.sealed[k] = sealing.sealed[k]
      /\ sealing'.sealed[Len(sealing.sealed) + 1] = link
      /\ DOMAIN sealing.sealed = 1..Len(sealing.sealed)
      /\ DOMAIN sealing'.sealed = 1..(Len(sealing.sealed) + 1)
  BY <1>2, <1>4, AppendLink, LinksFacts
<1>7. AllSealed(history')
  BY <1>3, <1>5 DEF TypeInv, AllSealed, Elements
<1>8. LastLinks'
  <2>1. Len(sealing.sealed) <= Len(history)
    BY DEF TypeInv, LastLinks
  <2>2. ASSUME NEW k \in 1..(Len(sealing.sealed) + 1)
        PROVE  sealing'.sealed[k] = history'[Len(history') - Len(sealing'.sealed) + k]
    <3>1. Len(history') - Len(sealing'.sealed) + k = Len(history) - Len(sealing.sealed) + k
      BY <1>5, <1>6
    <3>2. CASE k \in 1..Len(sealing.sealed)
      <4>1. Len(history) - Len(sealing.sealed) + k \in 1..Len(history)
        BY <1>5, <1>6, <2>1, <3>2
      <4>. QED BY <1>5, <1>6, <3>1, <3>2, <4>1 DEF TypeInv, LastLinks
    <3>3. CASE k = Len(sealing.sealed) + 1
      <4>1. \A m, n \in Nat : m - n + (n + 1) = m + 1
        OBVIOUS
      <4>2. Len(history) - Len(sealing.sealed) + k = Len(history) + 1
        <5>1. Len(history) \in Nat /\ Len(sealing.sealed) \in Nat
          BY <1>5, <1>6
        <5>. QED BY <3>3, <4>1, <5>1, Zenon
      <4>3. sealing'.sealed[k] = link
        BY <1>6, <3>3, Zenon
      <4>4. history'[Len(history) - Len(sealing.sealed) + k] = link
        BY <1>5, <4>2, Zenon
      <4>. QED BY <3>1, <4>3, <4>4, Zenon
    <3>4. k \in 1..Len(sealing.sealed) \/ k = Len(sealing.sealed) + 1
      BY <1>6
    <3>. QED BY <3>2, <3>3, <3>4
  <2>3. Len(sealing'.sealed) <= Len(history')
    BY <1>5, <1>6, <2>1
  <2>. QED BY <1>6, <2>2, <2>3 DEF LastLinks
<1>9. sealing'.prev \in Known' /\ head' \in Known'
  BY <1>1, <1>2, <1>4, KnownGrows DEF TypeInv
<1>10. Counted'
  BY <1>1, <1>5, BoundAssumption DEF TypeInv, Counted
<1>. QED BY <1>1, <1>7, <1>8, <1>9, <1>10 DEF TypeInv, AllSealed, Elements, VerifierTyped

LEMMA EndTyped ==
  ASSUME IInv, TypeInv, EndRun PROVE TypeInv'
<1>1. /\ archive' = archive \o sealing.sealed
      /\ head' = ChainHead(sealing.sealed)
      /\ sealing'.prev = sealing.prev /\ sealing'.sealed = sealing.sealed
      /\ UNCHANGED <<runs, history, damage, verifier>>
  BY DEF EndRun, IInv, Sealed
<1>2. /\ AreLinks(archive) /\ AreLinks(sealing.sealed) /\ AreLinks(history)
      /\ DOMAIN history = 1..Len(history) /\ Len(history) \in Nat
      /\ DOMAIN sealing.sealed = 1..Len(sealing.sealed) /\ Len(sealing.sealed) \in Nat
  BY LinksFacts DEF IInv, Sealed, Verified
<1>3. \A k \in 1..Len(sealing.sealed) :
        Len(history) - Len(sealing.sealed) + k \in 1..Len(history)
  BY <1>2 DEF TypeInv, LastLinks
<1>4. \A k \in 1..Len(sealing.sealed) : \E j \in 1..Len(history) : sealing.sealed[k] = history[j]
  BY <1>2, <1>3 DEF TypeInv, LastLinks
<1>5. AllSealed(archive')
  <2>1. AllSealed(sealing.sealed)
    BY <1>2, <1>4 DEF TypeInv, AllSealed, Elements
  <2>. QED BY <1>1, <1>2, <2>1, ConcatSealed DEF TypeInv
<1>6. head' \in Known
  <2>1. CASE sealing.sealed = <<>>
    BY <1>1, <2>1 DEF ChainHead, Known
  <2>2. CASE sealing.sealed # <<>>
    <3>1. Len(sealing.sealed) \in 1..Len(sealing.sealed)
      <4>1. sealing.sealed \in Seq(Elements(sealing.sealed))
        BY <1>2 DEF AreLinks
      <4>. QED BY <2>2, <4>1, EmptySeq
    <3>2. head' = sealing.sealed[Len(sealing.sealed)].hash
      BY <1>1, <2>2 DEF ChainHead, Last
    <3>. QED BY <1>2, <1>4, <3>1, <3>2 DEF Known
  <2>. QED BY <2>1, <2>2
<1>. QED BY <1>1, <1>5, <1>6 DEF TypeInv, Known, AllSealed, Elements, LastLinks, Counted, VerifierTyped

LEMMA StepTyped ==
  ASSUME IInv, Reported, TypeInv, [Next]_vars PROVE TypeInv'
<1>1. CASE BeginRun
  <2>1. /\ sealing'.prev = head /\ sealing'.sealed = <<>> /\ runs' = runs + 1 /\ runs < MaxRuns
        /\ UNCHANGED <<head, archive, history, damage, verifier>>
    BY <1>1 DEF BeginRun
  <2>2. LastLinks'
    BY <2>1, LinksFacts DEF LastLinks, IInv, Sealed
  <2>3. Counted'
    BY <2>1, BoundAssumption DEF TypeInv, Counted
  <2>. QED BY <2>1, <2>2, <2>3 DEF TypeInv, Known, AllSealed, Elements, VerifierTyped
<1>2. CASE \E batch \in Batches : Seal(batch)
  BY <1>2, SealTyped
<1>3. CASE EndRun
  BY <1>3, EndTyped
<1>4. CASE Damage
  <2>1. /\ UNCHANGED <<sealing, runs, head, history, verifier>>
        /\ damage < MaxDamage /\ damage' = damage + 1
    BY <1>4 DEF Damage, Alter, Reseal, AlterPrev, Swap, Drop, Damaging
  <2>2. AllSealed(archive')
    BY <1>4, DamageSealed DEF TypeInv
  <2>3. Counted'
    BY <2>1, BoundAssumption DEF TypeInv, Counted
  <2>. QED BY <2>1, <2>2, <2>3 DEF TypeInv, Known, AllSealed, Elements, LastLinks, VerifierTyped
<1>5. CASE BeginVerify \/ CheckLink \/ ReportBreak \/ ReportIntact
  <2>1. UNCHANGED <<sealing, runs, head, archive, history, damage>>
    BY <1>5 DEF BeginVerify, CheckLink, ReportBreak, ReportIntact
  <2>2. VerifierTyped'
    BY <1>5 DEF BeginVerify, CheckLink, ReportBreak, ReportIntact, TypeInv, VerifierTyped,
                Checking, IInv, Verified
  <2>. QED BY <2>1, <2>2 DEF TypeInv, Known, AllSealed, Elements, LastLinks, Counted
<1>6. CASE UNCHANGED vars
  BY <1>6 DEF vars, TypeInv, Known, AllSealed, Elements, LastLinks, Counted, VerifierTyped
<1>. QED BY <1>1, <1>2, <1>3, <1>4, <1>5, <1>6 DEF Next, Terminated

(* The caller never holds a head that was not returned or sealed, a run    *)
(* has sealed the last links of the history, damage leaves links of some    *)
(* batch whose hash is the hash of some batch, and a break is within the    *)
(* archive.                                                                *)
THEOREM ChainTyped == Spec => []TypeOK
<1>1. IInv /\ Reported /\ TypeInv => TypeOK
  <2>. SUFFICES ASSUME IInv, Reported, TypeInv PROVE TypeOK
    OBVIOUS
  <2>1. /\ DOMAIN history = 1..Len(history) /\ DOMAIN archive = 1..Len(archive)
        /\ Len(archive) \in Nat
    BY LinksFacts DEF IInv, Sealed, Verified
  <2>2. verifier.brokenAt \in {NoBreak} \cup 0..(Len(archive) - 1)
    BY <2>1 DEF TypeInv, VerifierTyped, Reported
  <2>. QED BY <2>1, <2>2 DEF IInv, Sealed, Verified, TypeInv, AllSealed, Elements, LastLinks,
                              Counted, VerifierTyped, TypeOK
<1>2. Init => TypeInv
  <2>. SUFFICES ASSUME Init PROVE TypeInv
    OBVIOUS
  <2>1. history = <<>> /\ archive = <<>> /\ sealing.sealed = <<>> /\ Len(<<>>) = 0
    BY NoLinks DEF Init
  <2>2. Elements(<<>>) = {}
    BY DEF Elements
  <2>. QED BY <2>1, <2>2, BoundAssumption DEF Init, TypeInv, Known, AllSealed, LastLinks, Counted,
                                             VerifierTyped
<1>3. Init => Reported
  BY DEF Init, Reported
<1>4. IInv /\ Reported /\ [Next]_vars => Reported'
  BY StepReported
<1>5. IInv /\ Reported /\ TypeInv /\ [Next]_vars => TypeInv'
  BY StepTyped
<1>. QED BY <1>1, <1>2, <1>3, <1>4, <1>5, InitIInv, StepIInv, PTL DEF Spec
===============================================================================
