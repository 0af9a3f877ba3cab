------------------------------ MODULE BatchChain ------------------------------
(***************************************************************************)
(* seal_chain and verify_chain (src/src/batch_chain.rs), with the caller   *)
(* the doc comment describes: it seals its batches in one or more runs,    *)
(* each starting from the head the last one returned, keeps the sealed     *)
(* links in an archive that may be damaged, and verifies the archive.      *)
(* A run without batches returns an empty head, and the next run starts    *)
(* from that.                                                              *)
(*                                                                         *)
(* A hash is the record of what was hashed: equal hashes come from equal   *)
(* inputs. The five hashed texts are joined by a separator that the four   *)
(* last ones, hexadecimal digests, cannot contain, so the join is          *)
(* injective too.                                                          *)
(***************************************************************************)
EXTENDS Integers, Sequences, SequencesExt

CONSTANTS
  Batches,     \* declared batches: the id and the three artifact hashes
  MaxLinks,    \* links sealed in all
  MaxRuns,     \* calls of seal_chain
  MaxDamage    \* how often the archive is damaged

ASSUME BoundAssumption == MaxLinks \in Nat /\ MaxRuns \in Nat /\ MaxDamage \in Nat

Genesis == [kind |-> "genesis"]
NoHash == [kind |-> "empty"]
LinkHash(batch, prev) == [kind |-> "hash", batch |-> batch, prev |-> prev]

SealedLink(batch, prev) ==
  [batch |-> batch, prev |-> prev, hash |-> LinkHash(batch, prev)]

VARIABLES
  sealing,   \* the call of seal_chain under way: [open, prev, sealed]
  runs,      \* calls of seal_chain so far
  head,      \* chain_head of the last run
  archive,   \* the sealed links the caller keeps
  history,   \* every link sealed, as it was sealed
  damage,    \* how often the archive was damaged
  verifier   \* the call of verify_chain: [stage, next, expected, brokenAt]

vars == <<sealing, runs, head, archive, history, damage, verifier>>

NoBreak == -1

Init ==
  /\ sealing = [open |-> FALSE, prev |-> Genesis, sealed |-> <<>>]
  /\ runs = 0
  /\ head = Genesis
  /\ archive = <<>>
  /\ history = <<>>
  /\ damage = 0
  /\ verifier = [stage |-> "idle", next |-> 1, expected |-> Genesis,
                 brokenAt |-> NoBreak]

(* Mutant of BeginRun: every run starts a chain of its own. *)
BeginRunFresh ==
  /\ ~sealing.open /\ verifier.stage = "idle" /\ damage = 0
  /\ runs < MaxRuns
  /\ runs' = runs + 1
  /\ sealing' = [open |-> TRUE, prev |-> Genesis, sealed |-> <<>>]
  /\ UNCHANGED <<head, archive, history, damage, verifier>>

(* seal_chain is called with the head of the existing chain. *)
BeginRun ==
  /\ ~sealing.open /\ verifier.stage = "idle" /\ damage = 0
  /\ runs < MaxRuns
  /\ runs' = runs + 1
  /\ sealing' = [open |-> TRUE, prev |-> head, sealed |-> <<>>]
  /\ UNCHANGED <<head, archive, history, damage, verifier>>

Seal(batch) ==
  LET link == SealedLink(batch, sealing.prev) IN
  /\ sealing.open
  /\ Len(history) < MaxLinks
  /\ sealing' = [sealing EXCEPT !.prev = link.hash, !.sealed = Append(@, link)]
  /\ history' = Append(history, link)
  /\ UNCHANGED <<runs, head, archive, damage, verifier>>

(* chain_head = sealed.last().link_hash, or the empty string.              *)
ChainHead(sealed) == IF sealed = <<>> THEN NoHash ELSE Last(sealed).hash

EndRun ==
  /\ sealing.open
  /\ archive' = archive \o sealing.sealed
  /\ head' = ChainHead(sealing.sealed)
  /\ sealing' = [sealing EXCEPT !.open = FALSE]
  /\ UNCHANGED <<runs, history, damage, verifier>>

(* What can happen to an archive between sealing and verification.         *)
Damaging ==
  /\ ~sealing.open /\ verifier.stage = "idle"
  /\ damage < MaxDamage
  /\ damage' = damage + 1
  /\ UNCHANGED <<sealing, runs, head, history, verifier>>

Alter(k, batch) ==
  /\ Damaging
  /\ batch # archive[k].batch
  /\ archive' = [archive EXCEPT ![k].batch = batch]

AlterPrev(k, j) ==
  /\ Damaging
  /\ archive' = [archive EXCEPT ![k].prev = archive[j].hash]

Drop(k) ==
  /\ Damaging
  /\ archive' = RemoveAt(archive, k)

Swap(k, j) ==
  /\ Damaging
  /\ k < j
  /\ archive' = [archive EXCEPT ![k] = archive[j], ![j] = archive[k]]

(* The damage recomputes the link hash it invalidates. *)
Reseal(k, batch) ==
  /\ Damaging
  /\ archive' = [archive EXCEPT ![k] = SealedLink(batch, archive[k].prev)]

Damage ==
  \E k \in DOMAIN archive :
    \/ \E batch \in Batches : Alter(k, batch) \/ Reseal(k, batch)
    \/ \E j \in DOMAIN archive : AlterPrev(k, j) \/ Swap(k, j)
    \/ Drop(k)

BeginVerify ==
  /\ ~sealing.open /\ verifier.stage = "idle"
  /\ verifier' = [verifier EXCEPT !.stage = "checking"]
  /\ UNCHANGED <<sealing, runs, head, archive, history, damage>>

Checking == verifier.stage = "checking" /\ verifier.next <= Len(archive)
Link == archive[verifier.next]

(* Mutant of Sound: only the hash is recomputed. *)
SoundHashOnly(link) == link.hash = LinkHash(link.batch, link.prev)

(* A link passes when it names its predecessor's hash and its own hash     *)
(* recomputes from what it holds.                                          *)
Sound(link) ==
  link.prev = verifier.expected /\ link.hash = LinkHash(link.batch, link.prev)

CheckLink ==
  /\ Checking
  /\ Sound(Link)
  /\ verifier' = [verifier EXCEPT !.next = @ + 1, !.expected = Link.hash]
  /\ UNCHANGED <<sealing, runs, head, archive, history, damage>>

(* Mutant of ReportBreak: the position is reported one too high. *)
ReportBreakOneBased ==
  /\ Checking
  /\ ~Sound(Link)
  /\ verifier' = [verifier EXCEPT !.stage = "broken", !.brokenAt = verifier.next]
  /\ UNCHANGED <<sealing, runs, head, archive, history, damage>>

ReportBreak ==
  /\ Checking
  /\ ~Sound(Link)
  /\ verifier' = [verifier EXCEPT !.stage = "broken",
                                  !.brokenAt = verifier.next - 1]
  /\ UNCHANGED <<sealing, runs, head, archive, history, damage>>

ReportIntact ==
  /\ verifier.stage = "checking" /\ verifier.next > Len(archive)
  /\ verifier' = [verifier EXCEPT !.stage = "intact"]
  /\ UNCHANGED <<sealing, runs, head, archive, history, damage>>

Terminated == verifier.stage \in {"intact", "broken"} /\ UNCHANGED vars

Next ==
  \/ BeginRun
  \/ \E batch \in Batches : Seal(batch)
  \/ EndRun
  \/ Damage
  \/ BeginVerify
  \/ CheckLink
  \/ ReportBreak
  \/ ReportIntact
  \/ Terminated

Spec == Init /\ [][Next]_vars
-----------------------------------------------------------------------------
Known == {Genesis, NoHash} \cup {history[k].hash : k \in DOMAIN history}

IsLinkHash(hash) == hash = LinkHash(hash.batch, hash.prev) /\ hash.batch \in Batches

(* Damage may leave a link that names the hash of one that is gone.         *)
IsSealed(link) ==
  /\ link.batch \in Batches
  /\ link.prev \in {Genesis, NoHash} \/ IsLinkHash(link.prev)
  /\ IsLinkHash(link.hash)

(* A call of seal_chain has sealed the last links of the history.           *)
TypeOK ==
  /\ sealing.open \in BOOLEAN /\ sealing.prev \in Known
  /\ Len(sealing.sealed) <= Len(history)
  /\ \A k \in DOMAIN sealing.sealed :
       sealing.sealed[k] = history[Len(history) - Len(sealing.sealed) + k]
  /\ runs \in 0..MaxRuns
  /\ head \in Known
  /\ \A k \in DOMAIN history : IsSealed(history[k])
  /\ \A k \in DOMAIN archive : IsSealed(archive[k])
  /\ Len(history) <= MaxLinks
  /\ damage \in 0..MaxDamage
  /\ verifier.stage \in {"idle", "checking", "intact", "broken"}
  /\ verifier.next \in 1..(Len(archive) + 1)
  /\ verifier.brokenAt \in {NoBreak} \cup 0..(Len(archive) - 1)

(* The link a break is reported at started a run after an empty one. *)
BrokenByEmptyRun == archive[verifier.brokenAt + 1].prev = NoHash

(* An archive nobody touched verifies, however many runs it was sealed in, *)
(* unless one of them was started from the empty head of an empty run.     *)
UntouchedVerifies ==
  damage = 0 /\ verifier.stage = "broken" => BrokenByEmptyRun

(* Damage that makes up no hash is found, at the first link that is not    *)
(* the one sealed there; what verifies is a prefix of what was sealed.     *)
VerdictLocatesDamage ==
  {archive[k].hash : k \in DOMAIN archive} \subseteq {history[k].hash : k \in DOMAIN history} =>
    /\ verifier.stage = "intact" => IsPrefix(archive, history)
    /\ verifier.stage = "broken" =>
         /\ SubSeq(archive, 1, verifier.brokenAt)
              = SubSeq(history, 1, verifier.brokenAt)
         /\ \/ BrokenByEmptyRun
            \/ ~IsPrefix(SubSeq(archive, 1, verifier.brokenAt + 1), history)

(* A recorded head anchors the chain: an archive that verifies and ends in *)
(* that head is what was sealed, even if hashes were recomputed.           *)
HeadAnchorsChain ==
  verifier.stage = "intact" /\ verifier.expected = head => archive = history
===============================================================================
