----------------------------- MODULE ReconEvidence -----------------------------
(***************************************************************************)
(* What a reconciliation promises, whatever threads did the work: one      *)
(* outcome, which is a function of the call.                               *)
(***************************************************************************)
EXTENDS Decode

CONSTANTS Calls, Pending

VARIABLES call, outcome

(* Everything each record does not support, with the record it is in.      *)
UnsupportedPairs(c) ==
  LET chunks == Chunks(c.data, c.recordLen) IN
  UNION {{k} \X Unsupported(c.prog, chunks[k], c.encoding) : k \in DOMAIN chunks}

Evidence(c) ==
  LET chunks == Chunks(c.data, c.recordLen) IN
  [ok               |-> TRUE,
   objects          |-> [k \in DOMAIN chunks |-> RecordObject(c, k - 1, chunks[k])],
   recordCount      |-> Len(chunks),
   unsupportedCount |-> Cardinality(UnsupportedPairs(c)),
   unsupportedItems |-> IF chunks = <<>> THEN {}
                        ELSE Unsupported(c.prog, chunks[1], c.encoding)]

Outcome(c) ==
  IF c.recordLen = 0 THEN Refusal("zero-length")
  ELSE IF ~c.parses THEN Refusal("copybook")
  ELSE IF c.collides THEN Refusal("collision")
  ELSE Evidence(c)

Init == call \in Calls /\ outcome = Pending

Decide ==
  /\ outcome = Pending
  /\ outcome' = Outcome(call)
  /\ UNCHANGED call

Safety == Init /\ [][Decide]_<<call, outcome>>

Spec == Safety /\ WF_<<call, outcome>>(Decide)
===============================================================================
