-------------------------------- MODULE MCRecon --------------------------------
(* Records of two bytes, a numeric and an edited field, a group over both  *)
(* and a condition on each field; every file of up to MaxBytes bytes.      *)
EXTENDS Recon

CONSTANTS MaxBytes, RecordLens

MCItem(name, offset, size) == [name |-> name, offset |-> offset, size |-> size]

MCProgram ==
  [laid       |-> <<MCItem("REC", 0, 2), MCItem("NUM", 0, 1), MCItem("EDT", 1, 1),
                    MCItem("BAD", 0, 1)>>,
   attrs      |-> [n \in {"NUM", "EDT", "BAD"} |->
                     IF n = "NUM" THEN "zoned"
                     ELSE IF n = "EDT" THEN "edited" ELSE "unsupported"],
   conditions |-> <<[name |-> "IS-NUM", parent |-> "NUM"],
                    [name |-> "IS-EDT", parent |-> "EDT"]>>]

MCCall(recordLen, parses, collides, parallel, encoding, data) ==
  [recordLen |-> recordLen, parses |-> parses, collides |-> collides,
   parallel |-> parallel, encoding |-> encoding, prog |-> MCProgram, data |-> data]

MCData == BoundedSeq({"ok", "junk"}, MaxBytes)

(* What is refused is refused before the data is looked at. *)
MCCalls ==
  {MCCall(n, TRUE, FALSE, parallel, encoding, data) :
     n \in RecordLens, parallel \in BOOLEAN, encoding \in Encodings, data \in MCData}
  \cup {MCCall(n, parses, collides, FALSE, "ascii", <<"ok">>) :
          n \in {0} \cup RecordLens, parses \in BOOLEAN, collides \in BOOLEAN}
================================================================================
