---------------------------- MODULE MCFileIngest ----------------------------
(* Every input of at most MaxInput bytes, under every record length up to  *)
(* MaxRecordLen and every pair of policies.                                *)
EXTENDS FileIngest

CONSTANTS MaxInput, MaxRecordLen

MCCalls ==
  {c \in [inputLen : 0..MaxInput, endsLf : BOOLEAN, recordLen : 0..MaxRecordLen,
          trailing : TrailingNewline, partial : PartialRecord] :
     c.endsLf => c.inputLen > 0}
=============================================================================
