----------------------------- MODULE MCFieldCourts -----------------------------
(***************************************************************************)
(* The field courts over small sets of calls.                              *)
(***************************************************************************)
EXTENDS FieldCourts

CONSTANTS MaxBytes, RecordLens, MaxPairs, MaxRules

-----------------------------------------------------------------------------
(* Records of three bytes: a zoned, a packed and an edited field of a byte  *)
(* each and a group over them. The bytes are an ASCII digit, a negative     *)
(* overpunch, an EBCDIC digit and a packed digit with its sign.             *)
FileItem(name, offset, size) == [name |-> name, offset |-> offset, size |-> size]

FileByte == {<<3, 5>>, <<7, 2>>, <<15, 5>>, <<4, 12>>}

FileProgram ==
  [laid       |-> <<FileItem("REC", 0, 3), FileItem("ZON", 0, 1), FileItem("PCK", 1, 1),
                    FileItem("EDT", 2, 1)>>,
   attrs      |-> [n \in {"ZON", "PCK", "EDT"} |->
                     IF n = "ZON" THEN "zoned" ELSE IF n = "PCK" THEN "packed" ELSE "edited"],
   conditions |-> <<[name |-> "FIVE", parent |-> "ZON", when |-> {<<<<3, 5>>>>}]>>]

FileCall(op, strict, encoding, recordLen, parses, collides, data) ==
  [op |-> op, strict |-> strict, encoding |-> encoding, recordLen |-> recordLen,
   parses |-> parses, collides |-> collides, prog |-> FileProgram, data |-> data, field |-> ""]

MCJunk == {<<7, 2>>, <<15, 5>>}

(* Totals have no mode; what is refused is refused before the data is read. *)
MCFileCalls ==
  LET data == BoundedSeq(FileByte, MaxBytes)
      encodings == {"ascii", "cp500"}
  IN
  {FileCall("totals", FALSE, e, n, TRUE, FALSE, d) : e \in encodings, n \in RecordLens, d \in data}
  \cup {FileCall("decode", s, e, n, TRUE, FALSE, d) :
          s \in BOOLEAN, e \in encodings, n \in RecordLens, d \in data}
  \cup {FileCall(op, FALSE, "ascii", n, p, c, <<>>) :
          op \in {"totals", "decode", "explain"}, n \in {0} \cup RecordLens,
          p \in BOOLEAN, c \in BOOLEAN}
  \cup {[FileCall("explain", FALSE, e, 0, TRUE, FALSE, d) EXCEPT !.field = f] :
          e \in encodings, d \in BoundedSeq(FileByte, 3), f \in {"REC", "ZON", "PCK", "EDT", "GONE"}}

-----------------------------------------------------------------------------
(* A value field, an indicator that is binary, a text or a group, of every  *)
(* sign or unreadable, and perhaps a second item of its name. Pairs may     *)
(* name a field that is not there.                                          *)
PairItem(name, kind, value) == [name |-> name, kind |-> kind, value |-> value]

PairItems ==
  {<<PairItem("V", "other", NotNumber), PairItem("I", k, n)>> \o second :
     k \in {"binary", "other", "group"}, n \in {-1, 0, 2, NotNumber},
     second \in {<<>>} \cup {<<PairItem("I", j, m)>> : j \in {"binary", "other"}, m \in {0, 2}}}

MCPairCalls ==
  [parses : {TRUE}, items : PairItems,
   pairs : BoundedSeq([value : {"V", "W"}, indicator : {"I", "J"}], MaxPairs)]
  \cup [parses : {FALSE}, items : {<<>>}, pairs : {<<>>}]

-----------------------------------------------------------------------------
(* Records with a long and a short date, and an amount that may be missing. *)
(* The dates are days at the ends of months and years, and no days; bytes   *)
(* may be EBCDIC digits, or missing.                                        *)
Ascii(digits) == [k \in DOMAIN digits |-> <<3, digits[k]>>]
Ebcdic(digits) == [k \in DOMAIN digits |-> <<15, digits[k]>>]

LongDates ==
  {Ascii(d) : d \in {<<2,0,2,4,0,2,2,9>>, <<1,9,0,0,0,2,2,9>>, <<2,0,0,0,0,2,2,9>>,
                     <<2,0,2,3,0,4,3,1>>, <<2,0,2,3,1,2,3,1>>, <<2,0,2,3,1,3,0,1>>,
                     <<0,0,0,0,0,0,0,0>>, <<9,9,9,9,9,9,9,9>>}}
  \cup {Ebcdic(<<2,0,2,4,0,2,2,9>>), <<>>}

ShortDates ==
  {Ascii(d) : d \in {<<2,4,3,6,6>>, <<2,3,3,6,6>>, <<2,3,3,6,5>>, <<0,0,0,0,0>>}} \cup {<<>>}

ProfileField(name, raw, scale) ==
  [name |-> name, raw |-> raw, value |-> Tail(<<0>> \o raw), scale |-> scale]

ProfileRecords(longs, shorts, amounts) ==
  {<<ProfileField("LONG", l, 0), ProfileField("SHORT", s, 0)>> \o a :
     l \in longs, s \in shorts, a \in amounts}

ProfileRule(id, on, is) == [id |-> id, on |-> on, is |-> is]

(* The zero and the high date are markers of the long date by their bytes;  *)
(* the zero date of the short one by its value.                             *)
Markers ==
  {<<>>,
   <<[field |-> "LONG", rules |-> <<ProfileRule("zero", "raw", Ascii(<<0,0,0,0,0,0,0,0>>)),
                                    ProfileRule("high", "raw", Ascii(<<9,9,9,9,9,9,9,9>>))>>],
     [field |-> "GONE", rules |-> <<ProfileRule("zero", "raw", <<>>)>>]>>,
   <<[field |-> "SHORT", rules |-> <<ProfileRule("zero", "value", Ascii(<<0,0,0,0,0>>))>>]>>}

Dates ==
  {<<[field |-> "LONG", format |-> "YYYYMMDD", requires |-> r],
     [field |-> "GONE", format |-> "YYDDD", requires |-> FALSE],
     [field |-> "SHORT", format |-> f, requires |-> FALSE]>> :
       r \in BOOLEAN, f \in {"YYDDD", "YYYYMMDD"}}

Amount(role, scale, strict, code) ==
  [field |-> "AMT", role |-> role, scale |-> scale, strict |-> strict, code |-> code]

ProfileCall(scanned, record, markers, dates, amounts) ==
  [parses |-> TRUE, scanned |-> scanned, record |-> record, markers |-> markers,
   dates |-> dates, amounts |-> amounts]

(* The scanned record is the record, or another one. *)
MCProfileCalls ==
  {ProfileCall(r, r, m, d, <<>>) :
     r \in ProfileRecords(LongDates, ShortDates, {<<>>}), m \in Markers, d \in Dates}
  \cup {ProfileCall(q, r, m, d, <<>>) :
     q \in ProfileRecords({Ascii(<<0,0,0,0,0,0,0,0>>)}, ShortDates, {<<>>}),
     r \in ProfileRecords(LongDates, {Ascii(<<0,0,0,0,0>>)}, {<<>>}), m \in Markers, d \in Dates}
  \cup {ProfileCall(r, r, <<>>, <<>>, <<Amount(role, s, strict, c)>>) :
     r \in ProfileRecords({<<>>}, {<<>>}, {<<>>, <<ProfileField("AMT", <<>>, 2)>>}),
     role \in {"amount", "rate"}, s \in {0, 2}, strict \in BOOLEAN, c \in {NoName, "LONG", "CCY"}}
  \cup {[ProfileCall(<<>>, <<>>, <<>>, <<>>, <<>>) EXCEPT !.parses = FALSE]}

-----------------------------------------------------------------------------
(* A group, two fields of one name and a third, under every policy of up to *)
(* MaxRules rules, some of them for one name; the export has the policy or  *)
(* none.                                                                    *)
RedactFields ==
  <<[name |-> "REC", category |-> "group", value |-> "(group)", raw |-> <<>>],
    [name |-> "A", category |-> "numeric", value |-> "1", raw |-> <<1>>],
    [name |-> "A", category |-> "numeric", value |-> "2", raw |-> <<2>>],
    [name |-> "B", category |-> "unsupported", value |-> "(unsupported)", raw |-> <<3>>]>>

Policies ==
  [rules : BoundedSeq([field : {"A", "B"}, action : {"allow", "keep_hash", "hide_raw", "tokenize"}],
                      MaxRules),
   default : {"deny", "allow"}, scope : {"casefile"}]

MCRedactCalls ==
  UNION {[parses : {TRUE}, fields : {RedactFields}, policy : {p},
          exportPolicy : {p, NoPolicy}] : p \in Policies}
  \cup [parses : {FALSE}, fields : {<<>>}, policy : {p \in Policies : p.rules = <<>>},
        exportPolicy : {NoPolicy}]
================================================================================
