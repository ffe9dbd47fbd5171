---------------------------- MODULE PartitionKey ----------------------------
(***************************************************************************)
(* Partition keys: the decoder of data_types/src/partition_template.rs    *)
(* (build_column_values, parse_part_tag_value, parse_part_bucket, and     *)
(* parse_part_time_format from PartitionTimeRange) and, as its            *)
(* counterpart, the key encoder the spec describes (section 4.3; the      *)
(* encoder is not part of this repository).                               *)
(*                                                                         *)
(* A tag value is a sequence of characters; each character is one or two *)
(* UTF-8 bytes ("é" is the two bytes C3 A9).  A key is a sequence of      *)
(* units: a byte written as is (Lit), a byte written as a %XX triplet     *)
(* (Pct), or a value rendered by a time format item (Tok).               *)
(***************************************************************************)
EXTENDS PartitionTemplate, PartitionTimeRange, BucketHash

CONSTANTS
    TableTemplate,  \* the table's override (a validated template or NoOverride)
    Values,         \* the tag values rows may carry
    Timestamps,     \* the timestamps rows may carry
    MaxPartLen,     \* PARTITION_KEY_MAX_PART_LEN
    Missing         \* a column absent from the row

Lit(b) == [pct |-> FALSE, b |-> b]
Pct(b) == [pct |-> TRUE, b |-> b]
Tok(v) == [tok |-> v]

(* UTF-8 bytes of a tag value. *)
CharBytes(c) == IF c = "é" THEN <<"C3", "A9">> ELSE <<c>>
Bytes(v) == FlattenSeq([i \in 1 .. Len(v) |-> CharBytes(v[i])])

(* The ColumnValue variants, and a decoder panic. *)
Identity(bs) == [kind |-> "Identity", v |-> bs]
Prefix(bs) == [kind |-> "Prefix", v |-> bs]
BucketValue(id, n) == [kind |-> "Bucket", id |-> id, n |-> n]
Datetime(r) == [kind |-> "Datetime", begin |-> r.begin, end |-> r.end]
Panic == [kind |-> "Panic"]

TimeColumnName == "time"

(* The reserved characters of a key: PARTITION_KEY_DELIMITER,            *)
(* PARTITION_KEY_VALUE_EMPTY, PARTITION_KEY_VALUE_NULL and                *)
(* PARTITION_KEY_PART_TRUNCATED.                                          *)
Delimiter == "|"
ValueEmpty == "^"
ValueNull == "!"
PartTruncated == "#"
Digits == <<"0", "1", "2", "3", "4", "5", "6", "7", "8", "9">>

(* bucket_for_tag_value of the value's UTF-8 bytes (BucketHash).  It is  *)
(* a pure function of the value and the count, so it is computed once for *)
(* the values rows carry and the bucket counts of the table's template.   *)
TableBucketCounts ==
    LET ps == Parts(TableTemplate)
    IN  {ps[i].count : i \in {j \in DOMAIN ps : ps[j].kind = "Bucket"}}
BucketIds ==
    [v \in Values, n \in TableBucketCounts |-> BucketForTagValue(AsBytes(v), n)]
BucketFor(v, n) == BucketIds[v, n]

-----------------------------------------------------------------------------
(* The encoder of the spec (section 4.3). *)

(* ENCODED_PARTITION_KEY_CHARS and every non-ASCII byte. *)
EncodedBytes == {Delimiter, ValueNull, ValueEmpty, PartTruncated, "%", "C3", "A9"}

EncodeChars(v) ==
    LET bs == Bytes(v)
    IN  [i \in 1 .. Len(bs) |-> IF bs[i] \in EncodedBytes THEN Pct(bs[i])
                                                         ELSE Lit(bs[i])]
Size(us) == Len(us) + 2 * Cardinality({i \in DOMAIN us : us[i].pct})

(* A value that does not fit is cut after the longest run of whole        *)
(* characters that leaves room for the "#" marker.                        *)
EncodeTagValue(v) ==
    IF v = <<>> THEN <<Lit(ValueEmpty)>>
    ELSE IF Size(EncodeChars(v)) <= MaxPartLen THEN EncodeChars(v)
    ELSE LET fits == {k \in 0 .. Len(v) :
                        Size(EncodeChars(SubSeq(v, 1, k))) <= MaxPartLen - 1}
             k == CHOOSE k \in fits : \A l \in fits : l <= k
         IN  EncodeChars(SubSeq(v, 1, k)) \o <<Lit(PartTruncated)>>

Truncated(v) == Size(EncodeChars(v)) > MaxPartLen

EncodePart(p, row) ==
    CASE p.kind = "TagValue" ->
            IF row[p.name] = Missing THEN <<Lit(ValueNull)>>
                                     ELSE EncodeTagValue(row[p.name])
      [] p.kind = "Bucket" ->
            IF row[p.name] = Missing THEN <<Lit(ValueNull)>>
            ELSE <<Lit(Digits[BucketFor(row[p.name], p.count) + 1])>>
      [] p.kind = "TimeFormat" ->
            LET r == Render(row[TimeColumnName], p.fmt)
            IN  [k \in 1 .. Len(r) |-> Tok(r[k])]

EncodeKey(o, row) ==
    LET ps == Parts(o)
    IN  FlattenSeq([i \in 1 .. Len(ps) |->
                      IF i = 1 THEN EncodePart(ps[i], row)
                               ELSE <<Lit(Delimiter)>> \o EncodePart(ps[i], row)])

-----------------------------------------------------------------------------
(* The decoder of the code. *)

(* partition_key.split(PARTITION_KEY_DELIMITER): always at least one part. *)
RECURSIVE SplitKey(_)
SplitKey(key) ==
    LET i == SelectInSeq(key, LAMBDA u : u = Lit(Delimiter))
    IN  IF i = 0 THEN <<key>>
        ELSE <<SubSeq(key, 1, i - 1)>> \o SplitKey(SubSeq(key, i + 1, Len(key)))

(* percent_decode_str(..).decode_utf8(): the bytes, which must be UTF-8. *)
PercentDecode(us) == [i \in 1 .. Len(us) |-> us[i].b]
ValidUtf8(bs) ==
    \A i \in 1 .. Len(bs) :
        /\ bs[i] = "C3" => i < Len(bs) /\ bs[i + 1] = "A9"
        /\ bs[i] = "A9" => i > 1 /\ bs[i - 1] = "C3"

(* A faulty parse_part_tag_value that looks for the truncation marker    *)
(* after decoding instead of in the raw key part.                        *)
ParseTagValueDecodedMarker(raw) ==
    LET value == IF raw = <<Lit(ValueEmpty)>> THEN <<>> ELSE raw
        decoded == PercentDecode(value)
    IN  CASE ~ValidUtf8(decoded) -> Panic
          [] decoded # <<>> /\ Last(decoded) = PartTruncated -> Prefix(Front(decoded))
          [] OTHER -> Identity(decoded)

(* parse_part_tag_value: "^" is the empty string; a raw part ending in   *)
(* the "#" marker is a truncated prefix, anything else the value itself. *)
ParseTagValue(raw) ==
    LET value == IF raw = <<Lit(ValueEmpty)>> THEN <<>> ELSE raw
        decoded == PercentDecode(value)
    IN  CASE ~ValidUtf8(decoded) -> Panic
          [] value # <<>> /\ Last(value) = Lit(PartTruncated) -> Prefix(Front(decoded))
          [] OTHER -> Identity(decoded)

(* parse_part_bucket: a u32 (expect) below num_buckets (assert). *)
ParsePartBucket(raw, n) ==
    IF \E d \in 1 .. 10 : raw = <<Lit(Digits[d])>>
      THEN LET id == (CHOOSE d \in 1 .. 10 : raw = <<Lit(Digits[d])>>) - 1
           IN  IF id < n THEN BucketValue(id, n) ELSE Panic
      ELSE Panic

(* parse_part_time_format on a rendered key part; Dropped if it yields   *)
(* no range.                                                              *)
ParsePartTime(raw, f) ==
    LET r == IF Len(raw) = Len(f) /\ \A k \in DOMAIN raw : "tok" \in DOMAIN raw[k]
               THEN ParseTimeFormat([k \in DOMAIN raw |-> raw[k].tok], f)
               ELSE Dropped
    IN  IF r = Dropped THEN Dropped ELSE Datetime(r)

(* build_column_values: template parts zipped with key parts (the shorter *)
(* one ends the iteration), "!" parts skipped, the rest decoded by the    *)
(* kind of their template part; a part yielding None is skipped (<<>>).  *)
DecodePart(p, raw) ==
    CASE raw = <<Lit(ValueNull)>> -> <<>>
      [] p.kind = "TagValue" -> <<p.name, ParseTagValue(raw)>>
      [] p.kind = "TimeFormat" ->
            IF ParsePartTime(raw, p.fmt) = Dropped THEN <<>>
            ELSE <<TimeColumnName, ParsePartTime(raw, p.fmt)>>
      [] p.kind = "Bucket" -> <<p.name, ParsePartBucket(raw, p.count)>>
BuildColumnValues(o, key) ==
    LET z == Zip(Parts(o), SplitKey(key))
        d == [i \in 1 .. Len(z) |-> DecodePart(z[i][1], z[i][2])]
    IN  SelectSeq(d, LAMBDA x : x # <<>>)

(* ColumnValue::is_prefix_match_of: the bytes of an Identity or a       *)
(* Prefix start other; a Datetime or a Bucket matches nothing.            *)
IsPrefixMatchOf(cv, other) ==
    cv.kind \in {"Identity", "Prefix"} /\ IsPrefix(cv.v, other)

(* PartialEq<str> for ColumnValue: only an Identity equals a string. *)
EqualsValue(cv, other) == cv.kind = "Identity" /\ cv.v = other

-----------------------------------------------------------------------------
(* A writer composes rows for the table, encodes each into its partition *)
(* key, and a reader decodes the key with build_column_values.           *)
TagColumns == {Parts(TableTemplate)[i].name :
                 i \in {j \in DOMAIN Parts(TableTemplate) :
                          Parts(TableTemplate)[j].kind \in {"TagValue", "Bucket"}}}

VARIABLE row

Init ==
    \E t \in Timestamps :
        row = [c \in TagColumns \cup {TimeColumnName} |->
                 IF c = TimeColumnName THEN t ELSE Missing]

WriteTag == \E c \in TagColumns, v \in Values \cup {Missing} :
                row' = [row EXCEPT ![c] = v]

WriteTime == \E t \in Timestamps : row' = [row EXCEPT ![TimeColumnName] = t]

Next == WriteTag \/ WriteTime

Spec == Init /\ [][Next]_row

Key == EncodeKey(TableTemplate, row)
Decoded == BuildColumnValues(TableTemplate, Key)

(* What decoding a part of the row's key must give back (spec section 8, *)
(* property 1), judged as a querier pruning partitions judges it: a tag  *)
(* value equals the row's value (PartialEq), or, when the encoder        *)
(* truncated it, is a Prefix that is_prefix_match_of the row's value;    *)
(* the row's bucket; a time range holding the row's time.                *)
Present(p) ==
    IF p.kind = "TimeFormat" THEN DateFormat(p.fmt) ELSE row[p.name] # Missing
GivesBack(p, cv) ==
    CASE p.kind = "TagValue" ->
            IF Truncated(row[p.name])
              THEN cv.kind = "Prefix" /\ IsPrefixMatchOf(cv, Bytes(row[p.name]))
              ELSE EqualsValue(cv, Bytes(row[p.name]))
      [] p.kind = "Bucket" -> cv = BucketValue(BucketFor(row[p.name], p.count), p.count)
      [] p.kind = "TimeFormat" ->
            /\ cv.kind = "Datetime"
            /\ ~Earlier(row[TimeColumnName], cv.begin)
            /\ Earlier(row[TimeColumnName], cv.end)

(* Decoding the key of a row never panics and yields, in template order,  *)
(* one tuple per present column that gives its value back: missing,      *)
(* empty and reserved-character values are told apart, and only a value  *)
(* the encoder truncated comes back as a Prefix.                          *)
KeyRoundTrip ==
    LET ps == SelectSeq(Parts(TableTemplate), Present)
    IN  /\ Len(Decoded) = Len(ps)
        /\ \A i \in 1 .. Len(ps) :
              /\ Decoded[i][1] = IF ps[i].kind = "TimeFormat" THEN TimeColumnName
                                                               ELSE ps[i].name
              /\ GivesBack(ps[i], Decoded[i][2])
=============================================================================
