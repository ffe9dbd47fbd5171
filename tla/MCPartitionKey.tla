--------------------------- MODULE MCPartitionKey ---------------------------
(* A table partitioned by month, a tag and a tag in 10 buckets, whose      *)
(* values are up to two characters from the reserved and the multi-byte   *)
(* ones, or a fixture value of the bucket tests.                           *)
EXTENDS PartitionKey

MCFormat == <<"Y", "-", "m">>
MCDefaultFormat == <<"Y", "-", "m", "-", "d">>
MCFormats == {MCFormat, MCDefaultFormat}
MCTableTemplate == <<TimeFormat(MCFormat), TagValue("a"), Bucket("b", 10)>>

Chars == {"a", "é", "|", "#", "^", "!", "%"}
(* and the values test_bucket_for_mod_doc buckets ("!" and "" are above). *)
MCValues == UNION {[1 .. k -> Chars] : k \in 0 .. 2}
            \cup {<<"b", "a", "n", "a", "n", "a", "s">>, <<"a", "n", "a", "n", "a", "s">>,
                 <<"%", "5", "0">>}

MCTimestamps ==
    {[y |-> 2023, m |-> 12, d |-> 31, h |-> 0],
     [y |-> 2024, m |-> 1, d |-> 1, h |-> 0],
     [y |-> 2024, m |-> 2, d |-> 29, h |-> 13]}
=============================================================================
