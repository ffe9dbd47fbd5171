------------------------- MODULE PartitionTemplate -------------------------
(***************************************************************************)
(* Partition templates of data_types/src/partition_template.rs:           *)
(* validation of a protobuf template (serialization::Wrapper::try_from),  *)
(* and the parts a partitioner iterates (parts()).  The modules           *)
(* PartitionCatalog and PartitionKey use these operators.                *)
(*                                                                         *)
(* A template is a sequence of protobuf parts.  Strings are abstracted:   *)
(* a tag name is a member of Names, and which names contain "time" is the *)
(* constant TimeNames; a strftime format is a member of Formats, and      *)
(* which contain "%#z" or fail to render is given by HashZFormats and     *)
(* UnrenderableFormats.  Errors are abstracted to their ValidationError   *)
(* variant; their payload is only wording.                                 *)
(***************************************************************************)
EXTENDS Integers, Sequences, FiniteSets

CONSTANTS
    Names,                \* tag names clients may use
    TimeNames,            \* the names that contain "time"
    Formats,              \* strftime formats clients may use
    HashZFormats,         \* the formats that contain "%#z"
    UnrenderableFormats,  \* the formats chrono cannot render
    BucketCounts,         \* bucket counts clients may use
    MaxParts,             \* MAXIMUM_NUMBER_OF_TEMPLATE_PARTS
    DefaultFormat,        \* the format of PARTITION_BY_DAY_PROTO
    NoOverride            \* an override's inner None: use the default

ASSUME /\ TimeNames \subseteq Names
       /\ HashZFormats \cup UnrenderableFormats \subseteq Formats
       /\ DefaultFormat \in Formats \ (HashZFormats \cup UnrenderableFormats)
       /\ MaxParts \in Nat \ {0}

(* proto::TemplatePart: its oneof part is TagValue, TimeFormat, Bucket,   *)
(* or not set at all.                                                      *)
TagValue(n) == [kind |-> "TagValue", name |-> n]
TimeFormat(f) == [kind |-> "TimeFormat", fmt |-> f]
Bucket(n, c) == [kind |-> "Bucket", name |-> n, count |-> c]
NoPart == [kind |-> "None"]

ProtoParts ==
    {TagValue(n) : n \in Names} \cup {TimeFormat(f) : f \in Formats}
    \cup {Bucket(n, c) : n \in Names, c \in BucketCounts} \cup {NoPart}

(* The ValidationError variants, and Ok. *)
Errors == {"NoParts", "TooManyParts", "InvalidStrftime", "InvalidTagValue",
           "InvalidNumberOfBuckets", "RepeatedTagValue"}
Ok == "Ok"

(* A faulty ALLOWED_BUCKET_QUANTITIES that takes the end as inclusive. *)
AllowedBucketQuantitiesInclusive == 1 .. 100000

(* ALLOWED_BUCKET_QUANTITIES, the half-open range [1, 100_000). *)
AllowedBucketQuantities == 1 .. 99999

(* The check of one tag name shared by TagValue and Bucket parts: not    *)
(* empty, no "time" in it, not seen before.                               *)
NameError(n, seen) ==
    CASE n = ""          -> "InvalidTagValue"
      [] n \in TimeNames -> "InvalidTagValue"
      [] n \in seen      -> "RepeatedTagValue"
      [] OTHER           -> Ok

(* The error the loop of Wrapper::try_from returns at this part, or Ok. *)
PartError(p, seen) ==
    CASE p.kind = "TimeFormat" ->
            IF p.fmt = "" \/ p.fmt \in HashZFormats \/ p.fmt \in UnrenderableFormats
              THEN "InvalidStrftime" ELSE Ok
      [] p.kind = "TagValue" -> NameError(p.name, seen)
      [] p.kind = "Bucket" ->
            IF NameError(p.name, seen) # Ok THEN NameError(p.name, seen)
            ELSE IF p.count \notin AllowedBucketQuantities
              THEN "InvalidNumberOfBuckets" ELSE Ok
      [] OTHER -> Ok

(* The loop of Wrapper::try_from: the parts in template order, the first *)
(* failing one decides the error; seen_tags collects the names of        *)
(* TagValue and Bucket parts.                                             *)
RECURSIVE CheckParts(_, _)
CheckParts(ps, seen) ==
    IF ps = <<>> THEN Ok
    ELSE LET p == Head(ps) IN
         IF PartError(p, seen) # Ok THEN PartError(p, seen)
         ELSE CheckParts(Tail(ps),
                         IF p.kind \in {"TagValue", "Bucket"}
                           THEN seen \cup {p.name} ELSE seen)

(* Wrapper::try_from: the part count first, then every part. *)
Validate(t) ==
    CASE t = <<>>         -> "NoParts"
      [] Len(t) > MaxParts -> "TooManyParts"
      [] OTHER            -> CheckParts(t, {})

(* PARTITION_BY_DAY_PROTO. *)
DefaultTemplate == <<TimeFormat(DefaultFormat)>>

(* TablePartitionTemplateOverride::parts: the template, or the default   *)
(* when there is no override, with unset parts skipped (flat_map).       *)
Parts(o) ==
    LET t == IF o = NoOverride THEN DefaultTemplate ELSE o
    IN  SelectSeq(t, LAMBDA p : p.kind # "None")

-----------------------------------------------------------------------------
Template == Seq(ProtoParts)

(* What the spec (its section 4.2) rejects a template for.  The six      *)
(* checks in the spec's priority order.                                   *)
NamedParts(t) == {i \in DOMAIN t : t[i].kind \in {"TagValue", "Bucket"}}
SpecDefects(t) ==
    LET fmt == {t[i].fmt : i \in {j \in DOMAIN t : t[j].kind = "TimeFormat"}}
        nm  == {t[i].name : i \in NamedParts(t)}
    IN  {e \in Errors :
          \/ e = "NoParts" /\ t = <<>>
          \/ e = "TooManyParts" /\ Len(t) > MaxParts
          \/ e = "InvalidStrftime" /\
               fmt \cap ({""} \cup HashZFormats \cup UnrenderableFormats) # {}
          \/ e = "InvalidTagValue" /\ nm \cap ({""} \cup TimeNames) # {}
          \/ e = "RepeatedTagValue" /\
               \E i, j \in NamedParts(t) : i # j /\ t[i].name = t[j].name
          \/ e = "InvalidNumberOfBuckets" /\
               \E i \in DOMAIN t : t[i].kind = "Bucket"
                                 /\ t[i].count \notin 1 .. 99999}
Priority == <<"NoParts", "TooManyParts", "InvalidStrftime", "InvalidTagValue",
              "RepeatedTagValue", "InvalidNumberOfBuckets">>
SpecError(t) ==
    IF SpecDefects(t) = {} THEN Ok
    ELSE Priority[CHOOSE i \in 1 .. 6 : /\ Priority[i] \in SpecDefects(t)
                                        /\ \A j \in 1 .. i - 1 :
                                              Priority[j] \notin SpecDefects(t)]
=============================================================================
