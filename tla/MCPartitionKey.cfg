\* Round trip of partition keys through build_column_values.
CONSTANTS
    Names = {"a", "b"}
    TimeNames = {}
    Formats <- MCFormats
    HashZFormats = {}
    UnrenderableFormats = {}
    BucketCounts = {10}
    MaxParts = 8
    DefaultFormat <- MCDefaultFormat
    NoOverride = NoOverride
    TableTemplate <- MCTableTemplate
    Values <- MCValues
    Timestamps <- MCTimestamps
    MaxPartLen = 4
    Missing = Missing
SPECIFICATION Spec
INVARIANT KeyRoundTrip
