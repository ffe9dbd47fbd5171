\* A table whose only part has no value set: validation accepts it, and
\* parts() then yields nothing.
CONSTANTS
    Names = {"", "a", "runtime"}
    TimeNames = {"runtime"}
    Formats = {"%Y-%m-%d", "", "%Y%#z", "%"}
    HashZFormats = {"%Y%#z"}
    UnrenderableFormats = {"%"}
    BucketCounts = {0, 1, 100000}
    MaxParts = 2
    DefaultFormat = "%Y-%m-%d"
    NoOverride = NoOverride
    Requests <- MCRequests
    Tables = {t1}
    Uncreated = Uncreated
    Absent = Absent
    NoRequest = NoRequest

SPECIFICATION Spec

\* The namespace and its table exist: the catalog has nothing left to do.
CHECK_DEADLOCK FALSE

INVARIANT TemplateHasParts
