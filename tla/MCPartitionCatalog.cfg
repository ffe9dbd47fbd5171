\* Every create call with a template of up to three parts over a small
\* alphabet that exercises each check of try_from;
\* MAXIMUM_NUMBER_OF_TEMPLATE_PARTS is scaled down from 8 to 2 so that
\* TooManyParts is reached.
CONSTANTS
    Names = {"", "a", "runtime"}
    TimeNames = {"runtime"}
    Formats = {"%Y-%m-%d", "", "%Y%#z", "%"}
    HashZFormats = {"%Y%#z"}
    UnrenderableFormats = {"%"}
    BucketCounts = {0, 1, 100000}
    MaxParts = 2
    DefaultFormat = "%Y-%m-%d"
    NoOverride = NoOverride
    Requests <- MCRequests
    Tables = {t1}
    Uncreated = Uncreated
    Absent = Absent
    NoRequest = NoRequest

SPECIFICATION Spec

\* The namespace and its table exist: the catalog has nothing left to do.
CHECK_DEADLOCK FALSE

INVARIANT ValidationAgreesWithSpec
