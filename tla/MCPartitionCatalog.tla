------------------------ MODULE MCPartitionCatalog ------------------------
(* The catalog for TLC: clients send every template of up to MaxParts + 1 *)
(* parts over a small alphabet of tag names, formats and bucket counts.   *)
EXTENDS PartitionCatalog

MCRequests == UNION {[1 .. k -> ProtoParts] : k \in 0 .. MaxParts + 1}
=============================================================================
