-------------------------- MODULE MCQueryLogBuffer --------------------------
(* Instantiates QueryLogBuffer for TLC with model-value queries. *)
EXTENDS QueryLogBuffer
=============================================================================
