----------------------------- MODULE MCQueryLog -----------------------------
(* Instantiates QueryLog for TLC.  Queries are model values, interchange- *)
(* able in every action, so their permutations are a symmetry of the     *)
(* safety properties.                                                     *)
EXTENDS QueryLog

(* A query pushed and dropped before the model starts. *)
CONSTANT e0

MCEarlier == <<e0>>
MCNoEarlier == <<>>

MCSymmetry == Permutations(Queries)

(* The plan every query is planned with: a projection without metrics  *)
(* above a scan whose metrics record no elapsed time and a filter that   *)
(* does, and a sort below the scan that does too.                         *)
MCPlans ==
    {[root |-> "proj",
      children |-> ("proj" :> <<"scan", "filter">>) @@ ("scan" :> <<"sort">>)
                   @@ ("filter" :> <<>>) @@ ("sort" :> <<>>),
      metrics |-> ("proj" :> <<>>) @@ ("scan" :> <<<<>>>>)
                  @@ ("filter" :> <<<<1>>>>) @@ ("sort" :> <<<<1>>>>)]}
=============================================================================
