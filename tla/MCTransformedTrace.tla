-------------------------- MODULE MCTransformedTrace --------------------------
(***************************************************************************)
(* Three obsels: one that starts matches, one that ends them, one that     *)
(* does both; two rules that both match the third.  The query gives one    *)
(* row for the first, two for the third and none for the second.           *)
(***************************************************************************)
EXTENDS TransformedTrace

MCKind == [o \in Ids |-> CASE o = 1 -> "start" [] o = 2 -> "both" [] OTHER -> "end"]
MCRules == <<[type |-> "any", kinds |-> {"start", "both"}, typed |-> FALSE, atts |-> 1],
             [type |-> "both", kinds |-> {"both"}, typed |-> TRUE, atts |-> 0]>>
MCRows == [k \in {"start", "both", "end"} |->
             CASE k = "start" -> 1 [] k = "both" -> 2 [] OTHER -> 0]
=============================================================================
