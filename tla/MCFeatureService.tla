-------------------------- MODULE MCFeatureService --------------------------
(* Instances of FeatureService for TLC. *)
EXTENDS FeatureService, TLC

CONSTANTS m, p   \* a market entity and a payments entity

TwoTicks == [e \in {m} |-> 2]
Mixed    == m :> 1 @@ p :> 2
Cut      == m :> 1 @@ p :> 1   \* p's length is not a whole number of ticks
=============================================================================
