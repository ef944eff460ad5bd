--------------------------- MODULE MCMLInference ---------------------------
(* Instances of MLInference for TLC. *)
EXTENDS MLInference

OneDomain  == <<"market">>
TwoDomains == <<"market", "payments">>
=============================================================================
