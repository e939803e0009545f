---------------------------- MODULE MCRiskControl ----------------------------
(* A signal within and one above the trade limits; a trade that wins and one *)
(* that loses.                                                               *)
EXTENDS RiskControl

MCNotionals == {1, 5}
MCResults == {-2, 1}
=============================================================================
