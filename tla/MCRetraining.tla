----------------------------- MODULE MCRetraining -----------------------------
(***************************************************************************)
(* Two analyses of one alert that collide, two analysts, one label; two    *)
(* models of which one may be kept; two retrainings, the first of which    *)
(* may die.                                                                *)
(***************************************************************************)
EXTENDS Retraining

CONSTANTS a1, n1, n2, s1, s2

MCAnalysisOf == [n \in Analyses |-> a1]
MCAboutAlert == [s \in Submissions |-> a1]
MCFiles == <<"random_forest", "xgboost", "scaler", "label_encoder">>
=============================================================================
