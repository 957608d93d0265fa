-------------------------------- MODULE Totals --------------------------------
(***************************************************************************)
(* The sum of a function into the naturals, as the number of marks on a    *)
(* tally: argument i has as many as its value. Said without recursion, it  *)
(* can be reasoned about for functions of any size.                        *)
(***************************************************************************)
EXTENDS Naturals, FiniteSets

Marks(g) == UNION {{i} \X (1..g[i]) : i \in DOMAIN g}

Total(g) == Cardinality(Marks(g))
=============================================================================
