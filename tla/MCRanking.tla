------------------------------ MODULE MCRanking ------------------------------
(* Drivers of three grades at two distances, more of them than the search   *)
(* returns.                                                                *)
EXTENDS Ranking, TLC

MCRatings == {-100, 500, NoRating}
DriverSymmetry == Permutations(Drivers)
==============================================================================
