---------------------------- MODULE MCDailyEmail ----------------------------
(* An entity that looks for more than a search returns, beside one that has  *)
(* no tags.                                                                  *)
EXTENDS DailyEmail, TLC

CONSTANTS n1, n2, web, bread

MCSearches == n1 :> {{web, bread}} @@ n2 :> {}
=============================================================================
