---------------------------- MODULE MCSearchView ----------------------------
(* SearchView for TLC: one source with two accounts and one with none, and *)
(* lists whose newest row is not the one the source holds for the best.    *)
EXTENDS SearchView

TwoAccounts == [r \in 1..3 |-> IF r < 3 THEN "gmail" ELSE "web"]
TwoSources == {"gmail", "web"}
SomeLists == {<<>>, <<"day">>, <<"unknown", "now">>}
=============================================================================
