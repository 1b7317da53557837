-------------------------- MODULE MCClusterHarness --------------------------
(* Two drivers in a row, three faults; the model holds, or proposes a safe, *)
(* a witness or an inadmissible count.                                      *)
EXTENDS ClusterHarness

MCProposals == {0, 2, 6, 12}
=============================================================================
