--------------------------- MODULE MCProposalCache ---------------------------
(* Three runs over two attacks that share one of their prompts (a record   *)
(* without a witness falls back to its clean return); the first and the    *)
(* last are two gates over the same episodes.                              *)
EXTENDS ProposalCache, TLC

CONSTANTS p1, p2, p3, a1, a2

MCPrompts == {p1, p2, p3}
MCAnswers == {a1, a2}
MCGrid == <<"clean", "c_witness", "clean">>
MCEpisodes == "clean" :> <<p1, p2>> @@ "c_witness" :> <<p1, p3>>
MCMaxFaults == [k \in FaultKinds |-> IF k = "post" THEN 3 ELSE IF k = "crash" THEN 2 ELSE 1]
MCSymmetry == Permutations(MCAnswers)
=============================================================================
