-------------------------- MODULE MCCloseProtocol --------------------------
(* Instances of CloseProtocol for TLC.  "write" starts the pipeline; a race *)
(* needs a step to duplicate and two processes, an order two steps that may *)
(* change places.                                                           *)
EXTENDS CloseProtocol, TLC

MCStartsPipeline == {"write"}
Numbers          == 1 .. MaxActions
OneStep          == {<<"merge">>}
Twice            == {<<"merge", "merge">>}
ReviewAndMerge   == {<<"review", "merge">>, <<"merge", "review">>}
NothingTrue      == {{}}
ReviewedOrNot    == {{}, {"review"}}
Symmetry         == Permutations(Procs)
=============================================================================
