------------------------ MODULE MCCloudwatchEmitter ------------------------
(* Data of two sizes; a queue holds two small ones or a large one.         *)
EXTENDS CloudwatchEmitter, TLC
CONSTANTS small, large
Items == {small, large}
Sizes == (small :> 1) @@ (large :> 2)
=============================================================================
