---------------------------- MODULE MCTaskPipeline ----------------------------
(* Three joints under a cyclic index conversion, with motor ids that are    *)
(* not in joint order; outputs that follow the observation, but for one     *)
(* beyond the clip or one NaN.                                              *)
EXTENDS TaskPipeline

MCIds      == <<3, 1, 2>>
MCInput    == <<2, 3, 1>>
MCOutput   == <<3, 1, 2>>
MCDefault  == <<0, 80, -160>>
MCPostures == {<<40, 120, -220>>}
MCPads     == {[x |-> 1000, a |-> FALSE], [x |-> -32768, a |-> TRUE]}
MCNet(d)   == {[d EXCEPT ![1] = 4000], [d EXCEPT ![2] = NaN]}
===============================================================================
