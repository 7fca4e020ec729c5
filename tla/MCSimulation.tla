---------------------------- MODULE MCSimulation ----------------------------
(***************************************************************************)
(* Grids on which the CPU time loop is checked.                            *)
(***************************************************************************)
EXTENDS Simulation

MCShl == [k \in 0 .. MaxLevel |-> 2 ^ k]

\* Three levels on two ranks.  Both ranks hold blocks of the levels 0 and 1;
\* the coarse-to-fine connectors of rank 0 on level 0 serve fine blocks on
\* both ranks.  Level 2 lies on rank 1, at the border to rank 0.
LevelsAdjacent == {<<0, 0, 1>>, <<0, 1, 0>>, <<0, 0, 0>>, <<1, 0, 1>>, <<1, 1, 0>>, <<2, 1, 1>>}
LevelsRefined  == {<<0, 0, 0>>, <<0, 0, 1>>, <<0, 1, 1>>, <<1, 0, 1>>, <<1, 1, 1>>}
LevelsMixed    == {<<0, 0>>}
LevelsEager    == {{}, SamePools, CFPools, Pools}

\* Two levels on three ranks.  The blocks of level 0 form a ring over the
\* ranks; level 1 lies on the ranks 0 and 1, so rank 2 takes part in the
\* sub-steps of a level it has no block of.
RingAdjacent == { <<0, r, s>> : r, s \in Ranks } \cup {<<1, 0, 1>>, <<1, 1, 0>>, <<1, 1, 1>>}
RingRefined  == {<<0, 0, 0>>, <<0, 0, 1>>, <<0, 2, 1>>}
RingMixed    == {<<0, 0>>}
RingEager    == {{}, CFPools, Pools}

\* A grid that was refined everywhere: its coarsest level is level 1.
FineAdjacent == {<<1, 0, 0>>, <<2, 0, 0>>}
FineRefined  == {<<1, 0, 0>>}
FineEager    == {{}}
=============================================================================
