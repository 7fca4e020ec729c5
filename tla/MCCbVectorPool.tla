--------------------------- MODULE MCCbVectorPool ---------------------------
(***************************************************************************)
(* Three vectors of up to two elements in a pool that starts without or    *)
(* with little capacity.                                                   *)
(***************************************************************************)
EXTENDS CbVectorPool

MCKeyOf      == [v \in Vectors |-> v]
MCOneKey     == [v \in Vectors |-> "same"]
MCOneKeySet  == {"same"}
=============================================================================
