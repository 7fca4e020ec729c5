----------------------------- MODULE MCMpiPool -----------------------------
(***************************************************************************)
(* Rank "a" sends three vectors to rank "b" and gets two from it.  The     *)
(* first connector of "a", a coarse-to-fine one, has two senders of the    *)
(* same pool; "b" goes through its connectors in another order.            *)
(***************************************************************************)
EXTENDS MpiPool

MCPeer == [r \in Ranks |-> IF r = "a" THEN "b" ELSE "a"]

MCConnectors ==
  [r \in Ranks |->
     IF r = "a"
       THEN << [out |-> <<"k1", "k2">>, in |-> <<"m1">>],
               [out |-> <<"k3">>, in |-> <<"m2">>] >>
       ELSE << [out |-> <<"m2">>, in |-> <<"k3">>],
               [out |-> <<>>, in |-> <<"k1">>],
               [out |-> <<"m1">>, in |-> <<"k2">>] >>]

MCSize  == [k1 |-> 1, k2 |-> 2, k3 |-> 1, m1 |-> 2, m2 |-> 1]
MCEager == SUBSET Ranks
=============================================================================
