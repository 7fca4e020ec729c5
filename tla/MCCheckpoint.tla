---------------------------- MODULE MCCheckpoint ----------------------------
(* An instance of Checkpoint: three processes with one or two units of data. *)
EXTENDS Checkpoint

Units ==
  [f \in Files |-> [r \in Ranks |->
     CASE f \in Shared -> 1 [] f = "cpDataSetF" -> <<2, 1, 2>>[r + 1] [] f = "cpBC" -> 1]]

Sums ==
  [f \in Files |->
     LET sum[r \in Ranks] == IF r = 0 \/ f \in Shared THEN 0 ELSE sum[r - 1] + Units[f][r - 1]
     IN sum]

\* Due at 1 and 3: the first schedule ends with its begin, the second at 3.
TwoSchedules == { [step |-> 3, begin |-> 1, end |-> 3], [step |-> 2, begin |-> 3, end |-> 4] }
=============================================================================
