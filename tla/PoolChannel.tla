---------------------------- MODULE PoolChannel ----------------------------
(***************************************************************************)
(* What the time loop relies on when it hands all vectors between two      *)
(* ranks and two levels to one pool: in every round one message with what  *)
(* the sending rank filled in in that round, taken by the receiving rank   *)
(* in the same round, after one exchange of the order of the vectors.      *)
(***************************************************************************)
EXTENDS Integers, Sequences

CONSTANTS
  Ranks,      \* the pools are named by their receiving rank
  Rounds      \* bound: rounds of exchange

Order == 0    \* the message that carries the order of the vectors

None  == -1   \* nothing received yet

VARIABLES
  net,        \* net[r]: messages on their way to r: Order, or a round
  posted,     \* receiving ranks that have posted the receive of their round
  received    \* received[r]: what r received last: None, Order or a round

vars == <<net, posted, received>>

Init ==
  /\ net = [r \in Ranks |-> <<>>]
  /\ posted = {}
  /\ received = [r \in Ranks |-> None]

Latest(r) == IF net[r] = <<>> THEN received[r] ELSE net[r][Len(net[r])]

\* First the order, then one round after the other.
Send(r) ==
  /\ Latest(r) < Rounds
  /\ net' = [net EXCEPT ![r] = Append(@, Latest(r) + 1)]
  /\ UNCHANGED <<posted, received>>

Take(r) ==
  /\ net[r] # <<>>
  /\ received' = [received EXCEPT ![r] = Head(net[r])]
  /\ net' = [net EXCEPT ![r] = Tail(@)]

ReceiveOrder(r) ==
  /\ received[r] = None
  /\ Take(r)
  /\ UNCHANGED posted

Post(r) ==
  /\ received[r] # None
  /\ r \notin posted
  /\ posted' = posted \cup {r}
  /\ UNCHANGED <<net, received>>

Receive(r) ==
  /\ r \in posted
  /\ Take(r)
  /\ posted' = posted \ {r}

Next == \E r \in Ranks : Send(r) \/ ReceiveOrder(r) \/ Post(r) \/ Receive(r)

Spec == Init /\ [][Next]_vars

=============================================================================
