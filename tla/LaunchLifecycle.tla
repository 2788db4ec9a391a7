--------------------------- MODULE LaunchLifecycle ---------------------------
(****************************************************************************)
(* What the launch registry promises about a launch, whatever connections,  *)
(* retries and timeouts do: it is offered once, it can be withdrawn once    *)
(* and never comes back, it yields at most one stream and only after it was *)
(* offered, and at most Limit launches are on offer at a time.              *)
(****************************************************************************)
EXTENDS Naturals, FiniteSets

CONSTANTS Launches, Limit

VARIABLES phase, streams

Offered == {i \in Launches : phase[i] = "offered"}

Init ==
  /\ phase = [i \in Launches |-> "new"]
  /\ streams = [i \in Launches |-> 0]

\* A launch is offered, possibly in place of others.
Offer(i) ==
  /\ phase[i] = "new"
  /\ \E W \in SUBSET Offered :
       phase' = [j \in Launches |-> IF j = i THEN "offered"
                                    ELSE IF j \in W THEN "withdrawn" ELSE phase[j]]
  /\ Cardinality(Offered') <= Limit
  /\ UNCHANGED streams

Withdraw ==
  /\ \E W \in SUBSET Offered :
       phase' = [j \in Launches |-> IF j \in W THEN "withdrawn" ELSE phase[j]]
  /\ UNCHANGED streams

\* The request that creates the stream may also find other launches expired.
Stream(i) ==
  /\ phase[i] # "new" /\ streams[i] = 0
  /\ streams' = [streams EXCEPT ![i] = 1]
  /\ \E W \in SUBSET Offered :
       phase' = [j \in Launches |-> IF j \in W THEN "withdrawn" ELSE phase[j]]

Next == Withdraw \/ \E i \in Launches : Offer(i) \/ Stream(i)

Spec == Init /\ [][Next]_<<phase, streams>>
=============================================================================
