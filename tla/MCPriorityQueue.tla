-------------------------- MODULE MCPriorityQueue --------------------------
EXTENDS PriorityQueue

(* All is over: the sender and every receiver are dropped. *)
Done ==
    /\ sender = "gone" /\ \A r \in Receivers : pc[r] \in {"none", "dropped"}
    /\ UNCHANGED vars

MCSpec == Init /\ [][Next \/ Done]_vars
MCFairSpec == MCSpec /\ Fairness
=============================================================================
