------------------------------ MODULE Channel ------------------------------
(***************************************************************************)
(* What the queue of crates/gpui/src/queue.rs promises the dispatchers      *)
(* that use it, with no mutex, no condition variable and no counts: a       *)
(* channel with one FIFO lane per priority.  Items come out of a lane in    *)
(* the order they went in, each once and to one receiver; nothing goes in   *)
(* once the channel is closed; and a receiver is told that the channel has  *)
(* ended only when it is closed and nothing is left in it.  Which lane an   *)
(* item is taken from is left open: the queue draws lots.                   *)
(***************************************************************************)
EXTENDS Sequences

CONSTANTS Senders, Takers, Lanes

VARIABLES
    lanes,  \* what is in each lane
    open,   \* whether anything can still be put in
    ended   \* the receivers that were told of the end

chan == <<lanes, open, ended>>

Init ==
    /\ lanes = [p \in Lanes |-> << >>]
    /\ open = TRUE
    /\ ended = {}

Put(s, p) ==
    /\ open
    /\ lanes' = [lanes EXCEPT ![p] = Append(@, s)]
    /\ UNCHANGED <<open, ended>>

Take(p) ==
    /\ lanes[p] # << >>
    /\ lanes' = [lanes EXCEPT ![p] = Tail(@)]
    /\ UNCHANGED <<open, ended>>

Close ==
    /\ open
    /\ open' = FALSE
    /\ UNCHANGED <<lanes, ended>>

End(r) ==
    /\ ~open
    /\ \A p \in Lanes : lanes[p] = << >>
    /\ ended' = ended \cup {r}
    /\ UNCHANGED <<lanes, open>>

\* A receiver that was told is dropped.
Leave(r) ==
    /\ ended' = ended \ {r}
    /\ UNCHANGED <<lanes, open>>

Next ==
    \/ \E p \in Lanes : Take(p) \/ \E s \in Senders : Put(s, p)
    \/ Close
    \/ \E r \in Takers : End(r) \/ Leave(r)

Spec == Init /\ [][Next]_chan
=============================================================================
