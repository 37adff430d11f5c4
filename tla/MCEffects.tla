----------------------------- MODULE MCEffects -----------------------------
(* Effects, stopping once the steps allowed are used up and flushed. *)
EXTENDS Effects, TLC

Done ==
    /\ pending_updates = 0 /\ steps = MaxSteps
    /\ UNCHANGED vars

MCSpec == Init /\ [][Next \/ Done]_vars

Symmetry == Permutations(Observers) \cup Permutations(Windows) \cup Permutations(Entities)

=============================================================================
