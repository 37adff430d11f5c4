----------------------------- MODULE MCRetained -----------------------------
(* Instances of Retained for TLC: a view in a root, and chains of three and *)
(* of four views.  A deadlock short of the last frame is a frame that       *)
(* cannot be finished.                                                      *)
EXTENDS Retained

Pair == <<0, 1>>
Chain == <<0, 1, 2>>
Nested == <<0, 1, 2, 3>>

Done ==
    /\ frames = MaxFrames /\ ~drawing
    /\ UNCHANGED vars

MCSpec == Init /\ [][Next \/ Done]_vars
=============================================================================
