--------------------------- MODULE MCLayerPolicy ---------------------------
(***************************************************************************)
(* An instance of LayerPolicy with its constants scaled down, in the order *)
(* the code has them: a history shorter than a cooldown, a cooldown        *)
(* shorter than the time an entry is kept.                                 *)
(***************************************************************************)
EXTENDS LayerPolicy

\* Compositing, painting a little more than the visible content directly costs, and a spike.
MCWorks == {0, 6, 20}

=============================================================================
