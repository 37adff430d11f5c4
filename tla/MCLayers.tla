------------------------------ MODULE MCLayers ------------------------------
(***************************************************************************)
(* Instances of Layers: a viewport of 4 over a content of 16.  What is     *)
(* painted at the offset 8 is all of the content, so 0 is composited from  *)
(* it; what is painted at 0 ends where the viewport at 8 does, so it shows *)
(* there but holds no margin.                                              *)
(***************************************************************************)
EXTENDS Layers

MCOffsets == {0, 8}

Reads(owner, kid, content, off, observing) ==
  [owner |-> owner, child |-> kid, content |-> content, offset |-> off, observes |-> observing]

\* Each kind of read by itself, the child's with and without observing.
MCReaders ==
  {Reads(MODELS, {}, {}, FALSE, TRUE), Reads({}, MODELS, {}, FALSE, TRUE),
   Reads({}, MODELS, {}, FALSE, FALSE), Reads({}, {}, MODELS, FALSE, TRUE),
   Reads({}, {}, {}, TRUE, TRUE)}

\* Only views in the content read models, as they render, without observing them.
MCReadersChild == {Reads({}, MODELS, {}, FALSE, FALSE)}

\* Only the owner reads models, and the child observes.
MCReadersOwner == {Reads(MODELS, {}, {}, FALSE, TRUE)}

\* Only elements of the content read models, as they are prepainted or painted.
MCReadersContent == {Reads({}, {}, MODELS, FALSE, TRUE)}

=============================================================================
